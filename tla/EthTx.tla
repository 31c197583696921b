-------------------------------- MODULE EthTx --------------------------------
(***************************************************************************)
(* Transmission in src/at32f4xx/lwip-2.1.2/port/ethernetif.c: the chained  *)
(* descriptors DMATxDscrTab, which low_level_output fills through          *)
(* ETH_GetCurrentTxBuffer and ETH_TxPkt_ChainMode, and the Ethernet DMA    *)
(* empties onto the wire.                                                  *)
(*                                                                         *)
(* Frames are numbered in the order low_level_output is called; 0 on the   *)
(* wire is a frame whose bytes are a mixture.  lwIP calls linkoutput       *)
(* whenever it has a frame, without asking for a free descriptor.          *)
(*                                                                         *)
(* What EthRx has too is named Tx... here, so that one proof module speaks *)
(* of both rings.                                                          *)
(***************************************************************************)
EXTENDS Naturals, Sequences, FiniteSets, SequencesExt

CONSTANTS
  TxN,       \* ETH_TXBUFNB
  MaxCalls   \* bound: calls of low_level_output

ASSUME TxSizeAssumption  == TxN \in Nat \ {0}
ASSUME TxBoundAssumption == MaxCalls \in Nat

VARIABLES
  txDesc,    \* the descriptors: OWN bit, frame in the buffer, copied in whole
  txDma,     \* the descriptor the DMA is at
  txState,   \* "fetch", "send", "short" (found OWN clear), "susp"
  sending,   \* the frame being sent, 0 once its bytes have been overwritten
  tbu,       \* ETH_DMASTS_TBU
  set,       \* DMATxDescToSet
  txPc,      \* the next statement of low_level_output, or "idle"
  calls,     \* calls of low_level_output so far
  accepted,  \* history: the frames ETH_TxPkt_ChainMode took
  okd,       \* history: the frames low_level_output returned ERR_OK for
  wire,      \* history: the frames sent
  overrun    \* history: a call found its descriptor owned by the DMA

txVars == << txDesc, txDma, txState, sending, tbu, set, txPc, calls,
             accepted, okd, wire, overrun >>
hist == << accepted, okd, wire, overrun >>

TxIndex == 0 .. TxN - 1

\* Buffer2NextDescAddr of the chain.
TxNext1(i) == IF i = TxN - 1 THEN 0 ELSE i + 1

-----------------------------------------------------------------------------
(* The DMA.                                                                  *)

TxFetch ==
  /\ txState = "fetch"
  /\ IF txDesc[txDma].own
     THEN /\ txState' = "send"
          /\ sending' = IF txDesc[txDma].whole THEN txDesc[txDma].frame ELSE 0
     ELSE txState' = "short" /\ UNCHANGED sending
  /\ UNCHANGED << txDesc, txDma, tbu, set, txPc, calls, hist >>

\* The flag and the suspension follow the fetch that found no descriptor.
TxSuspend ==
  /\ txState = "short"
  /\ txState' = "susp" /\ tbu' = TRUE
  /\ UNCHANGED << txDesc, txDma, sending, set, txPc, calls, hist >>

DmaSent ==
  /\ txState = "send"
  /\ wire' = Append(wire, sending)
  /\ txDesc' = [txDesc EXCEPT ![txDma].own = FALSE]
  /\ txDma' = TxNext1(txDma) /\ txState' = "fetch"
  /\ UNCHANGED << sending, tbu, set, txPc, calls, accepted, okd, overrun >>

-----------------------------------------------------------------------------
(* low_level_output.                                                         *)

\* Mutant: the descriptor is handed over before the copy.
HandOverFirst ==
  /\ txPc = "idle" /\ calls < MaxCalls /\ ~txDesc[set].own
  /\ calls' = calls + 1
  /\ txDesc' = [txDesc EXCEPT ![set] = [own |-> TRUE, frame |-> calls + 1, whole |-> FALSE]]
  /\ accepted' = Append(accepted, calls + 1)
  /\ txPc' = "kick"
  /\ UNCHANGED << txDma, txState, sending, tbu, set, okd, wire, overrun >>

\* The pbuf chain is copied into the buffer of DMATxDescToSet, whoever owns it.
CopyBegin ==
  /\ txPc = "idle" /\ calls < MaxCalls
  /\ calls' = calls + 1
  /\ txDesc' = [txDesc EXCEPT ![set] = [own |-> @.own, frame |-> calls + 1, whole |-> FALSE]]
  /\ sending' = IF txState = "send" /\ txDma = set THEN 0 ELSE sending
  /\ overrun' = (overrun \/ txDesc[set].own)
  /\ txPc' = "copy"
  /\ UNCHANGED << txDma, txState, tbu, set, accepted, okd, wire >>

\* The copy outlasts a suspension the DMA has begun.
CopyEnd ==
  /\ txPc = "copy" /\ txState # "short"
  /\ txDesc' = [txDesc EXCEPT ![set].whole = TRUE]
  /\ sending' = IF txState = "send" /\ txDma = set THEN 0 ELSE sending
  /\ txPc' = "txpkt"
  /\ UNCHANGED << txDma, txState, tbu, set, calls, hist >>

\* Mutant: the descriptor is not handed over to the DMA.
TxPktNoOwn ==
  /\ txPc = "txpkt" /\ ~txDesc[set].own
  /\ accepted' = Append(accepted, calls)
  /\ txPc' = "kick"
  /\ UNCHANGED << txDesc, txDma, txState, sending, tbu, set, calls, okd, wire, overrun >>

\* ETH_TxPkt_ChainMode up to the OWN bit.  Its ETH_ERROR is ignored by
\* low_level_output, which returns ERR_OK.
TxPkt ==
  /\ txPc = "txpkt"
  /\ IF txDesc[set].own
     THEN /\ okd' = okd \cup {calls}
          /\ txPc' = "idle"
          /\ UNCHANGED << txDesc, accepted >>
     ELSE /\ txDesc' = [txDesc EXCEPT ![set].own = TRUE]
          /\ accepted' = Append(accepted, calls)
          /\ txPc' = "kick"
          /\ UNCHANGED okd
  /\ UNCHANGED << txDma, txState, sending, tbu, set, calls, wire, overrun >>

\* Mutant: transmission is not resumed.
KickForgotten ==
  /\ txPc = "kick"
  /\ tbu' = FALSE
  /\ txPc' = "advance"
  /\ UNCHANGED << txDesc, txDma, txState, sending, set, calls, hist >>

\* When TBU is found set it is cleared and the DMA is told to poll.
Kick ==
  /\ txPc = "kick"
  /\ tbu' = FALSE
  /\ txState' = IF tbu /\ txState = "susp" THEN "fetch" ELSE txState
  /\ txPc' = "advance"
  /\ UNCHANGED << txDesc, txDma, sending, set, calls, hist >>

\* DMATxDescToSet moves on and low_level_output returns.
Advance ==
  /\ txPc = "advance"
  /\ set' = TxNext1(set)
  /\ okd' = okd \cup {calls}
  /\ txPc' = "idle"
  /\ UNCHANGED << txDesc, txDma, txState, sending, tbu, calls, accepted, wire, overrun >>

-----------------------------------------------------------------------------
\* ETH_DMATxDescChainInit and ETH_Start.
TxInit ==
  /\ txDesc = [i \in TxIndex |-> [own |-> FALSE, frame |-> 0, whole |-> TRUE]]
  /\ txDma = 0 /\ set = 0
  /\ txState = "fetch" /\ sending = 0 /\ tbu = FALSE
  /\ txPc = "idle" /\ calls = 0
  /\ accepted = << >> /\ okd = {} /\ wire = << >>
  /\ overrun = FALSE

Dma == TxFetch \/ TxSuspend \/ DmaSent
Output == CopyEnd \/ TxPkt \/ Kick \/ Advance
TxNext == Dma \/ CopyBegin \/ Output

\* The DMA and the call in progress keep running; no frame has to be sent.
TxFairness == WF_txVars(Dma) /\ WF_txVars(Output)

TxSpec     == TxInit /\ [][TxNext]_txVars
TxFairSpec == TxSpec /\ TxFairness

-----------------------------------------------------------------------------
(* Properties.                                                               *)

TxTypeOK ==
  /\ txDesc \in [TxIndex -> [own : BOOLEAN, frame : Nat, whole : BOOLEAN]]
  /\ txDma \in TxIndex /\ set \in TxIndex
  /\ txState \in {"fetch", "send", "short", "susp"}
  /\ sending \in Nat /\ tbu \in BOOLEAN
  /\ txPc \in {"idle", "copy", "txpkt", "kick", "advance"}
  /\ calls \in Nat /\ overrun \in BOOLEAN
  /\ accepted \in Seq(Nat) /\ wire \in Seq(Nat) /\ okd \in SUBSET Nat

\* How far descriptor i is from the one the DMA is at, along the chain.
TxDist(i) == IF i >= txDma THEN i - txDma ELSE i - txDma + TxN

\* The descriptor the next frame goes to, once the call in progress has moved on.
Target == IF txPc \in {"kick", "advance"} THEN TxNext1(set) ELSE set

\* The DMA's descriptors are a run of the chain from the one it is at up to the
\* one low_level_output fills next: whatever is overwritten, no descriptor is
\* skipped and none is sent twice.
TxRingWindow ==
  /\ \A i, j \in TxIndex : txDesc[j].own /\ TxDist(i) <= TxDist(j) => txDesc[i].own
  /\ \A i \in TxIndex : TxDist(i) < TxDist(Target) => txDesc[i].own
  /\ (\E i \in TxIndex : ~txDesc[i].own) => ~txDesc[Target].own

\* While no call has found the ring full, the wire carries exactly the frames
\* accepted so far, in order and unmixed (low_level_output copies before
\* ETH_TxPkt_ChainMode looks at the OWN bit, so nothing of the kind holds after).
WireFaithful == ~overrun => IsPrefix(wire, accepted)

\* Whatever is accepted before the last frame is sent.
AllButLastSent ==
  \A k \in 1 .. MaxCalls - 1 : Len(accepted) > k ~> Len(wire) >= k

\* "ERR_OK if the packet could be sent": a frame low_level_output returned
\* ERR_OK for was taken by ETH_TxPkt_ChainMode (ethernetif.c:192).
ErrOkMeansTaken == \A n \in okd : \E k \in 1 .. Len(accepted) : accepted[k] = n

=============================================================================
