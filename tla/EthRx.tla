-------------------------------- MODULE EthRx --------------------------------
(***************************************************************************)
(* Reception in src/at32f4xx/lwip-2.1.2/port/ethernetif.c: the chained     *)
(* descriptors DMARxDscrTab, shared by the Ethernet DMA, which fills them, *)
(* and low_level_input / ethernetif_input, which empty them into pbufs.    *)
(*                                                                         *)
(* The main loop of a NO_SYS build is the only caller, so the interleaving *)
(* is between the CPU and the DMA.  Frames are numbered in the order they  *)
(* reach the MAC.  A frame's size is the number of pool pbufs it fills; 0  *)
(* stands for an error frame: ES set, or not first and last segment.       *)
(***************************************************************************)
EXTENDS Naturals, Sequences, FiniteSets

CONSTANTS
  N,          \* ETH_RXBUFNB
  Pool,       \* PBUF_POOL_SIZE
  MaxSize,    \* pool pbufs the largest frame fills
  MaxFrames   \* bound: frames that reach the MAC

ASSUME SizeAssumption  == N \in Nat \ {0}
ASSUME BoundAssumption == Pool \in Nat /\ MaxSize \in Nat \ {0} /\ MaxFrames \in Nat

VARIABLES
  desc,       \* the descriptors: OWN bit, and the frame and size in the buffer
  dma,        \* the descriptor the DMA is at
  dmaState,   \* "fetch", "ready", "short" (found OWN clear), "susp"
  rbu,        \* ETH_DMASTS_RBU
  get,        \* DMARxDescToGet
  pc,         \* the next statement of ethernetif_input, or "idle"
  frame,      \* the local frame: the descriptor taken and the size read from it
  p,          \* the local pbuf chain: the frame copied into it and its length
  pool,       \* free pbufs
  held,       \* pbufs the stack has kept
  style,      \* how the caller decides that a packet is ready
  arrived,    \* frames that have reached the MAC
  delivered,  \* history: the frames handed to netif->input
  dropped     \* history: frames lost, to the MAC, to an error or to the pool

vars == << desc, dma, dmaState, rbu, get, pc, frame, p, pool, held, style,
           arrived, delivered, dropped >>
ring  == << desc, dma, dmaState, rbu >>
local == << frame, p >>

Index == 0 .. N - 1

\* Buffer2NextDescAddr of the chain.
Next1(i) == IF i = N - 1 THEN 0 ELSE i + 1

\* pbuf_alloc(PBUF_RAW, len, PBUF_POOL) takes one pbuf even for length 0.
Pbufs(size) == IF size = 0 THEN 1 ELSE size

-----------------------------------------------------------------------------
(* The DMA.                                                                  *)

Store(size) ==
  /\ desc' = [desc EXCEPT ![dma] = [own |-> FALSE, frame |-> arrived + 1, size |-> size]]
  /\ dma' = Next1(dma) /\ dmaState' = "fetch"
  /\ UNCHANGED << rbu, dropped >>

\* A frame arrives at a DMA that holds a descriptor, or that is suspended and
\* reads the descriptor again.  Without one the frame is missed.
FrameArrives(size) ==
  /\ dmaState \in {"ready", "susp"} /\ arrived < MaxFrames
  /\ arrived' = arrived + 1
  /\ IF desc[dma].own THEN Store(size) ELSE dropped' = dropped + 1 /\ UNCHANGED ring
  /\ UNCHANGED << get, pc, local, pool, held, style, delivered >>

DmaFetch ==
  /\ dmaState = "fetch"
  /\ dmaState' = IF desc[dma].own THEN "ready" ELSE "short"
  /\ UNCHANGED << desc, dma, rbu, get, pc, local, pool, held, style, arrived,
                  delivered, dropped >>

\* The flag and the suspension follow the fetch that found no descriptor.
DmaSuspend ==
  /\ dmaState = "short"
  /\ dmaState' = "susp" /\ rbu' = TRUE
  /\ UNCHANGED << desc, dma, get, pc, local, pool, held, style, arrived,
                  delivered, dropped >>

\* ETH->DMASTS = RBU; ETH->DMARPD = 0, when the flag is found set.
Resume ==
  /\ rbu' = FALSE
  /\ dmaState' = IF rbu /\ dmaState = "susp" THEN "fetch" ELSE dmaState

-----------------------------------------------------------------------------
(* The CPU.                                                                  *)

\* The caller's test that a packet is ready: ETH_GetRxPktSize() # 0, or the OWN
\* bit alone.
PacketReady ==
  /\ ~desc[get].own
  /\ style = "size" => desc[get].size # 0

Poll ==
  /\ pc = "idle" /\ PacketReady
  /\ pc' = "rx"
  /\ UNCHANGED << ring, get, local, pool, held, style, arrived, delivered, dropped >>

\* Mutant: the descriptor is given back before the frame is copied.
RxPktGivesBack ==
  /\ pc = "rx" /\ ~desc[get].own
  /\ frame' = [desc |-> get, size |-> desc[get].size]
  /\ desc' = [desc EXCEPT ![get].own = TRUE]
  /\ get' = Next1(get)
  /\ pc' = "alloc"
  /\ UNCHANGED << dma, dmaState, rbu, p, pool, held, style, arrived, delivered, dropped >>

\* ETH_RxPkt_ChainMode.  With the OWN bit set it returns a null descriptor, which
\* low_level_input goes on to write through: "fault".
RxPkt ==
  /\ pc = "rx"
  /\ IF desc[get].own
     THEN /\ Resume
          /\ pc' = "fault"
          /\ UNCHANGED << desc, dma, get, frame >>
     ELSE /\ frame' = [desc |-> get, size |-> desc[get].size]
          /\ get' = Next1(get)
          /\ pc' = "alloc"
          /\ UNCHANGED ring
  /\ UNCHANGED << p, pool, held, style, arrived, delivered, dropped >>

\* Mutant: low_level_input returns at once when there is no pbuf.
AllocOrReturn ==
  /\ pc = "alloc"
  /\ IF Pbufs(frame.size) <= pool
     THEN /\ pool' = pool - Pbufs(frame.size)
          /\ p' = [pbufs |-> Pbufs(frame.size), frame |-> desc[frame.desc].frame]
          /\ pc' = "own"
     ELSE /\ UNCHANGED << p, pool >>
          /\ pc' = "idle"
  /\ UNCHANGED << ring, get, frame, held, style, arrived, delivered, dropped >>

\* pbuf_alloc and the memcpy; an error frame yields an empty pbuf.
AllocCopy ==
  /\ pc = "alloc"
  /\ IF Pbufs(frame.size) <= pool
     THEN /\ pool' = pool - Pbufs(frame.size)
          /\ p' = [pbufs |-> Pbufs(frame.size),
                   frame |-> IF frame.size = 0 THEN 0 ELSE desc[frame.desc].frame]
     ELSE /\ p' = [pbufs |-> 0, frame |-> 0]
          /\ UNCHANGED pool
  /\ pc' = "own"
  /\ UNCHANGED << ring, get, frame, held, style, arrived, delivered, dropped >>

\* Mutant: DMARxDescToGet, already advanced, is given back.
GiveBackGet ==
  /\ pc = "own"
  /\ desc' = [desc EXCEPT ![get].own = TRUE]
  /\ pc' = "resume"
  /\ UNCHANGED << dma, dmaState, rbu, get, local, pool, held, style, arrived,
                  delivered, dropped >>

\* frame.descriptor->Status = ETH_DMARxDesc_OWN.
GiveBack ==
  /\ pc = "own"
  /\ desc' = [desc EXCEPT ![frame.desc].own = TRUE]
  /\ pc' = "resume"
  /\ UNCHANGED << dma, dmaState, rbu, get, local, pool, held, style, arrived,
                  delivered, dropped >>

ResumeReception ==
  /\ pc = "resume"
  /\ Resume
  /\ pc' = "input"
  /\ UNCHANGED << desc, dma, get, local, pool, held, style, arrived, delivered, dropped >>

\* Mutant: an empty pbuf is not freed.
InputLeaks ==
  /\ pc = "input"
  /\ IF p.frame = 0
     THEN dropped' = dropped + 1 /\ UNCHANGED << pool, held, delivered >>
     ELSE /\ delivered' = Append(delivered, p.frame)
          /\ held' = held + p.pbufs /\ UNCHANGED << pool, dropped >>
  /\ p' = [pbufs |-> 0, frame |-> 0]
  /\ pc' = "idle"
  /\ UNCHANGED << ring, get, frame, style, arrived >>

\* ethernetif_input after low_level_input: the frame goes up the stack, which
\* keeps the chain or frees it (ethernetif_input frees it on an error); an
\* empty pbuf is always freed.  Without a pbuf the frame is lost.
Input ==
  /\ pc = "input"
  /\ IF p.frame = 0
     THEN /\ pool' = pool + p.pbufs
          /\ dropped' = dropped + 1
          /\ UNCHANGED << held, delivered >>
     ELSE /\ delivered' = Append(delivered, p.frame)
          /\ \/ held' = held + p.pbufs /\ UNCHANGED pool
             \/ pool' = pool + p.pbufs /\ UNCHANGED held
          /\ UNCHANGED dropped
  /\ p' = [pbufs |-> 0, frame |-> 0]
  /\ pc' = "idle"
  /\ UNCHANGED << ring, get, frame, style, arrived >>

\* The stack frees a pbuf it kept.
StackFree ==
  /\ pc = "idle" /\ held > 0
  /\ held' = held - 1 /\ pool' = pool + 1
  /\ UNCHANGED << ring, get, pc, local, style, arrived, delivered, dropped >>

-----------------------------------------------------------------------------
\* ETH_DMARxDescChainInit and ETH_Start.
Init ==
  /\ desc = [i \in Index |-> [own |-> TRUE, frame |-> 0, size |-> 0]]
  /\ dma = 0 /\ get = 0
  /\ dmaState = "fetch" /\ rbu = FALSE
  /\ pc = "idle"
  /\ frame = [desc |-> 0, size |-> 0]
  /\ p = [pbufs |-> 0, frame |-> 0]
  /\ pool = Pool /\ held = 0
  /\ style \in {"own", "size"}
  /\ arrived = 0 /\ delivered = << >> /\ dropped = 0

Cpu == Poll \/ RxPkt \/ AllocCopy \/ GiveBack \/ ResumeReception \/ Input

Next ==
  \/ \E size \in 0 .. MaxSize : FrameArrives(size)
  \/ DmaFetch \/ DmaSuspend
  \/ Cpu \/ StackFree

\* The DMA and the main loop keep running; the network and the stack owe nothing.
Fairness == WF_vars(DmaFetch) /\ WF_vars(DmaSuspend) /\ WF_vars(Cpu)

Spec     == Init /\ [][Next]_vars
FairSpec == Spec /\ Fairness

-----------------------------------------------------------------------------
(* Properties.                                                               *)

TypeOK ==
  /\ desc \in [Index -> [own : BOOLEAN, frame : Nat, size : 0 .. MaxSize]]
  /\ dma \in Index /\ get \in Index
  /\ dmaState \in {"fetch", "ready", "short", "susp"} /\ rbu \in BOOLEAN
  /\ pc \in {"idle", "rx", "alloc", "own", "resume", "input", "fault"}
  /\ frame \in [desc : Index, size : 0 .. MaxSize]
  /\ p \in [pbufs : Nat, frame : Nat]
  /\ pool \in Nat /\ held \in Nat
  /\ style \in {"own", "size"}
  /\ arrived \in Nat /\ delivered \in Seq(Nat) /\ dropped \in Nat

\* The CPU has taken the descriptor before get and not given it back.
InHand == pc \in {"alloc", "own"}

\* The oldest descriptor that belongs to the CPU.
Oldest == IF InHand THEN frame.desc ELSE get

\* How far descriptor i is from the oldest one, along the chain.
Dist(i) == IF i >= Oldest THEN i - Oldest ELSE i - Oldest + N

Filled == {i \in Index : ~desc[i].own}

\* A caller that asks first never has low_level_input write through the null
\* descriptor ETH_RxPkt_ChainMode returns when the DMA owns the next one.
NoNullDescriptor == pc # "fault"

\* The descriptors the CPU owns are a run of the chain from Oldest up to the one
\* the DMA is at, so what the DMA fills next is never something the CPU holds or
\* has yet to read (the OWN protocol of ETH_RxPkt_ChainMode and low_level_input),
\* and a packet found ready is still there when it is taken.
RingWindow ==
  /\ NoNullDescriptor
  /\ \A i, j \in Index : ~desc[j].own /\ Dist(i) <= Dist(j) => ~desc[i].own
  /\ \A i \in Index : Dist(i) < Dist(dma) => ~desc[i].own
  /\ (\E i \in Index : desc[i].own) => desc[dma].own
  /\ InHand => get = Next1(frame.desc)

\* How many descriptors hold a frame, and the k-th of them along the chain.
Count == IF desc[Oldest].own THEN 0 ELSE IF dma = Oldest THEN N ELSE Dist(dma)
Nth(k) == IF Oldest + k - 1 < N THEN Oldest + k - 1 ELSE Oldest + k - 1 - N

\* The frames waiting for the stack: the one low_level_input has copied and given
\* back, and those in the ring.
Unread == [k \in 1 .. Count |-> desc[Nth(k)].frame]
Copied == pc \in {"resume", "input"} /\ p.frame # 0
Waiting == IF Copied THEN << p.frame >> \o Unread ELSE Unread

\* The ring and the copy of its frames into pbufs are a queue: the stack gets the
\* frames whole, in the order they arrived and none twice, whatever the DMA does
\* meanwhile, and the MAC misses none while a descriptor is free.
Fifo == INSTANCE EthFifo WITH Capacity <- N, fifo <- Waiting
InOrder == Fifo!Spec

\* Every frame that reached the MAC is delivered, dropped, in the ring or in the
\* hands of low_level_input; every pbuf is free, kept by the stack or in its hands.
Conservation ==
  /\ arrived = Len(delivered) + dropped + Cardinality(Filled)
               + (IF pc \in {"resume", "input"} THEN 1 ELSE 0)
  /\ pool + held + p.pbufs = Pool

\* A caller that tests only the OWN bit empties the ring, error frames and
\* exhausted pools included, and reception is never left suspended with frames
\* unread.  A caller that waits for a size has to drop error frames by other means.
RingDrains == style = "own" => []<>(Filled = {})

=============================================================================
