------------------------------ MODULE HyUartTx ------------------------------
(***************************************************************************)
(* Sending in src/at32f4xx/hy_uart.c: HyUartSendBuf, and _write, which     *)
(* sends byte by byte through HyUartSendByte, called by the main program;  *)
(* and HyUartSendByte called by a callback that interrupts it at any point *)
(* (read_cb, time_cb and sys_tick_cb all run in interrupt handlers).       *)
(*                                                                         *)
(* The caller has one buffer of len bytes.  With HyUartSendBuf it sends    *)
(* again from where the returned count says; _write never looks at a       *)
(* result, and its len counts the bytes it hands to HyUartSendByte: those  *)
(* before a NUL, and a carriage return after each newline.  Bytes are      *)
(* their positions in the buffer; Echo is a byte a callback sends, 0 none. *)
(***************************************************************************)
EXTENDS Naturals, Sequences

CONSTANTS
  CountMax,   \* 0x1CE2, the polls after which a byte is given up
  IMod,       \* 2^16, the width of HyUartSendBuf's counter i
  MaxLen,     \* bound: the longest buffer
  MaxCalls,   \* bound: calls of HyUartSendBuf
  MaxEchoes,  \* bound: bytes sent by callbacks
  MaxWire     \* bound: bytes written to the data register

ASSUME CountAssumption == CountMax \in Nat \ {0} /\ IMod \in Nat \ {0}
ASSUME BoundAssumption ==
  {MaxLen, MaxCalls, MaxEchoes, MaxWire} \subseteq Nat

VARIABLES
  dr, shift,   \* the transmit data register and the shift register
  tc,          \* USART_FLAG_TRAC, transmission complete
  armed,       \* the status was read with TRAC set, so a write to DR clears it
  wire,        \* history: the bytes that left the line
  style, len,  \* the function the caller uses, and its buffer's length
  pc, i, base, count,  \* main: statement, loop index, offset sent from, polls
  done, calls, \* bytes the caller knows to be sent, calls made
  isr, icount, \* callback: statement, polls
  echoes,      \* bytes sent by callbacks
  writes,      \* bytes written to the data register
  gaveUp,      \* history: a poll loop ended at CountMax
  overwritten  \* history: a byte was written over one waiting in DR

usart  == << dr, shift, tc, armed, wire, writes, overwritten >>
caller == << style, len, pc, i, base, count, done, calls >>
cback  == << isr, icount, echoes >>
vars   == << usart, caller, cback, gaveUp >>

Echo == MaxLen + 2

-----------------------------------------------------------------------------
(* The transmitter.                                                          *)

\* A byte written to DR moves on at once when the shift register is empty.
USART_SendData(b) ==
  /\ writes < MaxWire /\ writes' = writes + 1
  /\ IF shift = 0 THEN shift' = b /\ UNCHANGED << dr, overwritten >>
     ELSE dr' = b /\ overwritten' = (overwritten \/ dr # 0) /\ UNCHANGED shift
  /\ tc' = (tc /\ ~armed) /\ armed' = FALSE
  /\ UNCHANGED wire

Shifted ==
  /\ shift # 0
  /\ wire' = Append(wire, shift)
  /\ shift' = dr /\ dr' = 0
  /\ tc' = (tc \/ dr = 0)
  /\ UNCHANGED << armed, writes, overwritten, caller, cback, gaveUp >>

\* USART_GetFlagStatus(USART_FLAG_TRAC).
ReadStatus ==
  /\ armed' = (armed \/ tc)
  /\ UNCHANGED << dr, shift, tc, wire, writes, overwritten >>

-----------------------------------------------------------------------------
(* The poll loop of HyUartSendByte and HyUartSendBuf after n polls.          *)

\* The loop ends at CountMax whatever the last poll saw, and that is a failure.
GivesUp(n) == n + 1 = CountMax

\* Mutant: the flag is not looked at.
AlwaysSucceeds(n) == ~GivesUp(n)

Succeeds(n) == tc /\ ~GivesUp(n)

KeepsPolling(n) == ~tc /\ ~GivesUp(n)

-----------------------------------------------------------------------------
(* The main program, which runs while no callback does.                      *)

Main == isr = "off"

\* HyUartSendBuf(handle, buf + done, len - done), or _write.
Send ==
  /\ Main /\ pc = "idle" /\ calls < MaxCalls
  /\ \/ calls = 0
     \/ style = "buf" /\ done < len
  /\ calls' = calls + 1
  /\ base' = done /\ i' = 0 /\ count' = 0
  /\ pc' = IF style = "write" /\ len = 0 THEN "return" ELSE "write"
  /\ UNCHANGED << usart, style, len, done, cback, gaveUp >>

SendData ==
  /\ Main /\ pc = "write"
  /\ USART_SendData(base + i + 1)
  /\ count' = 0 /\ pc' = "poll"
  /\ UNCHANGED << style, len, i, base, done, calls, cback, gaveUp >>

\* Mutant: the count starts again with every poll.
PollForgets ==
  /\ Main /\ pc = "poll" /\ KeepsPolling(count)
  /\ ReadStatus
  /\ count' = 0
  /\ UNCHANGED << style, len, pc, i, base, done, calls, cback, gaveUp >>

Poll ==
  /\ Main /\ pc = "poll" /\ KeepsPolling(count)
  /\ ReadStatus
  /\ count' = count + 1
  /\ UNCHANGED << style, len, pc, i, base, done, calls, cback, gaveUp >>

\* Where the byte given up leaves the call: HyUartSendBuf breaks out before it
\* counts, _write goes on to the next byte.
AfterGivingUp ==
  IF style = "buf" THEN pc' = "return" /\ UNCHANGED i
  ELSE /\ i' = i + 1
       /\ pc' = IF i + 1 < len THEN "write" ELSE "return"

Timeout ==
  /\ Main /\ pc = "poll" /\ GivesUp(count)
  /\ ReadStatus
  /\ AfterGivingUp
  /\ gaveUp' = TRUE
  /\ UNCHANGED << style, len, base, count, done, calls, cback >>

\* Mutant: an eight-bit counter, scaled like IMod.
NarrowInc(n) == (n + 1) % 2

\* i++ in HyUartSendBuf's uint16_t; _write's int does not wrap.
Inc(n) == IF style = "buf" THEN (n + 1) % IMod ELSE n + 1

ByteSent ==
  /\ Main /\ pc = "poll" /\ Succeeds(count)
  /\ ReadStatus
  /\ i' = Inc(i)
  /\ pc' = IF Inc(i) < len - base THEN "write" ELSE "return"
  /\ UNCHANGED << style, len, base, count, done, calls, cback, gaveUp >>

\* Mutant: the length is returned instead of the count.
ReturnLen ==
  /\ Main /\ pc = "return"
  /\ done' = len
  /\ pc' = "idle"
  /\ UNCHANGED << usart, style, len, i, base, count, calls, cback, gaveUp >>

Return ==
  /\ Main /\ pc = "return"
  /\ done' = base + i
  /\ pc' = "idle"
  /\ UNCHANGED << usart, style, len, i, base, count, calls, cback, gaveUp >>

-----------------------------------------------------------------------------
(* A callback that calls HyUartSendByte.                                     *)

CbSend ==
  /\ isr = "off" /\ echoes < MaxEchoes
  /\ USART_SendData(Echo)
  /\ isr' = "poll" /\ icount' = 0 /\ echoes' = echoes + 1
  /\ UNCHANGED << caller, gaveUp >>

CbPoll ==
  /\ isr = "poll" /\ KeepsPolling(icount)
  /\ ReadStatus
  /\ icount' = icount + 1
  /\ UNCHANGED << isr, echoes, caller, gaveUp >>

CbReturn ==
  /\ isr = "poll" /\ (GivesUp(icount) \/ Succeeds(icount))
  /\ ReadStatus
  /\ isr' = "off"
  /\ gaveUp' = (gaveUp \/ GivesUp(icount))
  /\ UNCHANGED << icount, echoes, caller >>

-----------------------------------------------------------------------------
\* TRAC is set out of reset and the status has not been read.
Init ==
  /\ dr = 0 /\ shift = 0 /\ tc = TRUE /\ armed = FALSE /\ wire = << >>
  /\ style \in {"buf", "write"} /\ len \in 0 .. MaxLen
  /\ pc = "idle" /\ i = 0 /\ base = 0 /\ count = 0 /\ done = 0 /\ calls = 0
  /\ isr = "off" /\ icount = 0 /\ echoes = 0 /\ writes = 0
  /\ gaveUp = FALSE /\ overwritten = FALSE

Callback == CbSend \/ CbPoll \/ CbReturn
InCall   == SendData \/ Poll \/ Timeout \/ ByteSent \/ Return

Next == Shifted \/ Send \/ InCall \/ Callback

\* The CPU runs; callbacks return and are finitely many, so the call in progress
\* runs again after the last of them.  The transmitter may stall for ever.
Fairness == WF_vars(InCall) /\ WF_vars(CbPoll \/ CbReturn)

Spec     == Init /\ [][Next]_vars
FairSpec == Spec /\ Fairness

-----------------------------------------------------------------------------
(* Properties.                                                               *)

TypeOK ==
  /\ dr \in Nat /\ shift \in Nat /\ tc \in BOOLEAN /\ armed \in BOOLEAN /\ wire \in Seq(Nat)
  /\ style \in {"buf", "write"} /\ len \in 0 .. MaxLen
  /\ pc \in {"idle", "write", "poll", "return"}
  /\ i \in Nat /\ base \in Nat /\ count \in Nat /\ done \in Nat /\ calls \in Nat
  /\ isr \in {"off", "poll"} /\ icount \in Nat /\ echoes \in Nat /\ writes \in Nat
  /\ gaveUp \in BOOLEAN /\ overwritten \in BOOLEAN

\* The bytes handed to the transmitter, in the order they leave it.
Held(b) == IF b = 0 THEN << >> ELSE << b >>
Line == wire \o Held(shift) \o Held(dr)

\* The places of the caller's bytes on the line.
Ours == {k \in 1 .. Len(Line) : Line[k] # Echo}

\* The wait for TRAC keeps DR free: a byte of HyUartSendBuf or _write is
\* overwritten there only after a wait gave up, or when callbacks send as well
\* (TRAC, left set by a write that no status read preceded, ends their wait early).
OverwriteNeedsGiveUp == overwritten => gaveUp \/ echoes > 0

\* The caller's bytes keep their order; HyUartSendBuf, called again after a short
\* count, can repeat a byte, _write cannot.
LineInOrder ==
  len < IMod =>
    \A j, k \in Ours :
      j < k => IF style = "buf" THEN Line[j] <= Line[k] ELSE Line[j] < Line[k]

\* The count HyUartSendBuf returned can be trusted up to one byte: what it counted
\* is on the line, whatever the callbacks sent in between, unless DR was
\* overwritten, and between calls the line has at most one byte more.
CountMatchesLine ==
  style = "buf" =>
    /\ ~overwritten => \A b \in 1 .. done : \E k \in Ours : Line[k] = b
    /\ pc = "idle" /\ len < IMod => \A k \in Ours : Line[k] <= done + 1

\* Every call returns when the buffer's length fits the counter i, and even if the
\* transmitter never sends: each wait is given up.
SendReturns == len < IMod => (pc # "idle" ~> pc = "idle")

=============================================================================
