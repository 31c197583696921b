--------------------------- MODULE HyUartTxProofs ---------------------------
(***************************************************************************)
(* Sending, for every poll limit, counter width and buffer: type           *)
(* correctness, what a write to DR can overwrite, the order of the bytes   *)
(* on the line, and what the returned count says of them.                  *)
(***************************************************************************)
EXTENDS HyUartTx, SequenceTheorems, TLAPS

\* While no wait has given up and no callback has sent, the wait for TRAC ends with
\* DR free: TRAC is set only then, and a write that does not find the transmitter
\* empty finds it armed, so that it clears TRAC.
Free ==
  gaveUp \/ echoes > 0 \/
    /\ ~overwritten
    /\ tc => dr = 0
    /\ pc # "poll" => dr = 0 /\ (shift # 0 => armed)

\* Where in its buffer the caller is.
InBuffer ==
  /\ calls = 0 => done = 0 /\ pc = "idle"
  /\ pc # "idle" => base = done
  /\ style = "write" => base = 0
  /\ pc \in {"write", "poll"} => base + i < len \/ (len = 0 /\ base = 0 /\ i = 0)

\* The transmitter moves a byte on from DR as soon as it can.
Filled == dr # 0 => shift # 0

\* The bytes the caller has behind it, counting the one it waits for.
Top == IF pc = "idle" THEN done ELSE base + i
Handed == IF pc = "poll" THEN Top + 1 ELSE Top

\* The bytes behind the caller are on the line, and no others are, except the one a
\* short count of HyUartSendBuf leaves out.
OnLine == ~overwritten => \A b \in 1 .. Handed : \E k \in Ours : Line[k] = b
Bound == IF style = "buf" THEN Top + 1 ELSE Handed
NotAhead == len < IMod => \A k \in Ours : Line[k] <= Bound

-----------------------------------------------------------------------------
(* Types.                                                                    *)

LEMMA TypeInit == Init => TypeOK
<1> SUFFICES ASSUME Init PROVE TypeOK
  OBVIOUS
<1>1. wire \in Seq(Nat)
  BY DEF Init
<1> QED BY <1>1 DEF Init, TypeOK

\* A write to the data register keeps the types of the transmitter.
LEMMA SendType ==
  ASSUME TypeOK, NEW b \in Nat, USART_SendData(b)
  PROVE  /\ dr' \in Nat /\ shift' \in Nat /\ tc' \in BOOLEAN /\ armed' \in BOOLEAN
         /\ wire' \in Seq(Nat) /\ writes' \in Nat /\ overwritten' \in BOOLEAN
<1>1. wire' \in Seq(Nat) /\ writes' \in Nat
  BY DEF TypeOK, USART_SendData
<1>2. dr' \in Nat /\ shift' \in Nat
  BY DEF TypeOK, USART_SendData
<1>3. tc' \in BOOLEAN /\ armed' \in BOOLEAN /\ overwritten' \in BOOLEAN
  BY DEF TypeOK, USART_SendData
<1> QED BY <1>1, <1>2, <1>3

LEMMA TypeStep == TypeOK /\ [Next]_vars => TypeOK'
<1> SUFFICES ASSUME TypeOK, [Next]_vars PROVE TypeOK'
  OBVIOUS
<1> USE DEF TypeOK, usart, caller, cback
<1>1. CASE Shifted
  <2>1. Append(wire, shift) \in Seq(Nat)
    OBVIOUS
  <2> QED BY <1>1, <2>1 DEF Shifted
<1>2. CASE Send
  BY <1>2 DEF Send
<1>3. CASE SendData
  <2>1. USART_SendData(base + i + 1) /\ base + i + 1 \in Nat
    BY <1>3 DEF SendData
  <2>2. /\ dr' \in Nat /\ shift' \in Nat /\ tc' \in BOOLEAN /\ armed' \in BOOLEAN
        /\ wire' \in Seq(Nat) /\ writes' \in Nat /\ overwritten' \in BOOLEAN
    BY <2>1, SendType
  <2> QED BY <1>3, <2>2 DEF SendData
<1>4. CASE Poll
  BY <1>4 DEF Poll, ReadStatus
<1>5. CASE Timeout
  BY <1>5 DEF Timeout, ReadStatus, AfterGivingUp
<1>6. CASE ByteSent
  <2>1. i' \in Nat
    BY <1>6, CountAssumption DEF ByteSent, Inc
  <2> QED BY <1>6, <2>1 DEF ByteSent, ReadStatus
<1>7. CASE Return
  BY <1>7 DEF Return
<1>8. CASE CbSend
  <2>1. USART_SendData(Echo) /\ Echo \in Nat
    BY <1>8, BoundAssumption DEF CbSend, Echo
  <2>2. /\ dr' \in Nat /\ shift' \in Nat /\ tc' \in BOOLEAN /\ armed' \in BOOLEAN
        /\ wire' \in Seq(Nat) /\ writes' \in Nat /\ overwritten' \in BOOLEAN
    BY <2>1, SendType
  <2> QED BY <1>8, <2>2 DEF CbSend
<1>9. CASE CbPoll
  BY <1>9 DEF CbPoll, ReadStatus
<1>10. CASE CbReturn
  BY <1>10 DEF CbReturn, ReadStatus
<1>11. CASE UNCHANGED vars
  BY <1>11 DEF vars
<1> QED
  BY <1>1, <1>2, <1>3, <1>4, <1>5, <1>6, <1>7, <1>8, <1>9, <1>10, <1>11 DEF Next, InCall, Callback

\* Every variable of the sending side keeps its type, for every bound.
THEOREM TypeCorrect == Spec => []TypeOK
BY TypeInit, TypeStep, PTL DEF Spec

-----------------------------------------------------------------------------
(* The data register.                                                        *)

\* The wait for TRAC leaves DR free for the next byte.
LEMMA FreeStep == TypeOK /\ Free /\ [Next]_vars => Free'
<1> SUFFICES ASSUME TypeOK, Free, [Next]_vars, ~gaveUp', ~(echoes' > 0) PROVE Free'
  BY DEF Free
<1> USE DEF Free, usart, caller, cback
<1>1. CASE Shifted
  BY <1>1 DEF Shifted
<1>2. CASE Send
  BY <1>2 DEF Send
<1>3. CASE SendData
  <2>1. /\ pc = "write" /\ pc' = "poll" /\ dr = 0 /\ (shift # 0 => armed) /\ ~overwritten
        /\ USART_SendData(base + i + 1) /\ UNCHANGED << gaveUp, echoes >>
    BY <1>3 DEF SendData
  <2> QED BY <2>1 DEF USART_SendData
<1>4. CASE Poll
  BY <1>4 DEF Poll, ReadStatus
<1>5. CASE Timeout
  BY <1>5 DEF Timeout
<1>6. CASE ByteSent
  BY <1>6 DEF ByteSent, ReadStatus, Succeeds
<1>7. CASE Return
  BY <1>7 DEF Return
<1>8. CASE CbSend
  BY <1>8 DEF CbSend, TypeOK
<1>9. CASE CbPoll
  BY <1>9 DEF CbPoll, ReadStatus
<1>10. CASE CbReturn
  BY <1>10 DEF CbReturn, ReadStatus
<1>11. CASE UNCHANGED vars
  BY <1>11 DEF vars
<1> QED
  BY <1>1, <1>2, <1>3, <1>4, <1>5, <1>6, <1>7, <1>8, <1>9, <1>10, <1>11 DEF Next, InCall, Callback

\* For every poll limit a byte is written over one waiting in DR only after a wait gave
\* up, or when callbacks send as well: the stale TRAC of the first byte does no harm to
\* HyUartSendBuf or _write alone.
THEOREM Overwrites == Spec => []OverwriteNeedsGiveUp
<1>1. Init => Free
  BY DEF Init, Free
<1>2. Free => OverwriteNeedsGiveUp
  BY DEF Free, OverwriteNeedsGiveUp
<1> QED BY <1>1, <1>2, TypeInit, TypeStep, FreeStep, PTL DEF Spec

-----------------------------------------------------------------------------
(* The line.                                                                 *)

\* What is in DR follows what is in the shift register.
LEMMA FilledStep == TypeOK /\ Filled /\ [Next]_vars => Filled'
<1> SUFFICES ASSUME TypeOK, Filled, [Next]_vars PROVE Filled'
  OBVIOUS
<1> USE DEF Filled, usart, caller, cback
<1>1. ASSUME NEW b \in Nat, b # 0, USART_SendData(b) PROVE Filled'
  BY <1>1 DEF USART_SendData
<1>2. CASE Shifted
  BY <1>2 DEF Shifted
<1>3. CASE SendData
  <2>1. base + i + 1 \in Nat /\ base + i + 1 # 0
    BY DEF TypeOK
  <2> QED BY <1>1, <1>3, <2>1 DEF SendData
<1>4. CASE CbSend
  <2>1. Echo \in Nat /\ Echo # 0
    BY BoundAssumption DEF Echo
  <2> QED BY <1>1, <1>4, <2>1 DEF CbSend
<1>5. CASE dr' = dr /\ shift' = shift
  BY <1>5
<1>6. Send \/ Poll \/ Timeout \/ ByteSent \/ Return \/ CbPoll \/ CbReturn \/ UNCHANGED vars
        => dr' = dr /\ shift' = shift
  BY DEF Send, Poll, Timeout, ByteSent, Return, CbPoll, CbReturn, ReadStatus, vars
<1> QED BY <1>2, <1>3, <1>4, <1>5, <1>6 DEF Next, InCall, Callback

\* The line as the appended sequence it is.
LEMMA LineForm ==
  ASSUME NEW w \in Seq(Nat), NEW s \in Nat, NEW d \in Nat, d # 0 => s # 0
  PROVE  w \o Held(s) \o Held(d) =
           IF s = 0 THEN w ELSE IF d = 0 THEN Append(w, s) ELSE Append(Append(w, s), d)
<1>1. \A v \in Seq(Nat) : v \o << >> = v
  BY ConcatEmptySeq
<1>2. \A v \in Seq(Nat), x \in Nat : v \o << x >> = Append(v, x)
  BY AppendIsConcat
<1>3. \A v \in Seq(Nat), x \in Nat : Append(v, x) \in Seq(Nat)
  BY AppendProperties
<1>4. CASE s = 0
  BY <1>1, <1>4 DEF Held
<1>5. CASE s # 0 /\ d = 0
  BY <1>1, <1>2, <1>3, <1>5 DEF Held
<1>6. CASE s # 0 /\ d # 0
  BY <1>2, <1>3, <1>6 DEF Held
<1> QED BY <1>4, <1>5, <1>6

\* b is the last byte of the line now, behind all of the old line, or all but its last
\* byte where that was overwritten.
Pushed(b) ==
  \E n \in Nat :
    /\ n <= Len(Line) /\ Len(Line') = n + 1 /\ Line'[n + 1] = b
    /\ \A k \in 1 .. n : Line'[k] = Line[k]
    /\ ~overwritten' => n = Len(Line)

LEMMA Pushes ==
  ASSUME TypeOK, Filled, NEW b \in Nat, b # 0, USART_SendData(b)
  PROVE  Pushed(b)
<1>1. /\ wire \in Seq(Nat) /\ shift \in Nat /\ dr \in Nat /\ (dr # 0 => shift # 0)
      /\ wire' = wire
  BY DEF TypeOK, Filled, USART_SendData
<1>2. Line = IF shift = 0 THEN wire ELSE IF dr = 0 THEN Append(wire, shift)
             ELSE Append(Append(wire, shift), dr)
  BY <1>1, LineForm DEF Line
<1>3. \A v \in Seq(Nat), x \in Nat :
        /\ Append(v, x) \in Seq(Nat) /\ Len(v) \in Nat /\ Len(Append(v, x)) = Len(v) + 1
        /\ Append(v, x)[Len(v) + 1] = x
        /\ \A k \in 1 .. Len(v) : Append(v, x)[k] = v[k]
  BY AppendProperties, LenProperties
<1>4. CASE shift = 0
  <2>1. shift' = b /\ dr' = 0
    BY <1>1, <1>4 DEF USART_SendData
  <2>2. Line' = Append(wire, b)
    BY <1>1, <2>1, LineForm DEF Line
  <2>3. Line = wire
    BY <1>2, <1>4
  <2> QED BY <1>1, <1>3, <2>2, <2>3 DEF Pushed
<1>5. CASE shift # 0
  <2>1. shift' = shift /\ dr' = b /\ (~overwritten' => dr = 0)
    BY <1>5 DEF USART_SendData
  <2>2. PICK v \in Seq(Nat) : v = Append(wire, shift)
    BY <1>1, <1>3
  <2>3. Line' = Append(v, b)
    BY <1>1, <1>5, <2>1, <2>2, LineForm DEF Line
  <2>4. Line = IF dr = 0 THEN v ELSE Append(v, dr)
    BY <1>2, <1>5, <2>2
  <2>5. CASE dr = 0
    BY <1>3, <2>3, <2>4, <2>5 DEF Pushed
  <2>6. CASE dr # 0
    <3>1. Line = Append(v, dr)
      BY <2>4, <2>6
    <3> QED BY <1>1, <1>3, <2>1, <2>3, <2>6, <3>1 DEF Pushed
  <2> QED BY <2>5, <2>6
<1> QED BY <1>4, <1>5

\* A byte that moves on keeps its place in the line.
LEMMA Moves == TypeOK /\ Filled /\ Shifted => Line' = Line
<1> SUFFICES ASSUME TypeOK, Filled, Shifted PROVE Line' = Line
  OBVIOUS
<1>1. /\ wire \in Seq(Nat) /\ shift \in Nat /\ shift # 0 /\ dr \in Nat
      /\ wire' = Append(wire, shift) /\ shift' = dr /\ dr' = 0
  BY DEF TypeOK, Shifted
<1>2. wire' \in Seq(Nat)
  BY <1>1, AppendProperties
<1>3. Line = IF dr = 0 THEN Append(wire, shift) ELSE Append(Append(wire, shift), dr)
  BY <1>1, LineForm DEF Line
<1>4. Line' = IF dr = 0 THEN wire' ELSE Append(wire', dr)
  BY <1>1, <1>2, LineForm DEF Line
<1> QED BY <1>1, <1>3, <1>4

\* The steps that write nothing to DR leave the line as it is.
LEMMA Stays ==
  ASSUME TypeOK, Filled,
         Shifted \/ Send \/ Poll \/ Timeout \/ ByteSent \/ Return \/ CbPoll \/ CbReturn
           \/ UNCHANGED vars
  PROVE  Line' = Line /\ overwritten' = overwritten
<1>1. CASE Shifted
  BY <1>1, Moves DEF Shifted
<1>2. CASE Send \/ Poll \/ Timeout \/ ByteSent \/ Return \/ CbPoll \/ CbReturn \/ UNCHANGED vars
  <2>1. UNCHANGED << wire, shift, dr, overwritten >>
    BY <1>2 DEF Send, Poll, Timeout, ByteSent, Return, CbPoll, CbReturn, ReadStatus, vars, usart
  <2> QED BY <2>1 DEF Line
<1> QED BY <1>1, <1>2

-----------------------------------------------------------------------------
(* Where the caller is in its buffer.                                        *)

LEMMA InBufferStep == TypeOK /\ InBuffer /\ [Next]_vars => InBuffer'
<1> SUFFICES ASSUME TypeOK, InBuffer, [Next]_vars PROVE InBuffer'
  OBVIOUS
<1>0. /\ len \in Nat /\ base \in Nat /\ i \in Nat /\ done \in Nat /\ calls \in Nat
      /\ style \in {"buf", "write"}
  BY BoundAssumption DEF TypeOK
<1> USE DEF InBuffer, usart, caller, cback
<1>1. CASE Send
  BY <1>0, <1>1 DEF Send
<1>2. CASE Timeout
  <2>1. pc = "poll" /\ UNCHANGED << style, len, base, done, calls >> /\ AfterGivingUp
    BY <1>2 DEF Timeout
  <2>2. CASE style = "buf"
    BY <1>0, <2>1, <2>2 DEF AfterGivingUp
  <2>3. CASE style = "write"
    <3>1. /\ i' = i + 1 /\ pc' = IF i + 1 < len THEN "write" ELSE "return"
          /\ base = 0
      BY <2>1, <2>3 DEF AfterGivingUp
    <3> QED BY <1>0, <2>1, <3>1
  <2> QED BY <1>0, <2>2, <2>3
<1>3. CASE ByteSent
  <2>1. /\ pc = "poll" /\ UNCHANGED << style, len, base, done, calls >> /\ i' = Inc(i)
        /\ pc' = IF i' < len - base THEN "write" ELSE "return"
    BY <1>3 DEF ByteSent
  <2>2. i' \in Nat
    BY <1>0, <2>1, CountAssumption DEF Inc
  <2> QED BY <1>0, <2>1, <2>2
<1>4. CASE Return
  BY <1>0, <1>4 DEF Return
<1>5. CASE SendData
  BY <1>0, <1>5 DEF SendData
<1>6. CASE Poll
  BY <1>6 DEF Poll
<1>7. CASE Shifted \/ Callback \/ UNCHANGED vars
  <2>1. UNCHANGED caller
    BY <1>7 DEF Shifted, Callback, CbSend, CbPoll, CbReturn, vars
  <2> QED BY <2>1
<1> QED BY <1>1, <1>2, <1>3, <1>4, <1>5, <1>6, <1>7 DEF Next, InCall

\* A step that writes none of the caller's bytes leaves no byte behind the caller that
\* was not, and takes back no place the caller had, unless the counter wraps.
LEMMA PlaceStep ==
  ASSUME TypeOK, InBuffer, [Next]_vars, ~SendData
  PROVE  /\ Handed \in Nat /\ Handed' \in Nat /\ Bound \in Nat /\ Bound' \in Nat
         /\ Handed' <= Handed /\ (len < IMod => Bound <= Bound')
         /\ UNCHANGED << len, style >>
<1>0. /\ len \in Nat /\ base \in Nat /\ i \in Nat /\ done \in Nat
      /\ style \in {"buf", "write"} /\ pc \in {"idle", "write", "poll", "return"}
  BY BoundAssumption DEF TypeOK
<1>1. i' \in Nat /\ base' \in Nat /\ done' \in Nat
  BY TypeStep DEF TypeOK
<1> USE DEF Handed, Bound, Top, caller
<1>2. Handed \in Nat /\ Handed' \in Nat /\ Bound \in Nat /\ Bound' \in Nat
  <2>1. Top \in Nat /\ Top' \in Nat
    <3>1. \A m, n \in Nat : m + n \in Nat
      OBVIOUS
    <3> QED BY <1>0, <1>1, <3>1
  <2>2. Top + 1 \in Nat /\ Top' + 1 \in Nat
    BY <2>1
  <2> HIDE DEF Top
  <2>3. Handed \in Nat /\ Handed' \in Nat
    BY <2>1, <2>2
  <2> HIDE DEF Handed
  <2> QED BY <2>2, <2>3
<1>3. CASE Send
  BY <1>0, <1>3 DEF Send
<1>4. CASE Timeout
  <2>1. /\ pc = "poll" /\ UNCHANGED << style, len, base, done >>
        /\ IF style = "buf" THEN pc' = "return" /\ i' = i
           ELSE i' = i + 1 /\ pc' \in {"write", "return"}
    BY <1>4 DEF Timeout, AfterGivingUp
  <2> QED BY <1>0, <1>2, <2>1
<1>5. CASE ByteSent
  <2>1. /\ pc = "poll" /\ UNCHANGED << style, len, base, done >> /\ i' = Inc(i)
        /\ pc' \in {"write", "return"}
    BY <1>5 DEF ByteSent
  <2>2. i' <= i + 1
    BY <1>0, <2>1, CountAssumption DEF Inc
  <2>3. base + i < len \/ (base = 0 /\ i = 0)
    BY <2>1 DEF InBuffer
  <2>4. CASE style = "write"
    <3>1. i' = i + 1
      BY <2>1, <2>4 DEF Inc
    <3> QED BY <1>0, <1>2, <2>1, <2>4, <3>1
  <2>5. CASE style = "buf"
    <3>1. len < IMod => i <= i'
      <4>1. CASE i + 1 < IMod
        BY <1>0, <2>1, <2>5, <4>1, CountAssumption DEF Inc
      <4>2. CASE i = 0
        BY <1>1, <4>2
      <4>3. len < IMod => i + 1 < IMod \/ i = 0
        BY <1>0, <2>3, CountAssumption
      <4> QED BY <4>1, <4>2, <4>3
    <3> QED BY <1>0, <1>1, <1>2, <2>1, <2>2, <2>5, <3>1
  <2> QED BY <1>0, <2>4, <2>5
<1>6. CASE Return
  BY <1>0, <1>2, <1>6 DEF Return
<1>7. CASE UNCHANGED << style, len, pc, i, base, done >>
  BY <1>0, <1>2, <1>7
<1>8. Shifted \/ Poll \/ Callback \/ UNCHANGED vars => UNCHANGED << style, len, pc, i, base, done >>
  BY DEF Shifted, Poll, Callback, CbSend, CbPoll, CbReturn, vars
<1> QED BY <1>3, <1>4, <1>5, <1>6, <1>7, <1>8 DEF Next, InCall

\* The caller hands over the byte behind the ones it has behind it.
LEMMA SendPlace ==
  ASSUME TypeOK, InBuffer, SendData
  PROVE  /\ Top \in Nat /\ USART_SendData(Top + 1) /\ Top + 1 # Echo
         /\ Handed = Top /\ Handed' = Top + 1
         /\ Bound \in {Top, Top + 1} /\ Bound' = Top + 1 /\ (style = "write" => Bound = Top)
         /\ UNCHANGED << len, style >>
<1>0. /\ len \in 0 .. MaxLen /\ MaxLen \in Nat /\ base \in Nat /\ i \in Nat
      /\ style \in {"buf", "write"}
  BY BoundAssumption DEF TypeOK
<1>1. /\ pc = "write" /\ pc' = "poll" /\ UNCHANGED << style, len, i, base, done >>
      /\ USART_SendData(base + i + 1)
  BY DEF SendData
<1>2. base + i < len \/ (base = 0 /\ i = 0)
  BY <1>1 DEF InBuffer
<1> QED BY <1>0, <1>1, <1>2 DEF Top, Handed, Bound, Echo

-----------------------------------------------------------------------------
(* The bytes on the line.                                                    *)

LEMMA LineType ==
  ASSUME TypeOK, Filled
  PROVE  Line \in Seq(Nat) /\ Len(Line) \in Nat /\ \A k \in 1 .. Len(Line) : Line[k] \in Nat
<1>1. wire \in Seq(Nat) /\ shift \in Nat /\ dr \in Nat /\ (dr # 0 => shift # 0)
  BY DEF TypeOK, Filled
<1>2. Line = IF shift = 0 THEN wire ELSE IF dr = 0 THEN Append(wire, shift)
             ELSE Append(Append(wire, shift), dr)
  BY <1>1, LineForm DEF Line
<1>3. \A v \in Seq(Nat), x \in Nat : Append(v, x) \in Seq(Nat)
  BY AppendProperties
<1>4. Line \in Seq(Nat)
  BY <1>1, <1>2, <1>3
<1> QED BY <1>4, LenProperties, ElementOfSeq

\* The caller's bytes after a write are the ones before it and the one written.
LEMMA PushedOurs ==
  ASSUME TypeOK, Filled, NEW b \in Nat, Pushed(b)
  PROVE  /\ \A k \in Ours' : \/ k \in Ours /\ Line'[k] = Line[k]
                             \/ Line'[k] = b /\ b # Echo
         /\ \A j, k \in Ours' : j < k => j \in Ours /\ Line'[j] = Line[j]
         /\ ~overwritten' => \A k \in Ours : k \in Ours' /\ Line'[k] = Line[k]
         /\ b # Echo => \E k \in Ours' : Line'[k] = b
<1>1. PICK n \in Nat :
        /\ n <= Len(Line) /\ Len(Line') = n + 1 /\ Line'[n + 1] = b
        /\ \A k \in 1 .. n : Line'[k] = Line[k]
        /\ ~overwritten' => n = Len(Line)
  BY DEF Pushed
<1>2. Len(Line) \in Nat
  BY LineType
<1>3. Ours = {k \in 1 .. Len(Line) : Line[k] # Echo}
  BY DEF Ours
<1>4. Ours' = {k \in 1 .. n + 1 : Line'[k] # Echo}
  BY <1>1 DEF Ours, Echo
<1>5. \A k \in 1 .. n : k \in Ours' => k \in Ours /\ Line'[k] = Line[k]
  BY <1>1, <1>2, <1>3, <1>4
<1>6. \A k \in Ours' : k \in 1 .. n \/ k = n + 1
  BY <1>4
<1>7. \A k \in Ours' : \/ k \in Ours /\ Line'[k] = Line[k]
                       \/ Line'[k] = b /\ b # Echo
  BY <1>1, <1>4, <1>5, <1>6
<1>8. \A j, k \in Ours' : j < k => j \in Ours /\ Line'[j] = Line[j]
  <2> SUFFICES ASSUME NEW j \in Ours', NEW k \in Ours', j < k
               PROVE  j \in Ours /\ Line'[j] = Line[j]
    OBVIOUS
  <2>1. j \in 1 .. n
    BY <1>4
  <2> QED BY <1>5, <2>1
<1>9. ASSUME ~overwritten', NEW k \in Ours PROVE k \in Ours' /\ Line'[k] = Line[k]
  <2>1. k \in 1 .. n /\ k \in 1 .. n + 1 /\ Line[k] # Echo
    BY <1>1, <1>3, <1>9
  <2> QED BY <1>1, <1>4, <2>1
<1>10. b # Echo => \E k \in Ours' : Line'[k] = b
  <2>1. n + 1 \in 1 .. n + 1
    OBVIOUS
  <2> QED BY <1>1, <1>4, <2>1
<1> QED BY <1>7, <1>8, <1>9, <1>10

\* Every step leaves the line, or pushes the caller's next byte or a callback's.
LEMMA LineStep ==
  ASSUME TypeOK, Filled, InBuffer, [Next]_vars
  PROVE  \/ Line' = Line /\ Ours' = Ours /\ overwritten' = overwritten /\ ~SendData
         \/ SendData /\ Pushed(Top + 1)
         \/ ~SendData /\ Pushed(Echo)
<1>1. CASE SendData
  <2>1. Top + 1 \in Nat /\ Top + 1 # 0 /\ USART_SendData(Top + 1)
    BY <1>1, SendPlace
  <2> QED BY <1>1, <2>1, Pushes
<1>2. CASE CbSend
  <2>1. Echo \in Nat /\ Echo # 0 /\ USART_SendData(Echo)
    BY <1>2, BoundAssumption DEF CbSend, Echo
  <2>2. ~SendData
    BY <1>2 DEF CbSend, SendData, cback
  <2> QED BY <2>1, <2>2, Pushes
<1>3. CASE ~SendData /\ ~CbSend
  <2>1. Line' = Line /\ overwritten' = overwritten
    BY <1>3, Stays DEF Next, InCall, Callback
  <2>2. Ours' = Ours
    BY <2>1 DEF Ours, Echo
  <2> QED BY <1>3, <2>1, <2>2
<1> QED BY <1>1, <1>2, <1>3

LEMMA OverwrittenStays == TypeOK /\ [Next]_vars /\ overwritten => overwritten'
BY DEF Next, InCall, Callback, Shifted, Send, SendData, Poll, Timeout, ByteSent, Return, CbSend,
       CbPoll, CbReturn, ReadStatus, USART_SendData, vars, usart, TypeOK

LEMMA OnLineStep == TypeOK /\ Filled /\ InBuffer /\ OnLine /\ [Next]_vars => OnLine'
<1> SUFFICES ASSUME TypeOK, Filled, InBuffer, OnLine, [Next]_vars,
                    ~overwritten', NEW b \in 1 .. Handed'
             PROVE  \E k \in Ours' : Line'[k] = b
  BY DEF OnLine
<1>0. Echo \in Nat
  BY BoundAssumption DEF Echo
<1>1. CASE Line' = Line /\ Ours' = Ours /\ overwritten' = overwritten /\ ~SendData
  <2>1. b \in 1 .. Handed
    BY <1>1, PlaceStep
  <2> QED BY <1>1, <2>1 DEF OnLine
<1>2. ASSUME NEW x \in Nat, Pushed(x), b \in 1 .. Handed PROVE \E k \in Ours' : Line'[k] = b
  <2>1. ~overwritten
    BY OverwrittenStays
  <2>2. PICK k \in Ours : Line[k] = b
    BY <1>2, <2>1 DEF OnLine
  <2> QED BY <1>2, <2>2, PushedOurs
<1>3. CASE SendData /\ Pushed(Top + 1)
  <2>1. /\ Top \in Nat /\ Top + 1 # Echo /\ Handed = Top /\ Handed' = Top + 1
    BY <1>3, SendPlace
  <2>2. b \in 1 .. Handed \/ b = Top + 1
    BY <2>1
  <2>3. b = Top + 1 => \E k \in Ours' : Line'[k] = b
    BY <1>3, <2>1, PushedOurs
  <2> QED BY <1>2, <1>3, <2>1, <2>2, <2>3
<1>4. CASE ~SendData /\ Pushed(Echo)
  <2>1. b \in 1 .. Handed
    BY <1>4, PlaceStep
  <2> QED BY <1>0, <1>2, <1>4, <2>1
<1> QED BY <1>1, <1>3, <1>4, LineStep

LEMMA NotAheadStep == TypeOK /\ Filled /\ InBuffer /\ NotAhead /\ [Next]_vars => NotAhead'
<1> SUFFICES ASSUME TypeOK, Filled, InBuffer, NotAhead, [Next]_vars,
                    len' < IMod, NEW k \in Ours'
             PROVE  Line'[k] <= Bound'
  BY DEF NotAhead
<1>0. Echo \in Nat /\ len' = len
  BY BoundAssumption, PlaceStep, SendPlace DEF Echo
<1>1. ASSUME NEW j \in Ours PROVE Line[j] \in Nat /\ Line[j] <= Bound
  <2>1. Line[j] <= Bound
    BY <1>0, <1>1 DEF NotAhead
  <2>2. j \in 1 .. Len(Line)
    BY DEF Ours
  <2> QED BY <2>1, <2>2, LineType
<1>2. CASE ~SendData
  <2>1. Bound \in Nat /\ Bound' \in Nat /\ Bound <= Bound'
    BY <1>0, <1>2, PlaceStep
  <2>2. k \in Ours /\ Line'[k] = Line[k]
    BY <1>0, <1>2, LineStep, PushedOurs
  <2> QED BY <1>1, <2>1, <2>2
<1>3. CASE SendData
  <2>1. Top \in Nat /\ Bound \in {Top, Top + 1} /\ Bound' = Top + 1 /\ Pushed(Top + 1)
    BY <1>3, SendPlace, LineStep
  <2>2. (k \in Ours /\ Line'[k] = Line[k]) \/ Line'[k] = Top + 1
    BY <2>1, PushedOurs
  <2> QED BY <1>1, <2>1, <2>2
<1> QED BY <1>2, <1>3

LEMMA InOrderStep ==
  TypeOK /\ Filled /\ InBuffer /\ NotAhead /\ LineInOrder /\ [Next]_vars => LineInOrder'
<1> SUFFICES ASSUME TypeOK, Filled, InBuffer, NotAhead, LineInOrder, [Next]_vars,
                    len' < IMod, NEW j \in Ours', NEW k \in Ours', j < k
             PROVE  IF style' = "buf" THEN Line'[j] <= Line'[k] ELSE Line'[j] < Line'[k]
  BY DEF LineInOrder
<1>0. Echo \in Nat /\ len' = len /\ style' = style /\ style \in {"buf", "write"}
  BY BoundAssumption, PlaceStep, SendPlace DEF Echo, TypeOK
<1>1. CASE k \in Ours /\ Line'[k] = Line[k] /\ j \in Ours /\ Line'[j] = Line[j]
  BY <1>0, <1>1 DEF LineInOrder
<1>2. CASE ~SendData
  BY <1>0, <1>1, <1>2, LineStep, PushedOurs
<1>3. CASE SendData
  <2>1. /\ Top \in Nat /\ Bound \in {Top, Top + 1} /\ (style = "write" => Bound = Top)
        /\ Pushed(Top + 1)
    BY <1>3, SendPlace, LineStep
  <2>2. /\ j \in Ours /\ Line'[j] = Line[j]
        /\ (k \in Ours /\ Line'[k] = Line[k]) \/ Line'[k] = Top + 1
    BY <2>1, PushedOurs
  <2>3. Line[j] \in Nat
    <3>1. j \in 1 .. Len(Line)
      BY <2>2 DEF Ours
    <3> QED BY <3>1, LineType
  <2>4. Line[j] <= Bound
    BY <1>0, <2>2 DEF NotAhead
  <2> QED BY <1>0, <1>1, <2>1, <2>2, <2>3, <2>4
<1> QED BY <1>2, <1>3

-----------------------------------------------------------------------------
(* The two invariants of the line.                                           *)

LEMMA LineInit == Init => Filled /\ InBuffer /\ OnLine /\ NotAhead /\ LineInOrder
<1> SUFFICES ASSUME Init PROVE Filled /\ InBuffer /\ OnLine /\ NotAhead /\ LineInOrder
  OBVIOUS
<1>1. /\ wire = << >> /\ shift = 0 /\ dr = 0 /\ pc = "idle" /\ done = 0 /\ base = 0 /\ i = 0
  BY DEF Init
<1>2. Line = << >>
  BY <1>1, ConcatEmptySeq DEF Line, Held
<1>3. Ours = {}
  BY <1>2, EmptySeq DEF Ours
<1>4. Handed = 0
  BY <1>1 DEF Handed, Top
<1> QED BY <1>1, <1>3, <1>4 DEF Filled, InBuffer, OnLine, NotAhead, LineInOrder

LEMMA LineInvariant == Spec => [](TypeOK /\ Filled /\ InBuffer /\ OnLine /\ NotAhead /\ LineInOrder)
BY TypeInit, LineInit, TypeStep, FilledStep, InBufferStep, OnLineStep, NotAheadStep, InOrderStep,
   PTL DEF Spec

\* Whatever callbacks send in between and however waits end, the caller's bytes keep
\* their order on the line, for every buffer the counter's width fits.
THEOREM InOrder == Spec => []LineInOrder
BY LineInvariant, PTL

\* The count HyUartSendBuf returns says which bytes are on the line, up to one: for
\* every poll limit and any number of callbacks.
THEOREM Counted == Spec => []CountMatchesLine
<1>1. TypeOK /\ Filled /\ InBuffer /\ OnLine /\ NotAhead => CountMatchesLine
  <2> SUFFICES ASSUME TypeOK, Filled, InBuffer, OnLine, NotAhead, style = "buf"
               PROVE  /\ ~overwritten => \A b \in 1 .. done : \E k \in Ours : Line[k] = b
                      /\ pc = "idle" /\ len < IMod => \A k \in Ours : Line[k] <= done + 1
    BY DEF CountMatchesLine
  <2>1. base \in Nat /\ i \in Nat /\ done \in Nat
    BY DEF TypeOK
  <2>2. pc # "idle" => base = done
    BY DEF InBuffer
  <2>3. Handed \in Nat /\ done <= Handed
    BY <2>1, <2>2 DEF Handed, Top
  <2>4. \A b \in 1 .. done : b \in 1 .. Handed
    BY <2>1, <2>3
  <2>5. pc = "idle" => Bound = done + 1
    BY DEF Bound, Top
  <2> QED BY <2>4, <2>5 DEF OnLine, NotAhead
<1> QED BY <1>1, LineInvariant, PTL

=============================================================================
