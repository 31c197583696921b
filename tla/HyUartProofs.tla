---------------------------- MODULE HyUartProofs ----------------------------
(***************************************************************************)
(* Safety of the receiving UART for any number of contexts, creations and  *)
(* bytes: TypeOK, IsrReadsLiveContext, EveryByteAccounted and              *)
(* OnlyAByteEndsSpin.                                                      *)
(***************************************************************************)
EXTENDS HyUart, TLAPS

\* Which blocks are half made, and what the table names meanwhile.
Registration ==
  /\ context # NULL => heap[context] # "free"
  /\ \A h \in Handle : heap[h] = "raw" <=> h = cur /\ pc \in {"publish", "memcpy"}
  /\ pc = "free" => context = NULL

\* The first HyUartCreate runs with the line still disabled.
QuietAtFirst ==
  /\ creates = 0 => ~nvic /\ pc = "idle" /\ \A h \in Handle : heap[h] = "free"
  /\ creates <= 1 /\ pc \in {"publish", "memcpy", "nvic"} => ~nvic

\* A handler that is about to read DR finds a byte in it, and the bytes read
\* before are older.
Fresh ==
  /\ isr = "read" => usart.rdne
  /\ usart.rdne => usart.dr \in 1 .. arrived /\ \A k \in 1 .. Len(received) : received[k] < usart.dr

IInv == TypeOK /\ Registration /\ QuietAtFirst /\ Fresh

-----------------------------------------------------------------------------
(* The inductive invariant.                                                  *)

\* A byte that finds DR empty leaves the registers what they are.
LEMMA NewByte ==
  ASSUME NEW n \in Nat, NEW v,
         NEW u \in [uen : BOOLEAN, rxie : BOOLEAN, rdne : BOOLEAN, ore : BOOLEAN, dr : Nat],
         v = [u EXCEPT !.rdne = TRUE, !.dr = n]
  PROVE  v \in [uen : BOOLEAN, rxie : BOOLEAN, rdne : BOOLEAN, ore : BOOLEAN, dr : Nat]
OBVIOUS

\* Every step keeps every variable's type, the table in step with the blocks and
\* the bytes in order.
LEMMA Inductive == IInv /\ [Next]_vars => IInv'
<1> SUFFICES ASSUME IInv, [Next]_vars PROVE IInv'
  OBVIOUS
<1>0. arrived \in Nat
      /\ usart \in [uen : BOOLEAN, rxie : BOOLEAN, rdne : BOOLEAN, ore : BOOLEAN, dr : Nat]
  BY BoundAssumption DEF IInv, TypeOK
<1> USE HandleAssumption, BoundAssumption DEF IInv, TypeOK, Registration, QuietAtFirst, Fresh
<1>1. ASSUME NEW h \in Handle, NEW cb \in BOOLEAN, CreateAlloc(h, cb) PROVE IInv'
  <2>1. heap' = [heap EXCEPT ![h] = "raw"] /\ read_cb' = [read_cb EXCEPT ![h] = cb]
        /\ heap[h] = "free" /\ cur' = h /\ pc' = "publish" /\ creates' = creates + 1
        /\ UNCHANGED << context, usart, nvic, isr, seen, arrived, received, lost >>
        /\ pc = "idle" /\ creates < MaxCreates
    BY <1>1 DEF CreateAlloc, bytes
  <2>2. TypeOK'
    BY <2>1
  <2>3. Registration'
    BY <2>1
  <2>4. QuietAtFirst'
    <3>1. creates' = 0 => FALSE
      BY <2>1
    <3>2. creates' <= 1 => creates = 0
      BY <2>1
    <3> QED BY <2>1, <3>1, <3>2
  <2>5. Fresh'
    BY <2>1
  <2> QED BY <2>2, <2>3, <2>4, <2>5
<1>2. ASSUME NEW h \in Handle, DestroyUnregister(h) PROVE IInv'
  <2>1. pc = "idle" /\ heap[h] = "live" /\ context' = NULL /\ cur' = h /\ pc' = "free"
        /\ UNCHANGED << heap, read_cb, usart, nvic, isr, seen, creates, arrived, received, lost >>
    BY <1>2 DEF DestroyUnregister, Held, bytes
  <2>2. creates # 0 /\ h # NULL
    BY <2>1
  <2>3. TypeOK' /\ Registration'
    BY <2>1, <2>2
  <2>4. QuietAtFirst'
    BY <2>1, <2>2
  <2>5. Fresh'
    BY <2>1
  <2> QED BY <2>3, <2>4, <2>5
<1>3. CASE CreatePublish
  BY <1>3 DEF CreatePublish, bytes
<1>4. CASE CreateMemcpy
  BY <1>4 DEF CreateMemcpy, bytes
<1>5. CASE CreateNvic
  BY <1>5 DEF CreateNvic, mem, bytes
<1>6. CASE CreateInt
  BY <1>6 DEF CreateInt, mem, bytes
<1>7. CASE CreateCmd
  BY <1>7 DEF CreateCmd, mem, bytes
<1>8. CASE DestroyFree
  BY <1>8 DEF DestroyFree, bytes
<1>9. CASE ByteArrives
  <2>1. arrived' = arrived + 1 /\ received' = received
    BY <1>9 DEF ByteArrives
  <2>2. received' \in Seq(1 .. arrived') /\ lost' \subseteq 1 .. arrived'
    BY <1>9, <2>1 DEF ByteArrives
  <2>3. usart' \in [uen : BOOLEAN, rxie : BOOLEAN, rdne : BOOLEAN, ore : BOOLEAN, dr : Nat]
    <3>1. CASE usart.rdne
      BY <1>9, <3>1 DEF ByteArrives
    <3>2. CASE ~usart.rdne
      <4>1. usart' = [usart EXCEPT !.rdne = TRUE, !.dr = arrived + 1]
        BY <1>9, <2>1, <3>2 DEF ByteArrives
      <4>2. arrived + 1 \in Nat
        BY <1>0
      <4> QED BY <1>0, <4>1, <4>2, NewByte
    <3> QED BY <3>1, <3>2
  <2>4. TypeOK' /\ Registration' /\ QuietAtFirst'
    BY <1>9, <2>1, <2>2, <2>3 DEF ByteArrives, mem, main
  <2>5. CASE usart.rdne
    <3>1. usart'.rdne = usart.rdne /\ usart'.dr = usart.dr /\ isr' = isr
      BY <1>9, <2>5 DEF ByteArrives
    <3> QED BY <2>1, <2>4, <2>5, <3>1
  <2>6. CASE ~usart.rdne
    <3>1. usart'.rdne /\ usart'.dr = arrived + 1 /\ isr' = isr
      BY <1>9, <2>1, <2>6 DEF ByteArrives
    <3>2. \A k \in 1 .. Len(received) : received[k] \in 1 .. arrived
      OBVIOUS
    <3>3. Fresh'
      BY <2>1, <3>1, <3>2
    <3> QED BY <2>4, <3>3
  <2> QED BY <2>5, <2>6
<1>10. CASE IsrEnter
  <2>1. seen' \in BOOLEAN
    BY <1>10 DEF IsrEnter
  <2>2. isr' \in {"read", "nothing"} /\ (isr' = "read" => usart.rdne)
    BY <1>10 DEF IsrEnter, USART_GetITStatus
  <2> QED BY <1>10, <2>1, <2>2 DEF IsrEnter, mem, main, bytes
<1>11. CASE IsrRead
  <2>1. usart.dr \in 1 .. arrived
    BY <1>11 DEF IsrRead
  <2>2. received' = Append(received, usart.dr) /\ received' \in Seq(1 .. arrived)
    BY <1>11, <2>1 DEF IsrRead
  <2>3. usart' \in [uen : BOOLEAN, rxie : BOOLEAN, rdne : BOOLEAN, ore : BOOLEAN, dr : Nat]
        /\ ~usart'.rdne
    BY <1>11 DEF IsrRead
  <2> QED BY <1>11, <2>2, <2>3 DEF IsrRead, mem, main
<1>12. CASE IsrReturn
  BY <1>12 DEF IsrReturn, mem, main, bytes
<1>13. CASE UNCHANGED vars
  BY <1>13 DEF vars, mem, main, bytes
<1> QED
  BY <1>1, <1>2, <1>3, <1>4, <1>5, <1>6, <1>7, <1>8, <1>9, <1>10, <1>11, <1>12, <1>13
  DEF Next, Call, InCall, Handler

\* What the inductive invariant says holds of every state.
LEMMA Invariance == Spec => []IInv
<1>1. Init => IInv
  <2> SUFFICES ASSUME Init PROVE IInv
    OBVIOUS
  <2>1. received \in Seq(1 .. arrived) /\ lost \subseteq 1 .. arrived
    BY DEF Init
  <2>2. usart \in [uen : BOOLEAN, rxie : BOOLEAN, rdne : BOOLEAN, ore : BOOLEAN, dr : Nat]
    BY DEF Init
  <2>3. 0 \in 0 .. MaxCreates /\ 0 \in 0 .. MaxBytes
    BY BoundAssumption
  <2>4. TypeOK
    BY <2>1, <2>2, <2>3 DEF Init, TypeOK
  <2>5. Registration /\ QuietAtFirst /\ Fresh
    BY DEF Init, Registration, QuietAtFirst, Fresh
  <2> QED BY <2>4, <2>5 DEF IInv
<1> QED BY <1>1, Inductive, PTL DEF Spec

\* Every variable of the receiving UART keeps its type, however many contexts are
\* created and however many bytes arrive.
THEOREM TypeCorrect == Spec => []TypeOK
BY Invariance, PTL DEF IInv

\* In whatever order contexts are created and destroyed, the interrupt of the UART
\* finds a live one, none, or one that a later HyUartCreate has yet to fill.
THEOREM IsrSafe == Spec => []IsrReadsLiveContext
<1>1. IInv => IsrReadsLiveContext
  BY HandleAssumption, BoundAssumption
  DEF IInv, TypeOK, Registration, QuietAtFirst, IsrReadsLiveContext, IrqPending
<1> QED BY <1>1, Invariance, PTL

-----------------------------------------------------------------------------
(* The bytes.                                                                *)

\* A handler that reads DR takes the newest byte, and only the next one sets RDNE.
LEMMA AccountedStep == IInv /\ EveryByteAccounted /\ [Next]_vars => EveryByteAccounted'
<1> SUFFICES ASSUME IInv, EveryByteAccounted, [Next]_vars PROVE EveryByteAccounted'
  OBVIOUS
<1>1. arrived \in Nat /\ received \in Seq(Nat)
  BY BoundAssumption DEF IInv, TypeOK
<1>2. CASE UNCHANGED << usart, bytes >>
  BY <1>2 DEF EveryByteAccounted, bytes
<1>3. CASE ByteArrives
  <2>1. arrived' = arrived + 1 /\ received' = received
    BY <1>3 DEF ByteArrives
  <2>2. CASE usart.rdne
    <3>1. usart'.rdne /\ usart'.dr = usart.dr /\ lost' = lost \cup {arrived + 1}
      BY <1>3, <2>1, <2>2 DEF ByteArrives, IInv, TypeOK
    <3> QED BY <1>1, <2>1, <2>2, <3>1 DEF EveryByteAccounted
  <2>3. CASE ~usart.rdne
    <3>1. usart'.rdne /\ usart'.dr = arrived + 1 /\ lost' = lost
      BY <1>3, <2>1, <2>3 DEF ByteArrives, IInv, TypeOK
    <3> QED BY <1>1, <2>1, <2>3, <3>1 DEF EveryByteAccounted
  <2> QED BY <2>2, <2>3
<1>4. CASE IsrRead
  <2>1. received' = Append(received, usart.dr) /\ arrived' = arrived /\ lost' = lost
    BY <1>4 DEF IsrRead
  <2>2. usart.dr \in Nat /\ \A k \in 1 .. Len(received) : received[k] < usart.dr
    BY <1>4 DEF IsrRead, IInv, TypeOK, Fresh
  <2>3. /\ Len(received') = Len(received) + 1 /\ received'[Len(received) + 1] = usart.dr
        /\ \A k \in 1 .. Len(received) : received'[k] = received[k]
        /\ Len(received) \in Nat
    BY <1>1, <2>1, <2>2
  <2>4. \A k \in 2 .. Len(received') : received'[k - 1] < received'[k]
    <3> TAKE k \in 2 .. Len(received')
    <3>1. CASE k = Len(received')
      BY <2>2, <2>3, <3>1
    <3>2. CASE k # Len(received')
      BY <2>3, <3>2 DEF EveryByteAccounted
    <3> QED BY <3>1, <3>2
  <2>5. \A b \in 1 .. arrived :
          (\E k \in 1 .. Len(received') : received'[k] = b) \/ b \in lost
    <3> TAKE b \in 1 .. arrived
    <3>1. CASE \E k \in 1 .. Len(received) : received[k] = b
      BY <2>3, <3>1
    <3>2. CASE usart.rdne /\ usart.dr = b
      BY <2>3, <3>2
    <3> QED BY <3>1, <3>2 DEF EveryByteAccounted
  <2> QED BY <2>1, <2>4, <2>5 DEF EveryByteAccounted
<1>5. CASE CreateInt \/ CreateCmd
  BY <1>5 DEF CreateInt, CreateCmd, EveryByteAccounted, IInv, TypeOK, bytes
<1>6. Call \/ CreatePublish \/ CreateMemcpy \/ CreateNvic \/ DestroyFree \/ IsrEnter \/ IsrReturn
      \/ UNCHANGED vars => UNCHANGED << usart, bytes >>
  BY DEF Call, CreateAlloc, DestroyUnregister, CreatePublish, CreateMemcpy, CreateNvic,
         DestroyFree, IsrEnter, IsrReturn, vars, bytes, mem, main
<1> QED BY <1>2, <1>3, <1>4, <1>5, <1>6 DEF Next, InCall, Handler

\* Every byte is passed to a callback once and in order, or overrun, or in DR, for
\* any number of bytes and any contexts created and destroyed meanwhile.
THEOREM Accounted == Spec => []EveryByteAccounted
<1>1. Init => EveryByteAccounted
  BY DEF Init, EveryByteAccounted
<1> QED BY <1>1, Invariance, AccountedStep, PTL DEF Spec

\* No call of the API and no run of the handler ends the overrun spin.
THEOREM SpinEnds == Spec => OnlyAByteEndsSpin
<1>1. IInv /\ [Next]_vars /\ Spin /\ ~Spin' => arrived' = arrived + 1
  <2> SUFFICES ASSUME IInv, [Next]_vars, Spin, ~ByteArrives PROVE Spin'
    BY DEF ByteArrives
  <2>1. nvic' /\ usart'.rxie /\ usart'.ore /\ ~usart'.rdne
    BY DEF IInv, TypeOK, Fresh, Spin, Next, Call, InCall, Handler, CreateAlloc, DestroyUnregister,
           CreatePublish, CreateMemcpy, CreateNvic, CreateInt, CreateCmd, DestroyFree,
           IsrEnter, IsrRead, IsrReturn, vars, mem, main, bytes
  <2> QED BY <2>1 DEF Spin
<1>2. IInv /\ [Next]_vars => [Spin /\ ~Spin' => arrived' = arrived + 1]_vars
  BY <1>1
<1> QED BY <1>2, Invariance, PTL DEF Spec, OnlyAByteEndsSpin

=============================================================================
