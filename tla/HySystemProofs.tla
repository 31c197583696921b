--------------------------- MODULE HySystemProofs ---------------------------
(***************************************************************************)
(* The delays of hy_system.c, for every width of LOAD, every step of       *)
(* HySystemDelayMs and every delay asked for, with handlers and their own  *)
(* delays falling in between any two statements.                           *)
(***************************************************************************)
EXTENDS HySystem, TLAPS

\* The numbers and flags of the counter and of the delay in progress.
Counters ==
  /\ load \in Nat /\ val \in Nat
  /\ kind \in {"us", "ms"} /\ todo \in Nat /\ asked \in Nat /\ elapsed \in Nat
  /\ enable \in BOOLEAN /\ countflag \in BOOLEAN
  /\ pend \in BOOLEAN /\ cut \in BOOLEAN /\ delayed \in BOOLEAN

\* The delay in progress has the counter to itself and fits LOAD.
Alone == InDelay /\ ~cut /\ (kind = "us" => asked < LoadMod)

\* What is waited and what is still to wait add up: before a step, by todo; in it,
\* by the cycles the counter has left, or the flag it has raised.
Waited ==
  Alone =>
    /\ isr # "poll"
    /\ todo <= asked /\ elapsed + todo >= asked
    /\ pc \in {"go", "enable", "poll"} => load = Chunk
    /\ pc = "poll" => enable
    /\ pc = "poll" /\ countflag => elapsed + todo >= asked + Chunk
    /\ pc \in {"enable", "poll"} /\ val > 0 => elapsed + val + todo >= asked + Chunk

-----------------------------------------------------------------------------
\* A step of a delay is no longer than what is still to wait, and fits LOAD.
LEMMA ChunkFits ==
  ASSUME Counters
  PROVE  /\ Chunk \in Nat /\ Chunk <= todo
         /\ Alone /\ todo <= asked => Chunk % LoadMod = Chunk
<1>1. StepDelay \in Nat /\ StepDelay < LoadMod /\ LoadMod \in Nat \ {0}
  BY LoadAssumption
<1>2. Chunk \in Nat /\ Chunk <= todo
  BY <1>1 DEF Chunk, Counters
<1>3. ASSUME Alone, todo <= asked PROVE Chunk % LoadMod = Chunk
  <2>1. Chunk < LoadMod
    <3>1. CASE kind = "us"
      BY <1>1, <1>3, <3>1 DEF Chunk, Alone, Counters
    <3>2. CASE kind = "ms"
      BY <1>1, <3>2 DEF Chunk, Counters
    <3> QED BY <3>1, <3>2 DEF Counters
  <2> QED BY <1>1, <1>2, <2>1
<1> QED BY <1>2, <1>3

\* Every step keeps the numbers numbers and the flags flags.
LEMMA CountersStep == Counters /\ [Next]_vars => Counters'
<1> SUFFICES ASSUME Counters, [Next]_vars PROVE Counters'
  OBVIOUS
<1> USE DEF Counters, SetVal
<1>1. CASE Count
  <2>1. val' \in Nat /\ elapsed' \in Nat
    BY <1>1 DEF Count
  <2>2. countflag' \in BOOLEAN /\ pend' \in BOOLEAN
    BY <1>1 DEF Count
  <2>3. UNCHANGED << load, kind, todo, asked, enable, cut, delayed >>
    BY <1>1 DEF Count, cback
  <2> QED BY <2>1, <2>2, <2>3
<1>2. ASSUME NEW k \in {"us", "ms"}, NEW cycles \in 0 .. MaxDelay, DelayCall(k, cycles)
      PROVE  Counters'
  <2>1. cycles \in Nat
    BY BoundAssumption
  <2>2. pend' = pend /\ delayed' = delayed /\ cut' = FALSE
        /\ UNCHANGED << load, val, enable, countflag >>
    BY <1>2 DEF DelayCall, systick
  <2>3. kind' = k /\ todo' = cycles /\ asked' = cycles /\ elapsed' = 0
    BY <1>2 DEF DelayCall
  <2> QED BY <2>1, <2>2, <2>3
<1>3. CASE (\E h \in Handle : CreateAlloc(h) \/ Destroy(h)) \/ CreateFails
  BY <1>3 DEF CreateAlloc, Destroy, CreateFails, systick, call, cback
<1>4. CASE CreateMemcpy
  BY <1>4 DEF CreateMemcpy, systick, call, cback
<1>5. CASE ConfigLoad \/ ConfigVal \/ ConfigCtrl
  <2>1. load' \in Nat /\ val' \in Nat
    BY <1>5, LoadAssumption DEF ConfigLoad, ConfigVal, ConfigCtrl
  <2>2. enable' \in BOOLEAN /\ countflag' \in BOOLEAN /\ delayed' \in BOOLEAN
    BY <1>5 DEF ConfigLoad, ConfigVal, ConfigCtrl
  <2>3. UNCHANGED << pend, call >>
    BY <1>5 DEF ConfigLoad, ConfigVal, ConfigCtrl
  <2> QED BY <2>1, <2>2, <2>3 DEF call
<1>6. CASE DelayLoad
  <2>1. load' \in Nat
    BY <1>6, ChunkFits, LoadAssumption DEF DelayLoad
  <2> QED BY <1>6, <2>1 DEF DelayLoad, call
<1>7. CASE DelayGo \/ DelayEnable
  <2>1. CASE DelayGo
    BY <2>1 DEF DelayGo, call
  <2>2. CASE DelayEnable
    BY <2>2 DEF DelayEnable, call
  <2> QED BY <1>7, <2>1, <2>2
<1>8. CASE DelayEnd
  <2>1. todo' \in Nat
    BY <1>8, ChunkFits DEF DelayEnd
  <2> QED BY <1>8, <2>1 DEF DelayEnd, StopCounter
<1>9. CASE OtherEnter \/ TickEnter \/ CbReturn \/ IsrReturn
  BY <1>9 DEF OtherEnter, TickEnter, CbReturn, IsrReturn, systick, call
<1>10. CASE CbDelay
  <2>1. load' \in Nat
    BY <1>10, LoadAssumption DEF CbDelay
  <2>2. cut' \in BOOLEAN
    BY <1>10 DEF CbDelay, InDelay
  <2>3. /\ val' = 0 /\ countflag' = FALSE /\ enable' = TRUE
        /\ UNCHANGED << pend, kind, todo, asked, elapsed, delayed >>
    BY <1>10 DEF CbDelay
  <2> QED BY <2>1, <2>2, <2>3
<1>11. CASE CbDelayEnd
  BY <1>11 DEF CbDelayEnd, StopCounter, call
<1>12. CASE UNCHANGED vars
  BY <1>12 DEF vars, systick, call
<1> QED
  BY <1>1, <1>2, <1>3, <1>4, <1>5, <1>6, <1>7, <1>8, <1>9, <1>10, <1>11, <1>12
     DEF Next, Call, InCall, Handler

\* The statements before the main program's delay begins with the counter, the
\* counter itself and the handlers keep the sum, or take the delay's counter away.
LEMMA WaitedStep ==
  Counters /\ Waited /\ DelayLongEnough /\ [Next]_vars => Waited' /\ DelayLongEnough'
<1> SUFFICES ASSUME Counters, Waited, DelayLongEnough, [Next]_vars
             PROVE  Waited' /\ DelayLongEnough'
  OBVIOUS
<1>1. Chunk \in Nat /\ Chunk <= todo
  BY ChunkFits
<1>2. CASE Count
  <2>1. /\ UNCHANGED << pc, isr, load, todo, asked, kind, cut, enable >>
        /\ val' = IF val = 0 THEN load ELSE val - 1
        /\ countflag' = (countflag \/ val = 1) /\ (load > 0 \/ val > 0)
        /\ elapsed' = IF InDelay /\ elapsed < asked THEN elapsed + 1 ELSE elapsed
    BY <1>2 DEF Count, Wraps, main, cback
  <2>2. Chunk' = Chunk /\ InDelay' = InDelay /\ Alone' = Alone
    BY <2>1 DEF Chunk, InDelay, Alone
  <2>3. elapsed' >= elapsed /\ (elapsed < asked /\ InDelay => elapsed' = elapsed + 1)
        /\ (~InDelay \/ elapsed >= asked => elapsed' = elapsed)
    BY <2>1 DEF Counters
  <2>4. DelayLongEnough'
    BY <2>1, <2>2, <2>3 DEF DelayLongEnough, Counters
  <2>5. ASSUME Alone PROVE elapsed' + todo >= asked
    BY <2>3, <2>5 DEF Waited, Counters
  <2>6. ASSUME Alone, pc = "poll", countflag' PROVE elapsed' + todo >= asked + Chunk
    <3>1. CASE elapsed >= asked
      BY <1>1, <2>3, <3>1 DEF Counters
    <3>2. CASE elapsed < asked
      <4>1. elapsed' = elapsed + 1
        BY <2>3, <2>6, <3>2 DEF Alone
      <4>2. CASE countflag
        BY <1>1, <2>6, <4>1, <4>2 DEF Waited, Counters
      <4>3. CASE ~countflag
        BY <1>1, <2>1, <2>6, <4>1, <4>3 DEF Waited, Counters
      <4> QED BY <4>2, <4>3
    <3> QED BY <3>1, <3>2 DEF Counters
  <2>7. ASSUME Alone, pc \in {"enable", "poll"}, val' > 0
        PROVE  elapsed' + val' + todo >= asked + Chunk
    <3>1. load = Chunk
      BY <2>1, <2>7 DEF Waited
    <3>2. CASE val = 0
      BY <1>1, <2>1, <2>5, <2>7, <3>1, <3>2 DEF Counters
    <3>3. CASE val # 0 /\ elapsed >= asked
      BY <1>1, <2>1, <2>3, <2>7, <3>3 DEF Counters
    <3>4. CASE val # 0 /\ elapsed < asked
      <4>1. elapsed + val + todo >= asked + Chunk
        BY <2>7, <3>1, <3>4 DEF Waited, Counters
      <4>2. elapsed' = elapsed + 1 /\ val' = val - 1
        BY <2>1, <2>3, <2>7, <3>4 DEF Alone
      <4> QED BY <1>1, <4>1, <4>2 DEF Counters
    <3> QED BY <3>2, <3>3, <3>4 DEF Counters
  <2>8. Alone => isr' # "poll" /\ todo' <= asked' /\ (pc' \in {"go", "enable", "poll"} => load' = Chunk')
                 /\ (pc' = "poll" => enable')
    BY <2>1, <2>2 DEF Waited
  <2>9. Waited'
    BY <2>1, <2>2, <2>5, <2>6, <2>7, <2>8 DEF Waited
  <2> QED BY <2>4, <2>9
<1>3. ASSUME NEW k \in {"us", "ms"}, NEW cycles \in 0 .. MaxDelay, DelayCall(k, cycles)
      PROVE  Waited' /\ DelayLongEnough'
  BY <1>3, BoundAssumption DEF DelayCall, Main, cback, Waited, DelayLongEnough, InDelay
<1>4. CASE (\E h \in Handle : CreateAlloc(h) \/ Destroy(h)) \/ CreateFails \/ CreateMemcpy
           \/ ConfigLoad \/ ConfigVal \/ ConfigCtrl
  <2>1. ~InDelay /\ ~InDelay' /\ UNCHANGED call
    BY <1>4 DEF CreateAlloc, Destroy, CreateFails, CreateMemcpy, ConfigLoad, ConfigVal,
                ConfigCtrl, main, InDelay
  <2> QED BY <2>1 DEF Waited, Alone, DelayLongEnough, call
<1>5. CASE DelayLoad
  <2>1. pc = "load" /\ pc' = "go" /\ load' = Chunk % LoadMod /\ UNCHANGED << isr, call >>
    BY <1>5 DEF DelayLoad, cback
  <2>2. Chunk' = Chunk /\ Alone' = Alone /\ InDelay'
    BY <2>1 DEF Chunk, Alone, InDelay, call
  <2>3. Alone => Chunk % LoadMod = Chunk
    BY ChunkFits DEF Waited
  <2> QED BY <2>1, <2>2, <2>3 DEF Waited, DelayLongEnough, call
<1>6. CASE DelayGo \/ DelayEnable
  <2>1. /\ UNCHANGED << load, isr, call >> /\ ~countflag'
        /\ \/ pc = "go" /\ pc' = "enable" /\ val' = 0
           \/ pc = "enable" /\ pc' = "poll" /\ val' = val /\ enable'
    BY <1>6 DEF DelayGo, DelayEnable, SetVal, cback
  <2>2. Chunk' = Chunk /\ Alone' = Alone /\ InDelay'
    BY <2>1 DEF Chunk, Alone, InDelay, call
  <2> QED BY <2>1, <2>2 DEF Waited, DelayLongEnough, call
<1>7. CASE DelayEnd
  <2>1. /\ pc = "poll" /\ isr = "off" /\ (countflag \/ ~enable) /\ todo' = todo - Chunk
        /\ pc' = IF todo = Chunk THEN "idle" ELSE "load"
        /\ UNCHANGED << kind, asked, elapsed, cut, isr >>
    BY <1>7 DEF DelayEnd, Main, WaitOver, cback
  <2>2. Alone => todo <= asked /\ elapsed + todo' >= asked
    BY <1>1, <2>1 DEF Waited, Counters
  <2>3. DelayLongEnough'
    <3>1. CASE todo # Chunk
      BY <2>1, <3>1 DEF DelayLongEnough, InDelay
    <3>2. CASE todo = Chunk /\ Alone
      <4>1. todo' = 0
        BY <2>1, <3>2 DEF Counters
      <4>2. elapsed >= asked
        BY <2>2, <3>2, <4>1 DEF Counters
      <4> QED BY <2>1, <4>2 DEF DelayLongEnough
    <3>3. CASE ~Alone
      BY <2>1, <3>3, LoadAssumption DEF Alone, InDelay, DelayLongEnough, Counters
    <3> QED BY <3>1, <3>2, <3>3
  <2>4. Waited'
    <3>1. Alone' => Alone
      BY <2>1 DEF Alone, InDelay
    <3> QED BY <1>1, <2>1, <2>2, <3>1 DEF Waited, Counters
  <2> QED BY <2>3, <2>4
<1>8. CASE OtherEnter \/ TickEnter \/ CbReturn \/ IsrReturn
  <2>1. isr' # "poll" /\ UNCHANGED << systick, call, main >>
    BY <1>8 DEF OtherEnter, TickEnter, CbReturn, IsrReturn
  <2> QED BY <2>1 DEF Waited, Alone, InDelay, Chunk, DelayLongEnough, systick, call, main
<1>9. CASE CbDelay
  BY <1>9 DEF CbDelay, main, Waited, Alone, InDelay, DelayLongEnough, Counters
<1>10. CASE CbDelayEnd
  <2>1. isr = "poll" /\ UNCHANGED << call, main >>
    BY <1>10 DEF CbDelayEnd
  <2> QED BY <2>1 DEF Waited, Alone, InDelay, DelayLongEnough, call, main
<1>11. CASE UNCHANGED vars
  BY <1>11 DEF vars, systick, call, main, cback, Waited, Alone, InDelay, Chunk, DelayLongEnough
<1> QED
  BY <1>2, <1>3, <1>4, <1>5, <1>6, <1>7, <1>8, <1>9, <1>10, <1>11
     DEF Next, Call, InCall, Handler

\* HySystemDelayUs and HySystemDelayMs wait for at least as long as asked, whatever
\* the tick, the handlers and HySystemCreate did to the counter before, unless a
\* callback delays in between or HySystemDelayUs is asked for more than LOAD holds.
THEOREM LongEnough == Spec => []DelayLongEnough
<1>1. Init => Counters /\ Waited /\ DelayLongEnough
  <2> SUFFICES ASSUME Init PROVE Counters /\ Waited /\ DelayLongEnough
    OBVIOUS
  <2>1. Counters
    BY DEF Init, Counters
  <2>2. pc = "idle" /\ elapsed = 0 /\ asked = 0
    BY DEF Init
  <2> QED BY <2>1, <2>2 DEF Waited, Alone, InDelay, DelayLongEnough
<1> QED BY <1>1, CountersStep, WaitedStep, PTL DEF Spec

-----------------------------------------------------------------------------
\* _delay_com leaves the counter off: after a delay no tick comes any more, until
\* HySystemCreate configures one again.
THEOREM TickStops == Spec => []NoTickAfterDelay
<1>1. Init => NoTickAfterDelay
  BY DEF Init, NoTickAfterDelay
<1>2. NoTickAfterDelay /\ [Next]_vars => NoTickAfterDelay'
  <2> SUFFICES ASSUME NoTickAfterDelay, [Next]_vars PROVE NoTickAfterDelay'
    OBVIOUS
  <2> USE DEF NoTickAfterDelay, InDelay
  <2>1. CASE Count
    BY <2>1 DEF Count, main, cback
  <2>2. ASSUME NEW k \in {"us", "ms"}, NEW cycles \in 0 .. MaxDelay, DelayCall(k, cycles)
        PROVE  NoTickAfterDelay'
    BY <2>2 DEF DelayCall
  <2>3. CASE (\E h \in Handle : CreateAlloc(h) \/ Destroy(h)) \/ CreateFails
    BY <2>3 DEF CreateAlloc, Destroy, CreateFails, systick, cback, main
  <2>4. CASE CreateMemcpy \/ ConfigLoad \/ ConfigVal \/ ConfigCtrl
    BY <2>4 DEF CreateMemcpy, ConfigLoad, ConfigVal, ConfigCtrl, systick, cback
  <2>5. CASE DelayLoad \/ DelayGo \/ DelayEnable
    BY <2>5 DEF DelayLoad, DelayGo, DelayEnable
  <2>6. CASE DelayEnd \/ CbDelayEnd
    BY <2>6 DEF DelayEnd, CbDelayEnd, StopCounter, main
  <2>7. CASE OtherEnter \/ TickEnter \/ CbReturn \/ CbDelay \/ IsrReturn
    BY <2>7 DEF OtherEnter, TickEnter, CbReturn, CbDelay, IsrReturn, systick, main
  <2>8. CASE UNCHANGED vars
    BY <2>8 DEF vars, systick, main, cback
  <2> QED
    BY <2>1, <2>2, <2>3, <2>4, <2>5, <2>6, <2>7, <2>8 DEF Next, Call, InCall, Handler
<1> QED BY <1>1, <1>2, PTL DEF Spec

=============================================================================
