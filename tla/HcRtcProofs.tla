----------------------------- MODULE HcRtcProofs -----------------------------
(***************************************************************************)
(* Safety of the calendar window for any time-out and any registers:       *)
(* TypeOK, SetInWindow, StoppedByTimeout and ReadIsSnapshot.               *)
(***************************************************************************)
EXTENDS HcRtc, TLAPS

\* No interrupt has disturbed the call of a.
Undisturbed(a) == a = "main" => ~cut

\* Where the window is while the call of a is under way.
Window(a) ==
  /\ pc[a] \in {"rpoll", "spoll"} => start /\ wait
  /\ pc[a] \in {"r1", "r2"} /\ start /\ ~gaveUp[a] => wait /\ waitf
  /\ pc[a] \in {"w1", "w2"} /\ start => wait /\ waitf
  /\ pc[a] = "swait" => wait
  /\ pc[a] = "end" => ~wait

\* What a read has found so far is the calendar as it stands.
SoFar(a) ==
  /\ pc[a] \in {"rpoll", "r1", "r2"} => cal \in seen[a]
  /\ pc[a] = "r2" /\ start /\ ~gaveUp[a] /\ Undisturbed(a) => val[a].sec = cal.sec
  /\ torn[a] => pc[a] = "end" /\ (gaveUp[a] \/ ~Undisturbed(a))

\* An interrupt's call cuts into the main program's, and only reads.
Cut ==
  /\ pc["isr"] # "idle" => cut
  /\ pc["isr"] \in {"idle", "rpoll", "r1", "r2", "end"}
  /\ pc["main"] = "idle" /\ ~cut => (wait <=> last["main"] = "timeout")

Windows == \A a \in Actor : Undisturbed(a) => Window(a)
Reads   == \A a \in Actor : SoFar(a)

IInv == TypeOK /\ Cut /\ Windows /\ Reads

-----------------------------------------------------------------------------
(* Type correctness.                                                         *)

Labels == {"idle", "rpoll", "r1", "r2", "end", "spoll", "w1", "w2", "swait"}

\* What a returning call leaves behind it.
LEMMA ReturnTypes ==
  ASSUME TypeOK, NEW a \in Actor, NEW r \in {"ok", "timeout"}, Return(a, r)
  PROVE  /\ pc' \in [Actor -> Labels] /\ last' \in [Actor -> {"ok", "timeout"}]
         /\ left' \in [Actor -> Int] /\ val' \in [Actor -> Time]
         /\ seen' \in [Actor -> SUBSET Time] /\ torn' \in [Actor -> BOOLEAN]
<1>1. Zero \in Time
  BY BaseAssumption DEF Zero, Time
<1> QED BY <1>1 DEF TypeOK, Return, Go, Clear, Labels

\* Every step keeps every variable's type.
LEMMA TypeStep == TypeOK /\ [Next]_vars => TypeOK'
<1> SUFFICES ASSUME TypeOK, [Next]_vars PROVE TypeOK'
  OBVIOUS
<1> USE BaseAssumption, TimeOutAssumption, ReturnTypes
    DEF TypeOK, Actor, Time, Zero, Labels, At, Runs, Go, Begin, rtc, call, hist
<1>1. CASE Tick
  BY <1>1 DEF Tick
<1>2. CASE WindowFollows
  BY <1>2 DEF WindowFollows
<1>3. CASE ClockStops
  BY <1>3 DEF ClockStops
<1>4. ASSUME NEW a \in Actor, ReadBegin(a) PROVE TypeOK'
  BY <1>4 DEF ReadBegin
<1>5. ASSUME NEW a \in Actor, ReadPoll(a) PROVE TypeOK'
  <2>1. CASE left[a] = 1 /\ waitf /\ Return(a, "timeout")
    BY <1>5, <2>1 DEF ReadPoll
  <2>2. CASE ~(left[a] = 1 /\ waitf)
    <3>1. left' \in [Actor -> Int]
      BY <1>5, <2>2 DEF ReadPoll
    <3>2. pc' \in [Actor -> Labels]
      BY <1>5, <2>2 DEF ReadPoll
    <3>3. gaveUp' \in [Actor -> BOOLEAN]
      BY <1>5, <2>2 DEF ReadPoll
    <3> QED BY <1>5, <2>2, <3>1, <3>2, <3>3 DEF ReadPoll
  <2> QED BY <1>5, <2>1, <2>2 DEF ReadPoll
<1>6. ASSUME NEW a \in Actor, Read1(a) PROVE TypeOK'
  BY <1>6 DEF Read1
<1>7. ASSUME NEW a \in Actor, Read2(a) PROVE TypeOK'
  <2>1. CASE ~start /\ Return(a, "ok")
    BY <1>7, <2>1 DEF Read2
  <2>2. CASE start /\ Go(a, "end")
    <3>1. val' \in [Actor -> Time]
      BY <1>7, <2>2 DEF Read2
    <3>2. torn' \in [Actor -> BOOLEAN]
      BY <1>7, <2>2 DEF Read2
    <3>3. pc' \in [Actor -> Labels]
      BY <1>7, <2>2 DEF Read2
    <3> QED BY <1>7, <2>2, <3>1, <3>2, <3>3 DEF Read2
  <2> QED BY <1>7, <2>1, <2>2 DEF Read2
<1>8. ASSUME NEW a \in Actor, End(a) PROVE TypeOK'
  BY <1>8 DEF End
<1>9. CASE SetTime
  BY <1>9 DEF SetTime
<1>10. CASE SetPoll
  <2>1. CASE left["main"] = 1 /\ Return("main", "timeout")
    BY <1>10, <2>1 DEF SetPoll
  <2>2. CASE left["main"] # 1
    BY <1>10, <2>2 DEF SetPoll
  <2> QED BY <1>10, <2>1, <2>2 DEF SetPoll
<1>11. CASE Write1
  BY <1>11 DEF Write1
<1>12. CASE Write2
  <2>1. cal' \in Time
    BY <1>12 DEF Write2
  <2>2. CASE start
    BY <1>12, <2>1, <2>2 DEF Write2
  <2>3. CASE ~start
    BY <1>12, <2>1, <2>3 DEF Write2
  <2> QED BY <2>2, <2>3
<1>13. CASE Rtc_Cmd
  BY <1>13 DEF Rtc_Cmd
<1>14. CASE Rtc_Init
  <2>1. val' \in [Actor -> Time] /\ clk' \in BOOLEAN
    BY <1>14 DEF Rtc_Init
  <2>2. seen' \in [Actor -> SUBSET Time]
    BY <1>14 DEF Rtc_Init
  <2> QED BY <1>14, <2>1, <2>2 DEF Rtc_Init
<1>15. CASE StartWait
  BY <1>15 DEF StartWait
<1>16. CASE StartWaitSeen
  BY <1>16 DEF StartWaitSeen
<1>17. CASE UNCHANGED vars
  BY <1>17 DEF vars
<1> QED
  BY <1>1, <1>2, <1>3, <1>4, <1>5, <1>6, <1>7, <1>8, <1>9, <1>10, <1>11, <1>12, <1>13, <1>14,
     <1>15, <1>16, <1>17 DEF Next, Call, Reading, Setting

-----------------------------------------------------------------------------
(* The window.                                                               *)

\* Only an interrupt's read can leave WAIT otherwise than the main program's last
\* call returned.
LEMMA CutStep == TypeOK /\ Cut /\ Windows /\ [Next]_vars => Cut'
<1> SUFFICES ASSUME TypeOK, Cut, Windows, [Next]_vars PROVE Cut'
  OBVIOUS
<1> USE DEF TypeOK, Actor, At, Runs, Go, Begin, Return, Clear, rtc, call, hist,
            Cut, Windows, Window, Undisturbed
<1>1. CASE Tick
  BY <1>1 DEF Tick
<1>2. CASE WindowFollows
  BY <1>2 DEF WindowFollows
<1>3. CASE ClockStops
  BY <1>3 DEF ClockStops
<1>4. ASSUME NEW a \in Actor, ReadBegin(a) PROVE Cut'
  BY <1>4 DEF ReadBegin
<1>5. ASSUME NEW a \in Actor, ReadPoll(a) PROVE Cut'
  BY <1>5 DEF ReadPoll
<1>6. ASSUME NEW a \in Actor, Read1(a) PROVE Cut'
  BY <1>6 DEF Read1
<1>7. ASSUME NEW a \in Actor, Read2(a) PROVE Cut'
  BY <1>7 DEF Read2
<1>8. ASSUME NEW a \in Actor, End(a) PROVE Cut'
  BY <1>8 DEF End
<1>9. CASE SetTime
  BY <1>9 DEF SetTime
<1>10. CASE SetPoll
  BY <1>10 DEF SetPoll
<1>11. CASE Write1
  BY <1>11 DEF Write1
<1>12. CASE Write2
  BY <1>12 DEF Write2
<1>13. CASE Rtc_Cmd
  BY <1>13 DEF Rtc_Cmd
<1>14. CASE Rtc_Init
  BY <1>14 DEF Rtc_Init
<1>15. CASE StartWait
  BY <1>15 DEF StartWait
<1>16. CASE StartWaitSeen
  BY <1>16 DEF StartWaitSeen
<1>17. CASE UNCHANGED vars
  BY <1>17 DEF vars
<1> QED
  BY <1>1, <1>2, <1>3, <1>4, <1>5, <1>6, <1>7, <1>8, <1>9, <1>10, <1>11, <1>12, <1>13, <1>14,
     <1>15, <1>16, <1>17
  DEF Next, Call, Reading, Setting

\* The call that opened the window is the one that closes it.
LEMMA WindowsStep == TypeOK /\ Cut /\ Windows /\ [Next]_vars => Windows'
<1> SUFFICES ASSUME TypeOK, Cut, Windows, [Next]_vars PROVE Windows'
  OBVIOUS
<1> USE DEF TypeOK, Actor, At, Runs, Go, Begin, Return, Clear, rtc, call, hist,
            Cut, Windows, Window, Undisturbed
<1>1. CASE Tick
  BY <1>1 DEF Tick
<1>2. CASE WindowFollows
  BY <1>2 DEF WindowFollows
<1>3. CASE ClockStops
  BY <1>3 DEF ClockStops
<1>4. ASSUME NEW a \in Actor, ReadBegin(a) PROVE Windows'
  BY <1>4 DEF ReadBegin
<1>5. ASSUME NEW a \in Actor, ReadPoll(a) PROVE Windows'
  BY <1>5 DEF ReadPoll
<1>6. ASSUME NEW a \in Actor, Read1(a) PROVE Windows'
  BY <1>6 DEF Read1
<1>7. ASSUME NEW a \in Actor, Read2(a) PROVE Windows'
  BY <1>7 DEF Read2
<1>8. ASSUME NEW a \in Actor, End(a) PROVE Windows'
  BY <1>8 DEF End
<1>9. CASE SetTime
  BY <1>9 DEF SetTime
<1>10. CASE SetPoll
  BY <1>10 DEF SetPoll
<1>11. CASE Write1
  BY <1>11 DEF Write1
<1>12. CASE Write2
  BY <1>12 DEF Write2
<1>13. CASE Rtc_Cmd
  BY <1>13 DEF Rtc_Cmd
<1>14. CASE Rtc_Init
  BY <1>14 DEF Rtc_Init
<1>15. CASE StartWait
  BY <1>15 DEF StartWait
<1>16. CASE StartWaitSeen
  BY <1>16 DEF StartWaitSeen
<1>17. CASE UNCHANGED vars
  BY <1>17 DEF vars
<1> QED
  BY <1>1, <1>2, <1>3, <1>4, <1>5, <1>6, <1>7, <1>8, <1>9, <1>10, <1>11, <1>12, <1>13, <1>14,
     <1>15, <1>16, <1>17
  DEF Next, Call, Reading, Setting

\* The calendar holds still while the window is open.
LEMMA ReadsStep == TypeOK /\ Cut /\ Windows /\ Reads /\ [Next]_vars => Reads'
<1> SUFFICES ASSUME TypeOK, Cut, Windows, Reads, [Next]_vars PROVE Reads'
  OBVIOUS
<1> USE DEF TypeOK, Actor, At, Runs, Go, Begin, Return, Clear, rtc, call, hist,
            Cut, Windows, Window, Undisturbed, Reads, SoFar, Time
<1>1. CASE Tick
  BY <1>1 DEF Tick
<1>2. CASE WindowFollows
  BY <1>2 DEF WindowFollows
<1>3. CASE ClockStops
  BY <1>3 DEF ClockStops
<1>4. ASSUME NEW a \in Actor, ReadBegin(a) PROVE Reads'
  BY <1>4 DEF ReadBegin
<1>5. ASSUME NEW a \in Actor, ReadPoll(a) PROVE Reads'
  BY <1>5 DEF ReadPoll
<1>6. ASSUME NEW a \in Actor, Read1(a) PROVE Reads'
  BY <1>6 DEF Read1
<1>7. ASSUME NEW a \in Actor, Read2(a) PROVE Reads'
  BY <1>7 DEF Read2
<1>8. ASSUME NEW a \in Actor, End(a) PROVE Reads'
  BY <1>8 DEF End
<1>9. CASE SetTime
  BY <1>9 DEF SetTime
<1>10. CASE SetPoll
  BY <1>10 DEF SetPoll
<1>11. CASE Write1
  BY <1>11 DEF Write1
<1>12. CASE Write2
  BY <1>12 DEF Write2
<1>13. CASE Rtc_Cmd
  BY <1>13 DEF Rtc_Cmd
<1>14. CASE Rtc_Init
  BY <1>14 DEF Rtc_Init
<1>15. CASE StartWait
  BY <1>15 DEF StartWait
<1>16. CASE StartWaitSeen
  BY <1>16 DEF StartWaitSeen
<1>17. CASE UNCHANGED vars
  BY <1>17 DEF vars
<1> QED
  BY <1>1, <1>2, <1>3, <1>4, <1>5, <1>6, <1>7, <1>8, <1>9, <1>10, <1>11, <1>12, <1>13, <1>14,
     <1>15, <1>16, <1>17
  DEF Next, Call, Reading, Setting

-----------------------------------------------------------------------------
\* What the inductive invariant says holds of every state.
LEMMA Invariance == Spec => []IInv
<1>1. Init => IInv
  <2> SUFFICES ASSUME Init PROVE IInv
    OBVIOUS
  <2>1. Zero \in Time
    BY BaseAssumption DEF Zero, Time
  <2>2. TypeOK
    <3>1. cal \in Time /\ val \in [Actor -> Time] /\ seen \in [Actor -> SUBSET Time]
      BY <2>1 DEF Init
    <3>2. pc \in [Actor -> Labels] /\ left \in [Actor -> Int] /\ last \in [Actor -> {"ok", "timeout"}]
      BY DEF Init, Labels
    <3>3. gaveUp \in [Actor -> BOOLEAN] /\ torn \in [Actor -> BOOLEAN]
      BY DEF Init
    <3> QED BY <3>1, <3>2, <3>3 DEF Init, TypeOK, Labels
  <2>3. Cut /\ Windows /\ Reads
    BY DEF Init, Cut, Windows, Window, Reads, SoFar, Actor
  <2> QED BY <2>2, <2>3 DEF IInv
<1> QED
  BY <1>1, TypeStep, CutStep, WindowsStep, ReadsStep, PTL DEF Spec, IInv

\* Every variable of the driver keeps its type, whatever the time-out.
THEOREM TypeCorrect == Spec => []TypeOK
BY Invariance, PTL DEF IInv

\* Rtc_SetTime and Rtc_Init write a calendar that holds still, whatever the time-out
\* and however long WAITF takes.
THEOREM Written == Spec => []SetInWindow
<1>1. IInv => SetInWindow
  BY DEF IInv, TypeOK, Windows, Window, Undisturbed, Actor, SetInWindow
<1> QED BY <1>1, Invariance, PTL

\* Exactly the calls that return ErrorTimeout leave the calendar stopped.
THEOREM Stopped == Spec => []StoppedByTimeout
<1>1. IInv => StoppedByTimeout
  BY DEF IInv, Cut, Actor, StoppedByTimeout
<1> QED BY <1>1, Invariance, PTL

\* Rtc_ReadDateTime reads a time that the calendar showed, or its loop ran out, or
\* an interrupt's read closed the window.
THEOREM Snapshot == Spec => []ReadIsSnapshot
<1>1. IInv => ReadIsSnapshot
  BY DEF IInv, TypeOK, Reads, SoFar, Undisturbed, Actor, ReadIsSnapshot
<1> QED BY <1>1, Invariance, PTL

=============================================================================
