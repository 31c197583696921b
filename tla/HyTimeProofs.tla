---------------------------- MODULE HyTimeProofs ----------------------------
(***************************************************************************)
(* Safety of the timer service for any number of contexts and timers:      *)
(* TypeOK, IsrReadsLiveContext, SilentIfCreatedStopped and StormNeverEnds. *)
(***************************************************************************)
EXTENDS HyTime, TLAPS

\* TMR2 belongs to no one: nothing is registered for it, or its context was
\* registered but TMR_TimeBaseInit has not run.
Unowned ==
  \/ context_array[HY_TIME_2] = NULL
  \/ context_array[HY_TIME_2] = cur /\ pc \in {"memcpy", "base"}

\* While TMR2 is unowned it neither counts nor interrupts.
QuietWhileUnowned == Unowned => ~tmr2.cen /\ ~IrqPending

\* Every handle the caller holds is registered; where the registration of the
\* block in hand stands.
Registration ==
  /\ \A h \in Held : context_array[ctx[h].num] = h
  /\ pc \in {"publish", "free"} => context_array[ctx[cur].num] = NULL
  /\ pc \in {"memcpy", "base", "cmd", "nvic", "int"} =>
       context_array[ctx[cur].num] = cur

\* The NVIC line of a fully created timer is as its creator asked.
LineAsCreated ==
  context_array[HY_TIME_2] # NULL =>
    \/ context_array[HY_TIME_2] = cur /\ pc \in {"memcpy", "base", "cmd", "nvic"}
    \/ nvic = started[context_array[HY_TIME_2]]

\* A callback runs for an owned timer whose line was open when it was entered.
CallbackOwned ==
  isr = "cb" =>
    /\ ~Unowned
    /\ started[context_array[HY_TIME_2]] \/ cur = context_array[HY_TIME_2]

Kept == ~misused => QuietWhileUnowned /\ Registration /\ LineAsCreated /\ CallbackOwned

IInv == TypeOK /\ Kept

-----------------------------------------------------------------------------
(* Type correctness.                                                         *)

\* Every step keeps every variable's type and the registered contexts allocated.
LEMMA TypeStep == TypeOK /\ [Next]_vars => TypeOK'
<1> SUFFICES ASSUME TypeOK, [Next]_vars PROVE TypeOK'
  OBVIOUS
<1> USE NumAssumption, HandleAssumption DEF TypeOK, PC
<1>1. CASE \E h \in Handle, n \in Num, flag, cb \in BOOLEAN : CreateAlloc(h, n, flag, cb)
  BY <1>1 DEF CreateAlloc, vars, hw, mem, Main
<1>2. CASE \E h \in Handle : HyTimeEnable(h)
  BY <1>2 DEF HyTimeEnable, TimeControl, TMR_Cmd, Held, vars, hw, mem, Main
<1>3. CASE \E h \in Handle : HyTimeDisable(h)
  BY <1>3 DEF HyTimeDisable, TimeControl, TMR_Cmd, Held, vars, hw, mem, Main
<1>4. CASE \E h \in Handle : DestroyUnregister(h)
  BY <1>4 DEF DestroyUnregister, Held, vars, hw, mem, Main
<1>5. CASE CreatePublish
  BY <1>5 DEF CreatePublish, vars, hw, mem, Main
<1>6. CASE CreateMemcpy
  BY <1>6 DEF CreateMemcpy, vars, hw, mem, Main
<1>7. CASE CreateBase
  BY <1>7 DEF CreateBase, TMR_TimeBaseInit, vars, hw, mem, Main
<1>8. CASE CreateCmd
  BY <1>8 DEF CreateCmd, TMR_Cmd, vars, hw, mem, Main
<1>9. CASE CreateNvic
  BY <1>9 DEF CreateNvic, NVIC_Init, vars, hw, mem, Main
<1>10. CASE CreateInt
  BY <1>10 DEF CreateInt, TMR_INTConfig, vars, hw, mem, Main
<1>11. CASE DestroyFree
  BY <1>11 DEF DestroyFree, vars, hw, mem, Main
<1>12. CASE IsrEnter
  BY <1>12 DEF IsrEnter, TMR_ClearITPendingBit, vars, hw, mem, Main
<1>13. CASE IsrReturn
  BY <1>13 DEF IsrReturn, vars, hw, mem, Main
<1>14. CASE IsrCallback
  BY <1>14 DEF IsrCallback, TimeControl, TMR_Cmd, vars, hw, mem, Main
<1>15. CASE Overflow
  BY <1>15 DEF Overflow, vars, hw, mem, Main
<1>16. CASE UNCHANGED vars
  BY <1>16 DEF vars, hw, mem, Main
<1>17. QED
  BY <1>1, <1>2, <1>3, <1>4, <1>5, <1>6, <1>7, <1>8, <1>9, <1>10, <1>11, <1>12, <1>13, <1>14, <1>15, <1>16 DEF Next, Begin, Continue

\* Every behaviour of the timer service is well typed and never keeps a freed
\* context registered (HyTimeDestroy clears the entry before it frees).
THEOREM TypeCorrect == Spec => []TypeOK
<1>1. Init => TypeOK
  <2> SUFFICES ASSUME Init PROVE TypeOK
    OBVIOUS
  <2>1. tmr2 \in [clk : BOOLEAN, cen : BOOLEAN, uif : BOOLEAN, uie : BOOLEAN,
                  forced : BOOLEAN]
    BY DEF Init
  <2>2. ctx \in [Handle -> [num : Num, time_cb : BOOLEAN]]
    BY NumAssumption DEF Init
  <2>3. \A n \in Num : context_array[n] = NULL
    BY DEF Init
  <2>4. QED
    BY <2>1, <2>2, <2>3, HandleAssumption DEF Init, TypeOK, PC
<1>2. QED
  BY <1>1, TypeStep, PTL DEF Spec

-----------------------------------------------------------------------------
(* The inductive invariant.                                                  *)

\* A step of a caller who keeps the rules preserves Kept.
LEMMA KeptStep == TypeOK /\ TypeOK' /\ Kept /\ [Next]_vars => Kept'
<1> SUFFICES ASSUME TypeOK, TypeOK', Kept, [Next]_vars, ~misused' PROVE Kept'
  BY DEF Kept
<1> USE NumAssumption, HandleAssumption
    DEF Kept, QuietWhileUnowned, Unowned, Registration, LineAsCreated, CallbackOwned,
        TypeOK, IrqPending, Held
<1>1. ASSUME NEW h \in Handle, NEW n \in Num, NEW flag \in BOOLEAN,
             NEW cb \in BOOLEAN, CreateAlloc(h, n, flag, cb)
      PROVE  Kept'
  <2> USE <1>1 DEF CreateAlloc, Main, hw, mem
  <2>1. ~misused /\ pc = "idle" /\ isr = "off" /\ context_array[n] = NULL
    OBVIOUS
  <2>2. \A k \in Num : context_array[k] # h
    OBVIOUS
  <2>3. \A k \in Handle : k # h => ctx'[k] = ctx[k] /\ started'[k] = started[k]
                                     /\ heap'[k] = heap[k]
    OBVIOUS
  <2>4. ctx'[h].num = n /\ heap'[h] = "raw"
    OBVIOUS
  <2>5. Registration'
    BY <2>1, <2>2, <2>3, <2>4
  <2>6. QuietWhileUnowned' /\ LineAsCreated' /\ CallbackOwned'
    BY <2>1, <2>2, <2>3, <2>4
  <2>7. QED
    BY <2>5, <2>6
<1>2. CASE \E h \in Handle : HyTimeEnable(h)
  BY <1>2 DEF HyTimeEnable, TimeControl, TMR_Cmd, Held, Main, vars, hw, mem
<1>3. CASE \E h \in Handle : HyTimeDisable(h)
  BY <1>3 DEF HyTimeDisable, TimeControl, TMR_Cmd, Held, Main, vars, hw, mem
<1>4. CASE \E h \in Handle : DestroyUnregister(h)
  BY <1>4 DEF DestroyUnregister, Held, Main, vars, hw, mem
<1>5. CASE CreatePublish
  BY <1>5 DEF CreatePublish, Main, vars, hw, mem
<1>6. CASE CreateMemcpy
  BY <1>6 DEF CreateMemcpy, Main, vars, hw, mem
<1>7. CASE CreateBase
  BY <1>7 DEF CreateBase, TMR_TimeBaseInit, Main, vars, hw, mem
<1>8. CASE CreateCmd
  BY <1>8 DEF CreateCmd, TMR_Cmd, Main, vars, hw, mem
<1>9. CASE CreateNvic
  BY <1>9 DEF CreateNvic, NVIC_Init, Main, vars, hw, mem
<1>10. CASE CreateInt
  BY <1>10 DEF CreateInt, TMR_INTConfig, Main, vars, hw, mem
<1>11. CASE DestroyFree
  BY <1>11 DEF DestroyFree, Main, vars, hw, mem
<1>12. CASE IsrEnter
  BY <1>12 DEF IsrEnter, TMR_ClearITPendingBit, Main, vars, hw, mem
<1>13. CASE IsrReturn
  BY <1>13 DEF IsrReturn, Main, vars, hw, mem
<1>14. CASE IsrCallback
  BY <1>14 DEF IsrCallback, TimeControl, TMR_Cmd, Main, vars, hw, mem
<1>15. CASE Overflow
  BY <1>15 DEF Overflow, Main, vars, hw, mem
<1>16. CASE UNCHANGED vars
  BY <1>16 DEF Main, vars, hw, mem
<1>17. QED
  BY <1>1, <1>2, <1>3, <1>4, <1>5, <1>6, <1>7, <1>8, <1>9, <1>10, <1>11, <1>12, <1>13, <1>14, <1>15, <1>16 DEF Next, Begin, Continue

\* IInv is an invariant of the timer service.
THEOREM Invariance == Spec => []IInv
<1>1. Init => Kept
  BY NumAssumption, HandleAssumption
     DEF Init, Kept, QuietWhileUnowned, Unowned, Registration, LineAsCreated,
         CallbackOwned, IrqPending, Held
<1>2. QED
  BY <1>1, TypeCorrect, KeptStep, PTL DEF Spec, IInv

-----------------------------------------------------------------------------
(* The safety properties.                                                    *)

\* The handler of a caller who keeps the rules reads only initialised, allocated
\* contexts (_time_irq_handler against HyTimeCreate's publication order and
\* HyTimeDestroy's free).
THEOREM IsrSafe == Spec => []IsrReadsLiveContext
<1>1. IInv => IsrReadsLiveContext
  BY NumAssumption, HandleAssumption
     DEF IInv, TypeOK, PC, Kept, QuietWhileUnowned, Unowned, Registration,
         LineAsCreated, CallbackOwned, IsrReadsLiveContext, IrqPending
<1>2. QED
  BY <1>1, Invariance, PTL

\* HyTimeCreate with flag = 0 leaves a timer that never calls back once the
\* creation has returned (_init_time_interrupt opens the line only for flag = 1).
THEOREM Silent == Spec => []SilentIfCreatedStopped
<1>1. IInv => SilentIfCreatedStopped
  BY DEF IInv, Kept, CallbackOwned, SilentIfCreatedStopped
<1>2. QED
  BY <1>1, Invariance, PTL

\* The interrupt of a timer whose context was destroyed while it ran is never
\* acknowledged, and the main program never executes again.
THEOREM StormForever == Spec => StormNeverEnds
<1>1. TypeOK /\ [Next]_vars => [Storm => Storm' /\ UNCHANGED << pc, heap, context_array >>]_vars
  <2> SUFFICES ASSUME TypeOK, [Next]_vars, Storm
               PROVE  Storm' /\ UNCHANGED << pc, heap, context_array >>
    OBVIOUS
  <2>1. ~Main /\ context_array[HY_TIME_2] = NULL /\ isr # "cb" /\ tmr2.uif
    BY DEF Storm, Main, TypeOK, IrqPending
  <2>2. ~Begin /\ ~Continue /\ ~IsrCallback /\ ~Overflow
    BY <2>1 DEF Begin, Continue, CreateAlloc, CreatePublish, CreateMemcpy, CreateBase,
       CreateCmd, CreateNvic, CreateInt, HyTimeEnable, HyTimeDisable,
       DestroyUnregister, DestroyFree, IsrCallback, Overflow
  <2>3. CASE IsrEnter
    BY <2>1, <2>3 DEF IsrEnter, Storm, IrqPending, mem
  <2>4. CASE IsrReturn
    BY <2>4 DEF IsrReturn, Storm, IrqPending, mem, hw
  <2>5. CASE UNCHANGED vars
    BY <2>5 DEF vars, Storm, IrqPending
  <2>6. QED
    BY <2>2, <2>3, <2>4, <2>5 DEF Next
<1>2. QED
  BY <1>1, TypeCorrect, PTL DEF Spec, StormNeverEnds

=============================================================================
