------------------------------ MODULE HySystem ------------------------------
(***************************************************************************)
(* src/at32f4xx/hy_system.c: the system tick and the delays, which share   *)
(* the SysTick counter.  The main program creates, destroys and delays;    *)
(* SysTick_Handler interrupts it, and so do the handlers of other devices, *)
(* whose callbacks may themselves call HySystemDelayUs.  All of them have  *)
(* one preemption priority: no handler interrupts another.                 *)
(*                                                                         *)
(* Time is counted in cycles of the counter.  HySystemDelayS is repeated   *)
(* calls of HySystemDelayMs.                                               *)
(***************************************************************************)
EXTENDS Naturals

CONSTANTS
  Handle,      \* the heap blocks malloc can return
  NULL,
  LoadMod,     \* 2^24, the width of SysTick->LOAD
  TickLoad,    \* the reload value of the 1 ms tick
  StepDelay,   \* the cycles of STEP_DELAY_MS, one step of HySystemDelayMs
  MaxDelay,    \* bound: the cycles a caller asks for
  NestedDelay, \* bound: the cycles a callback asks for
  MaxNested    \* bound: delays called by callbacks

ASSUME HandleAssumption == NULL \notin Handle
ASSUME LoadAssumption ==
  /\ LoadMod \in Nat \ {0} /\ TickLoad \in 1 .. LoadMod - 1
  /\ StepDelay \in 1 .. LoadMod - 1 /\ NestedDelay \in 1 .. LoadMod - 1
ASSUME BoundAssumption == {MaxDelay, MaxNested} \subseteq Nat

VARIABLES
  context, heap, \* the static pointer; each block: "free", "raw", "live"
  load, val,     \* SysTick->LOAD and ->VAL
  enable, tickint, countflag, \* the bits of SysTick->CTRL
  pend,          \* the SysTick exception is pending
  pc, cur,       \* main: statement, and the block in progress or NULL
  kind, todo,    \* the delay in progress: "us" or "ms", cycles still to wait
  isr, tick,     \* the handler: statement, and whether it is SysTick_Handler
  nested,        \* delays called by callbacks
  delayed,       \* history: a delay ended since the tick was configured
  asked, elapsed, \* history: cycles asked of the last delay, and waited
  cut            \* history: a callback's delay fell into it

systick == << load, val, enable, tickint, countflag >>
mem     == << context, heap >>
call    == << kind, todo, asked, elapsed, cut >>
main    == << pc, cur >>
cback   == << isr, tick, nested >>
vars    == << mem, systick, pend, main, call, cback, delayed >>

\* The main program executes.
Main == isr = "off" /\ ~pend

Held == {h \in Handle : heap[h] = "live" /\ h # cur}

InDelay  == pc \in {"load", "go", "enable", "poll"}
InConfig == pc \in {"config", "configVal", "configCtrl"}

-----------------------------------------------------------------------------
(* The counter.  It reloads at 0 and raises COUNTFLAG on reaching 0, however *)
(* long a handler takes: a tick that comes while one is pending is lost.     *)

Wraps == val = 1

Count ==
  /\ enable /\ (load > 0 \/ val > 0)
  /\ val' = IF val = 0 THEN load ELSE val - 1
  /\ countflag' = (countflag \/ Wraps)
  /\ pend' = (pend \/ (Wraps /\ tickint))
  /\ elapsed' = IF InDelay /\ elapsed < asked THEN elapsed + 1 ELSE elapsed
  /\ UNCHANGED << load, enable, tickint, mem, main, kind, todo, asked, cut,
                  cback, delayed >>

\* Writing VAL clears it and COUNTFLAG.
SetVal == val' = 0 /\ countflag' = FALSE

-----------------------------------------------------------------------------
(* HySystemCreate and HySystemDestroy.                                       *)

CreateAlloc(h) ==
  /\ Main /\ pc = "idle" /\ heap[h] = "free"
  /\ context' = h /\ heap' = [heap EXCEPT ![h] = "raw"]
  /\ cur' = h /\ pc' = "memcpy"
  /\ UNCHANGED << systick, pend, call, cback, delayed >>

\* malloc fails: the pointer it returned was already stored.
CreateFails ==
  /\ Main /\ pc = "idle"
  /\ context' = NULL
  /\ UNCHANGED << heap, systick, pend, main, call, cback, delayed >>

CreateMemcpy ==
  /\ Main /\ pc = "memcpy"
  /\ heap' = [heap EXCEPT ![cur] = "live"]
  /\ pc' = "config"
  /\ UNCHANGED << context, systick, pend, cur, call, cback, delayed >>

\* Mutant: the reload value is not written.
ConfigNoLoad ==
  /\ Main /\ pc = "config"
  /\ pc' = "configVal"
  /\ UNCHANGED << systick, mem, pend, cur, call, cback, delayed >>

\* The three writes of SysTick_Config.
ConfigLoad ==
  /\ Main /\ pc = "config"
  /\ load' = TickLoad /\ pc' = "configVal"
  /\ UNCHANGED << val, enable, tickint, countflag, mem, pend, cur, call, cback, delayed >>

ConfigVal ==
  /\ Main /\ pc = "configVal"
  /\ SetVal /\ pc' = "configCtrl"
  /\ UNCHANGED << load, enable, tickint, mem, pend, cur, call, cback, delayed >>

ConfigCtrl ==
  /\ Main /\ pc = "configCtrl"
  /\ enable' = TRUE /\ tickint' = TRUE
  /\ pc' = "idle" /\ cur' = NULL /\ delayed' = FALSE
  /\ UNCHANGED << load, val, countflag, mem, pend, call, cback >>

\* The block is freed; the static pointer, and the tick, stay.
Destroy(h) ==
  /\ Main /\ pc = "idle" /\ h \in Held
  /\ heap' = [heap EXCEPT ![h] = "free"]
  /\ UNCHANGED << context, systick, pend, main, call, cback, delayed >>

-----------------------------------------------------------------------------
(* The delays of the main program, each step of them a call of _delay_com.   *)

\* HySystemDelayUs, or HySystemDelayMs, which for 0 does nothing.
DelayCall(k, cycles) ==
  /\ Main /\ pc = "idle"
  /\ k = "ms" => cycles > 0
  /\ kind' = k /\ todo' = cycles /\ asked' = cycles /\ elapsed' = 0 /\ cut' = FALSE
  /\ pc' = "load"
  /\ UNCHANGED << mem, systick, pend, cur, cback, delayed >>

\* Mutant: milliseconds are not split into steps.
WholeDelay == todo

\* What the next _delay_com waits for.
Chunk == IF kind = "ms" /\ todo > StepDelay THEN StepDelay ELSE todo

DelayLoad ==
  /\ Main /\ pc = "load"
  /\ load' = Chunk % LoadMod /\ pc' = "go"
  /\ UNCHANGED << val, enable, tickint, countflag, mem, pend, cur, call, cback, delayed >>

DelayGo ==
  /\ Main /\ pc = "go"
  /\ SetVal /\ pc' = "enable"
  /\ UNCHANGED << load, enable, tickint, mem, pend, cur, call, cback, delayed >>

\* Reading CTRL, to set its enable bit, clears COUNTFLAG.
DelayEnable ==
  /\ Main /\ pc = "enable"
  /\ enable' = TRUE /\ countflag' = FALSE /\ pc' = "poll"
  /\ UNCHANGED << load, val, tickint, mem, pend, cur, call, cback, delayed >>

\* Mutant: the counter is left running.
LeaveRunning == SetVal /\ UNCHANGED enable

\* The end of _delay_com.
StopCounter == SetVal /\ enable' = FALSE

\* Mutant: the enable bit is not looked at.
FlagOnly == countflag

\* The wait is over when COUNTFLAG is set or the counter was switched off.
WaitOver == countflag \/ ~enable

DelayEnd ==
  /\ Main /\ pc = "poll" /\ WaitOver
  /\ StopCounter
  /\ todo' = todo - Chunk
  /\ pc' = IF todo = Chunk THEN "idle" ELSE "load"
  /\ delayed' = TRUE
  /\ UNCHANGED << load, tickint, mem, pend, cur, kind, asked, elapsed, cut, cback >>

-----------------------------------------------------------------------------
(* Interrupt handlers.                                                       *)

\* SysTick_Handler looks at the context and runs sys_tick_cb.
TickEnter ==
  /\ isr = "off" /\ pend
  /\ pend' = FALSE /\ tick' = TRUE
  /\ isr' = IF context # NULL THEN "cb" ELSE "return"
  /\ UNCHANGED << mem, systick, main, call, nested, delayed >>

\* Another device's handler, of interest when its callback calls HySystemDelayUs.
OtherEnter ==
  /\ isr = "off" /\ nested < MaxNested
  /\ isr' = "cb" /\ tick' = FALSE
  /\ UNCHANGED << mem, systick, pend, main, call, nested, delayed >>

\* sys_tick_cb returns, or calls HySystemDelayUs first.
CbReturn ==
  /\ isr = "cb" /\ tick /\ isr' = "return"
  /\ UNCHANGED << mem, systick, pend, main, call, tick, nested, delayed >>

CbDelay ==
  /\ isr = "cb" /\ nested < MaxNested
  /\ \E c \in 1 .. NestedDelay : load' = c
  /\ SetVal /\ enable' = TRUE
  /\ isr' = "poll" /\ nested' = nested + 1 /\ cut' = (cut \/ InDelay)
  /\ UNCHANGED << tickint, mem, pend, main, kind, todo, asked, elapsed, tick, delayed >>

CbDelayEnd ==
  /\ isr = "poll" /\ WaitOver
  /\ StopCounter
  /\ isr' = "return" /\ delayed' = TRUE
  /\ UNCHANGED << load, tickint, mem, pend, main, call, tick, nested >>

IsrReturn ==
  /\ isr = "return" /\ isr' = "off" /\ tick' = FALSE
  /\ UNCHANGED << mem, systick, pend, main, call, nested, delayed >>

-----------------------------------------------------------------------------
Init ==
  /\ context = NULL /\ heap = [h \in Handle |-> "free"]
  /\ load = 0 /\ val = 0
  /\ enable = FALSE /\ tickint = FALSE /\ countflag = FALSE /\ pend = FALSE
  /\ tick = FALSE /\ delayed = FALSE /\ cut = FALSE
  /\ pc = "idle" /\ cur = NULL
  /\ kind = "us" /\ todo = 0 /\ asked = 0 /\ elapsed = 0
  /\ isr = "off" /\ nested = 0

Call == \/ \E h \in Handle : CreateAlloc(h) \/ Destroy(h)
        \/ CreateFails
        \/ \E k \in {"us", "ms"}, cycles \in 0 .. MaxDelay : DelayCall(k, cycles)

InCall  == \/ CreateMemcpy \/ ConfigLoad \/ ConfigVal \/ ConfigCtrl
           \/ DelayLoad \/ DelayGo \/ DelayEnable \/ DelayEnd

Handler == TickEnter \/ CbReturn \/ CbDelay \/ CbDelayEnd \/ IsrReturn

Next == Count \/ Call \/ InCall \/ OtherEnter \/ Handler

\* The counter runs, handlers are served and return, and the main program goes on
\* with its call if it gets to execute again and again, which a handler pending
\* again each time it returns does not allow.
Fairness == WF_vars(Count) /\ WF_vars(Handler) /\ SF_vars(InCall)

Spec     == Init /\ [][Next]_vars
FairSpec == Spec /\ Fairness

-----------------------------------------------------------------------------
(* Properties.                                                               *)

\* A delay waits for as long as asked, unless a callback's delay took the counter
\* from it or HySystemDelayUs was asked for more than LOAD holds.
DelayLongEnough ==
  ~InDelay => elapsed >= asked \/ cut \/ (kind = "us" /\ asked >= LoadMod)

\* A delay ends if the main program gets to execute again and again, but not one
\* whose cycles are 0 in LOAD's width.  The main program is kept from executing by
\* a sys_tick_cb longer than the delay: LOAD is then the delay's, the tick's
\* interrupt stays enabled, and SysTick is pending again whenever its handler returns.
DelayReturns ==
  []<>Main => ((InDelay /\ (kind = "ms" \/ asked % LoadMod # 0)) ~> pc = "idle")

\* Delays leave the counter off: once one has ended there is no tick any more,
\* except one already pending, until HySystemCreate configures it again.
NoTickAfterDelay ==
  delayed /\ ~InDelay /\ isr # "poll" => ~enable

\* While no delay takes the counter, and no HySystemCreate restarts it, the tick
\* goes on for ever, HySystemDestroy or not, and so do the reads of the context.
TicksGoOn ==
  <>[](tickint /\ enable /\ ~InDelay /\ ~InConfig) => []<>tick

=============================================================================
