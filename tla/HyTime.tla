------------------------------- MODULE HyTime -------------------------------
(***************************************************************************)
(* The timer service of src/at32f4xx/hy_time.c: HyTimeCreate, HyTimeEnable,*)
(* HyTimeDisable and HyTimeDestroy, called by the main program, and        *)
(* TMR2_GLOBAL_IRQHandler, which the interrupt controller runs between any *)
(* two steps of the main program.                                          *)
(*                                                                         *)
(* One CPU: a pending, enabled interrupt is taken before the main program  *)
(* executes anything else, so a main step is enabled only while no         *)
(* interrupt is pending and none is being served.                          *)
(***************************************************************************)
EXTENDS Naturals

CONSTANTS
  Handle,     \* the heap blocks malloc can return
  Num,        \* HyTimeNum_t, the timers a caller may name
  HY_TIME_2,  \* the only timer that gets a clock and an interrupt
  NULL

ASSUME NumAssumption    == HY_TIME_2 \in Num
ASSUME HandleAssumption == NULL \notin Handle

VARIABLES
  context_array, \* the registered context of each timer
  heap,          \* each block: "free", "raw" (allocated, uninitialised), "live"
  ctx,           \* what each block holds: its num, and whether time_cb is set
  started,       \* history: the flag each block's HyTimeCreate was called with
  tmr2,          \* TMR2: bus clock, CNTEN, overflow flag, overflow interrupt
                 \* enable, and whether no overflow followed the last forced event
  nvic,          \* TMR2_GLOBAL_IRQn enabled in the NVIC
  isr,           \* the handler: "off", "nil" (found no context), "cb" (in time_cb)
  pc,            \* the next statement of the API call in progress, or "idle"
  cur,           \* the block that call works on
  misused        \* history: the caller broke one of the rules of Misuse

vars == << context_array, heap, ctx, started, tmr2, nvic, isr, pc, cur, misused >>
hw   == << tmr2, nvic >>
mem  == << heap, ctx, started >>

PC == {"idle", "publish", "memcpy", "base", "cmd", "nvic", "int", "free"}

IrqPending == nvic /\ tmr2.uif /\ tmr2.uie

\* The main program executes.
Main == isr = "off" /\ ~IrqPending

\* The handles the caller holds: returned by HyTimeCreate, not yet destroyed.
Held == {h \in Handle : heap[h] = "live" /\ h # cur}

-----------------------------------------------------------------------------
(* Driver calls on TMR2 and the NVIC.  No other timer is given a clock, and  *)
(* the registers of an unclocked timer ignore writes.                        *)

\* TMR_TimeBaseInit ends by forcing an update event, which raises the flag.
TMR_TimeBaseInit(t) == [t EXCEPT !.uif = t.clk, !.forced = t.clk]

TMR_Cmd(t, on) == [t EXCEPT !.cen = t.clk /\ on]

\* Mutant: the overflow interrupt is never enabled in the timer.
NoIntConfig(t) == t

TMR_INTConfig(t) == [t EXCEPT !.uie = t.clk]

\* Mutant: the handler does not lower the flag.
NoClear(t) == t

TMR_ClearITPendingBit(t) == [t EXCEPT !.uif = FALSE]

\* Mutant: the line is opened whatever flag says.
AlwaysOpen(cmd) == nvic' = TRUE

NVIC_Init(cmd) == nvic' = cmd

\* The counter reaches its period.  The period is longer than the handler, so
\* an overflow finds the handler running only when a forced event started it.
Overflow ==
  /\ tmr2.cen /\ ~tmr2.uif
  /\ isr = "off" \/ tmr2.forced
  /\ tmr2' = [tmr2 EXCEPT !.uif = TRUE, !.forced = FALSE]
  /\ UNCHANGED << context_array, mem, nvic, isr, pc, cur, misused >>

-----------------------------------------------------------------------------
(* HyTimeCreate, one action per statement.                                   *)

\* HY_MALLOC_BREAK succeeds, and context->num is set.
CreateAlloc(h, n, flag, cb) ==
  /\ Main /\ pc = "idle" /\ heap[h] = "free"
  /\ heap' = [heap EXCEPT ![h] = "raw"]
  /\ ctx' = [ctx EXCEPT ![h] = [num |-> n, time_cb |-> cb]]
  /\ started' = [started EXCEPT ![h] = flag]
  /\ cur' = h /\ pc' = "publish"
  /\ misused' = (misused \/ context_array[n] # NULL)
  /\ UNCHANGED << context_array, hw, isr >>

\* Mutant: the timer is initialised before config_save is copied.
PublishAndInit ==
  /\ Main /\ pc = "publish"
  /\ context_array' = [context_array EXCEPT ![ctx[cur].num] = cur]
  /\ tmr2' = TMR_TimeBaseInit(tmr2)
  /\ pc' = "memcpy"
  /\ UNCHANGED << mem, nvic, isr, cur, misused >>

\* The context is registered before its config_save is filled in.
CreatePublish ==
  /\ Main /\ pc = "publish"
  /\ context_array' = [context_array EXCEPT ![ctx[cur].num] = cur]
  /\ pc' = "memcpy"
  /\ UNCHANGED << mem, hw, isr, cur, misused >>

CreateMemcpy ==
  /\ Main /\ pc = "memcpy"
  /\ heap' = [heap EXCEPT ![cur] = "live"]
  /\ pc' = "base"
  /\ UNCHANGED << context_array, ctx, started, hw, isr, cur, misused >>

\* _init_time_rcc and the first half of _init_time_func.
CreateBase ==
  /\ Main /\ pc = "base"
  /\ tmr2' = IF ctx[cur].num = HY_TIME_2
             THEN TMR_TimeBaseInit([tmr2 EXCEPT !.clk = TRUE])
             ELSE tmr2
  /\ pc' = "cmd"
  /\ UNCHANGED << context_array, mem, nvic, isr, cur, misused >>

CreateCmd ==
  /\ Main /\ pc = "cmd"
  /\ tmr2' = IF ctx[cur].num = HY_TIME_2 THEN TMR_Cmd(tmr2, started[cur]) ELSE tmr2
  /\ pc' = "nvic"
  /\ UNCHANGED << context_array, mem, nvic, isr, cur, misused >>

\* _init_time_interrupt: the NVIC line follows flag, the timer's own enable does not.
CreateNvic ==
  /\ Main /\ pc = "nvic"
  /\ IF ctx[cur].num = HY_TIME_2 THEN NVIC_Init(started[cur]) ELSE UNCHANGED nvic
  /\ pc' = "int"
  /\ UNCHANGED << context_array, mem, tmr2, isr, cur, misused >>

\* TMR_INTConfig, and HyTimeCreate returns the handle.
CreateInt ==
  /\ Main /\ pc = "int"
  /\ tmr2' = IF ctx[cur].num = HY_TIME_2 THEN TMR_INTConfig(tmr2) ELSE tmr2
  /\ pc' = "idle" /\ cur' = NULL
  /\ UNCHANGED << context_array, mem, nvic, isr, misused >>

-----------------------------------------------------------------------------
(* The other calls.                                                          *)

\* _time_control_com, for HyTimeEnable and HyTimeDisable: only the counter.
TimeControl(h, on) ==
  tmr2' = IF ctx[h].num = HY_TIME_2 THEN TMR_Cmd(tmr2, on) ELSE tmr2

HyTimeEnable(h) ==
  /\ Main /\ pc = "idle" /\ h \in Held
  /\ TimeControl(h, TRUE)
  /\ UNCHANGED << context_array, mem, nvic, isr, pc, cur, misused >>

HyTimeDisable(h) ==
  /\ Main /\ pc = "idle" /\ h \in Held
  /\ TimeControl(h, FALSE)
  /\ UNCHANGED << context_array, mem, nvic, isr, pc, cur, misused >>

\* HyTimeDestroy unregisters; neither the timer nor the NVIC is touched.
DestroyUnregister(h) ==
  /\ Main /\ pc = "idle" /\ h \in Held
  /\ context_array' = [context_array EXCEPT ![ctx[h].num] = NULL]
  /\ cur' = h /\ pc' = "free"
  /\ misused' = (misused \/ (ctx[h].num = HY_TIME_2 /\ tmr2.cen))
  /\ UNCHANGED << mem, hw, isr >>

DestroyFree ==
  /\ Main /\ pc = "free"
  /\ heap' = [heap EXCEPT ![cur] = "free"]
  /\ pc' = "idle" /\ cur' = NULL
  /\ UNCHANGED << context_array, ctx, started, hw, isr, misused >>

-----------------------------------------------------------------------------
(* TMR2_GLOBAL_IRQHandler.                                                   *)

\* Mutant: the flag is lowered before the context is looked up.
ClearBeforeLookup ==
  /\ isr = "off" /\ IrqPending
  /\ tmr2' = TMR_ClearITPendingBit(tmr2)
  /\ isr' = IF context_array[HY_TIME_2] = NULL THEN "nil" ELSE "cb"
  /\ UNCHANGED << context_array, mem, nvic, pc, cur, misused >>

\* _time_irq_handler up to the callback.  With no registered context it
\* returns without clearing the flag that raised the interrupt.
IsrEnter ==
  /\ isr = "off" /\ IrqPending
  /\ IF context_array[HY_TIME_2] = NULL
     THEN isr' = "nil" /\ UNCHANGED tmr2
     ELSE /\ tmr2' = TMR_ClearITPendingBit(tmr2)
          /\ isr' = IF ctx[context_array[HY_TIME_2]].time_cb THEN "cb" ELSE "off"
  /\ UNCHANGED << context_array, mem, nvic, pc, cur, misused >>

IsrReturn ==
  /\ isr = "nil"
  /\ isr' = "off"
  /\ UNCHANGED << context_array, mem, hw, pc, cur, misused >>

\* time_cb runs: it may start or stop its own timer, or leave it.
IsrCallback ==
  /\ isr = "cb"
  /\ isr' = "off"
  /\ \/ UNCHANGED tmr2
     \/ \E on \in BOOLEAN : TimeControl(context_array[HY_TIME_2], on)
  /\ UNCHANGED << context_array, mem, nvic, pc, cur, misused >>

-----------------------------------------------------------------------------
Init ==
  /\ context_array = [n \in Num |-> NULL]
  /\ heap = [h \in Handle |-> "free"]
  /\ ctx = [h \in Handle |-> [num |-> HY_TIME_2, time_cb |-> FALSE]]
  /\ started = [h \in Handle |-> FALSE]
  /\ tmr2 = [clk |-> FALSE, cen |-> FALSE, uif |-> FALSE, uie |-> FALSE,
             forced |-> FALSE]
  /\ nvic = FALSE
  /\ isr = "off" /\ pc = "idle" /\ cur = NULL
  /\ misused = FALSE

\* The remaining statements of an API call that has begun.
Continue ==
  \/ CreatePublish \/ CreateMemcpy \/ CreateBase \/ CreateCmd \/ CreateNvic
  \/ CreateInt \/ DestroyFree

\* A failed HY_MALLOC_BREAK returns NULL and changes nothing.
Begin ==
  \/ \E h \in Handle, n \in Num, flag, cb \in BOOLEAN : CreateAlloc(h, n, flag, cb)
  \/ \E h \in Handle : HyTimeEnable(h)
  \/ \E h \in Handle : HyTimeDisable(h)
  \/ \E h \in Handle : DestroyUnregister(h)

Next == Begin \/ Continue \/ IsrEnter \/ IsrReturn \/ IsrCallback \/ Overflow

\* The CPU runs the handler and the timer counts (weak fairness).  The main
\* program is suspended by every interrupt and resumed after it: strong
\* fairness of the call in progress.
Fairness ==
  /\ SF_vars(Continue)
  /\ WF_vars(IsrEnter) /\ WF_vars(IsrReturn) /\ WF_vars(IsrCallback)
  /\ WF_vars(Overflow)

Spec     == Init /\ [][Next]_vars
FairSpec == Spec /\ Fairness

-----------------------------------------------------------------------------
(* Properties.                                                               *)

\* Every variable has its type; a registered context is allocated memory (the
\* array never keeps a pointer HyTimeDestroy has freed) and is registered under
\* its own num; only the block being created is uninitialised; the context
\* whose callback runs is still registered.
TypeOK ==
  /\ context_array \in [Num -> Handle \cup {NULL}]
  /\ heap \in [Handle -> {"free", "raw", "live"}]
  /\ ctx \in [Handle -> [num : Num, time_cb : BOOLEAN]]
  /\ started \in [Handle -> BOOLEAN]
  /\ tmr2 \in [clk : BOOLEAN, cen : BOOLEAN, uif : BOOLEAN, uie : BOOLEAN,
              forced : BOOLEAN]
  /\ nvic \in BOOLEAN
  /\ isr \in {"off", "nil", "cb"}
  /\ pc \in PC
  /\ cur \in Handle \cup {NULL}
  /\ misused \in BOOLEAN
  /\ pc = "idle" <=> cur = NULL
  /\ \A h \in Handle : heap[h] = "raw" => h = cur /\ pc \in {"publish", "memcpy"}
  /\ pc \in {"publish", "memcpy"} => heap[cur] = "raw"
  /\ pc \in {"base", "cmd", "nvic", "int", "free"} => heap[cur] = "live"
  /\ pc = "free" => context_array[ctx[cur].num] = NULL
  /\ isr = "cb" => context_array[HY_TIME_2] # NULL
  /\ \A n \in Num : context_array[n] # NULL =>
       /\ heap[context_array[n]] # "free"
       /\ ctx[context_array[n]].num = n

\* The caller kept the rules the code relies on: it stopped TMR2 before it
\* destroyed its handle, and never created a timer that already had one.
\* Then the handler never looks for a callback in a block whose config_save has
\* not been copied yet (hy_time.c publishes the context before the copy), and
\* never runs a callback whose context is gone.
IsrReadsLiveContext ==
  ~misused =>
    /\ IrqPending /\ context_array[HY_TIME_2] # NULL =>
         heap[context_array[HY_TIME_2]] = "live"
    /\ isr = "cb" =>
         /\ context_array[HY_TIME_2] # NULL
         /\ heap[context_array[HY_TIME_2]] = "live"

\* The interrupt line is opened by HyTimeCreate(flag = 1) alone: a timer created
\* stopped can be called back while it is being created (the forced update event
\* meets a line its predecessor left open) but never afterwards, whatever
\* HyTimeEnable does.
SilentIfCreatedStopped ==
  ~misused /\ isr = "cb" =>
    started[context_array[HY_TIME_2]] \/ cur = context_array[HY_TIME_2]

\* The interrupt of a timer nobody owns: the handler finds no context, leaves
\* the flag up, and is entered again.
Storm == IrqPending /\ context_array[HY_TIME_2] = NULL

\* Nothing ends a storm: no main step and no hardware step lowers the flag, so
\* a timer destroyed while it runs stops the main program at its next overflow.
StormNeverEnds == [][Storm => Storm' /\ UNCHANGED << pc, heap, context_array >>]_vars

\* Unless the caller breaks the rules, every call of the API returns: the
\* handler always lowers the flag that raised it.
CallsReturn == pc # "idle" ~> pc = "idle" \/ misused

\* A timer created running calls back while its counter stays enabled.
RunningTimerFires ==
  \A h \in Handle :
    (/\ pc = "idle" /\ context_array[HY_TIME_2] = h
     /\ started[h] /\ ctx[h].time_cb /\ tmr2.cen)
      ~> (isr = "cb" \/ ~tmr2.cen \/ misused)

=============================================================================
