-------------------------------- MODULE HcRtc --------------------------------
(***************************************************************************)
(* The real-time clock driver, src/hc32l13x/driver/src/rtc.c: the window   *)
(* in which the running calendar holds still, opened with CR1.WAIT, seen   *)
(* open in CR1.WAITF, and the two calls that use it, Rtc_ReadDateTime and  *)
(* Rtc_SetTime, each with a time-out of its own.                           *)
(*                                                                         *)
(* The seven calendar registers are read and written one by one; two stand *)
(* for them, SEC and MIN, with a carry between them.  The interrupt of the *)
(* RTC runs Rtc_IRQHandler, which the application writes: here it reads    *)
(* the date and time, at any point of the main program.                    *)
(***************************************************************************)
EXTENDS Integers

CONSTANTS
  Base,    \* values of one calendar register
  TimeOut  \* 1000, the bound of both polling loops

ASSUME BaseAssumption    == Base \in Nat \ {0}
ASSUME TimeOutAssumption == TimeOut \in Nat \ {0}

VARIABLES
  start,   \* CR0.START
  clk,     \* the selected clock source is running
  wait,    \* CR1.WAIT
  waitf,   \* CR1.WAITF: the calendar holds still
  cal,     \* the calendar registers
  pc,      \* what "main" and "isr" do next, or "idle"
  left,    \* u32TimeOut or u16TimeOut
  val,     \* *time, read so far or to be written
  last,    \* what the last call returned: "ok" or "timeout"
  gaveUp,  \* history: the polling loop of this Rtc_ReadDateTime ran out
  seen,    \* history: what the calendar has shown since this Rtc_ReadDateTime began
  torn,    \* history: this Rtc_ReadDateTime read what the calendar never showed
  cut      \* history: an interrupt came since the last call of "main" began

vars == << start, clk, wait, waitf, cal, pc, left, val, last, gaveUp, seen, torn, cut >>
rtc  == << start, clk, wait, waitf, cal >>
call == << left, val, seen, torn >>  \* dead once the call has returned
hist == << gaveUp, seen, torn, cut >>

Actor == {"main", "isr"}
Time  == [sec : 0 .. Base - 1, min : 0 .. Base - 1]

\* The interrupt runs to its end before the main program goes on.
Runs(a) == a = "main" => pc["isr"] = "idle"
At(a, s) == Runs(a) /\ pc[a] = s
Go(a, s) == pc' = [pc EXCEPT ![a] = s]

Zero == [sec |-> 0, min |-> 0]
Clear(a) ==
  /\ left' = [left EXCEPT ![a] = 0] /\ val'  = [val EXCEPT ![a] = Zero]
  /\ seen' = [seen EXCEPT ![a] = {}] /\ torn' = [torn EXCEPT ![a] = FALSE]

Return(a, r) == Go(a, "idle") /\ last' = [last EXCEPT ![a] = r] /\ Clear(a)

-----------------------------------------------------------------------------
(* The hardware.                                                             *)

\* A second passes.
Tick ==
  /\ start /\ clk /\ ~waitf
  /\ cal' = IF cal.sec < Base - 1
            THEN [cal EXCEPT !.sec = @ + 1]
            ELSE [sec |-> 0, min |-> IF cal.min < Base - 1 THEN cal.min + 1 ELSE 0]
  /\ seen' = [a \in Actor |-> IF pc[a] = "idle" THEN seen[a] ELSE seen[a] \cup {cal'}]
  /\ UNCHANGED << start, clk, wait, waitf, pc, left, val, last, gaveUp, torn, cut >>

\* WAITF follows WAIT, some periods of the RTC's clock later.
WindowFollows ==
  /\ clk /\ waitf # wait
  /\ waitf' = wait
  /\ UNCHANGED << start, clk, wait, cal, pc, left, val, last, hist >>

\* The source is switched off, or its crystal stops.
ClockStops ==
  /\ clk
  /\ clk' = FALSE
  /\ UNCHANGED << start, wait, waitf, cal, pc, left, val, last, hist >>

-----------------------------------------------------------------------------
(* Rtc_ReadDateTime.                                                         *)

Begin(a) ==
  /\ gaveUp' = [gaveUp EXCEPT ![a] = FALSE]
  /\ torn'   = [torn EXCEPT ![a] = FALSE]
  /\ seen'   = [seen EXCEPT ![a] = {cal}]
  /\ cut'    = (a = "isr")

ReadBegin(a) ==
  /\ At(a, "idle")
  /\ a = "isr" => start
  /\ wait' = (wait \/ start)
  /\ left' = [left EXCEPT ![a] = TimeOut]
  /\ Go(a, IF start THEN "rpoll" ELSE "r1")
  /\ Begin(a)
  /\ UNCHANGED << start, clk, waitf, cal, val, last >>

\* Mutant: WAITF is not waited for.
ReadNoPoll(a) ==
  /\ At(a, "rpoll")
  /\ Go(a, "r1")
  /\ UNCHANGED << rtc, left, val, last, hist >>

\* One turn of while(u32TimeOut--) and, where it ends, the test for 0 after it:
\* a loop that runs out leaves the counter at -1 (2^32 - 1), one that finds
\* WAITF in its last turn leaves it at 0.
ReadPoll(a) ==
  /\ At(a, "rpoll")
  /\ \/ /\ left[a] = 1 /\ waitf
        /\ Return(a, "timeout")
        /\ UNCHANGED gaveUp
     \/ /\ ~(left[a] = 1 /\ waitf)
        /\ left' = [left EXCEPT ![a] = @ - 1]
        /\ gaveUp' = [gaveUp EXCEPT ![a] = (left[a] = 0)]
        /\ IF left[a] = 0 \/ waitf THEN Go(a, "r1") ELSE UNCHANGED pc
        /\ UNCHANGED << last, val, seen, torn >>
  /\ UNCHANGED << rtc, cut >>

Read1(a) ==
  /\ At(a, "r1")
  /\ val' = [val EXCEPT ![a] = [sec |-> cal.sec, min |-> @.min]]
  /\ Go(a, "r2")
  /\ UNCHANGED << rtc, left, last, hist >>

\* The last register; WAIT is cleared.  A stopped calendar needs no wait after it.
Read2(a) ==
  /\ At(a, "r2")
  /\ wait' = FALSE
  /\ \/ /\ ~start /\ Return(a, "ok")
     \/ /\ start /\ Go(a, "end")
        /\ val' = [val EXCEPT ![a] = [sec |-> @.sec, min |-> cal.min]]
        /\ torn' = [torn EXCEPT ![a] = val'[a] \notin seen[a]]
        /\ UNCHANGED << left, last, seen >>
  /\ UNCHANGED << start, clk, waitf, cal, gaveUp, cut >>

\* Both calls end with while(WAITF);
End(a) ==
  /\ At(a, "end") /\ ~waitf
  /\ Return(a, "ok")
  /\ UNCHANGED << rtc, gaveUp, cut >>

-----------------------------------------------------------------------------
(* The other calls, made by the main program.                                *)

SetTime ==
  /\ At("main", "idle")
  /\ \E t \in Time : val' = [val EXCEPT !["main"] = t]
  /\ wait' = (wait \/ start)
  /\ left' = [left EXCEPT !["main"] = TimeOut]
  /\ Go("main", IF start THEN "spoll" ELSE "w1")
  /\ Begin("main")
  /\ UNCHANGED << start, clk, waitf, cal, last >>

\* Mutant: the loop of Rtc_ReadDateTime, whose end the test for 0 does not see.
SetPollPost ==
  /\ At("main", "spoll")
  /\ left' = [left EXCEPT !["main"] = @ - 1]
  /\ IF left["main"] = 0 \/ waitf THEN Go("main", "w1") ELSE UNCHANGED pc
  /\ UNCHANGED << rtc, val, last, hist >>

\* One turn of while(--u16TimeOut).  ErrorTimeout leaves WAIT set.
SetPoll ==
  /\ At("main", "spoll")
  /\ \/ left["main"] = 1 /\ Return("main", "timeout")
     \/ /\ left["main"] # 1
        /\ left' = [left EXCEPT !["main"] = @ - 1]
        /\ IF waitf THEN Go("main", "w1") ELSE UNCHANGED pc
        /\ UNCHANGED << val, last, seen, torn >>
  /\ UNCHANGED << rtc, gaveUp, cut >>

Write1 ==
  /\ At("main", "w1")
  /\ cal' = [cal EXCEPT !.sec = val["main"].sec]
  /\ Go("main", "w2")
  /\ UNCHANGED << start, clk, wait, waitf, left, val, last, hist >>

\* Mutant: the window is not closed.
Write2LeavesWait ==
  /\ At("main", "w2")
  /\ cal' = [cal EXCEPT !.min = val["main"].min]
  /\ IF start THEN Go("main", "end") /\ UNCHANGED << last, call >> ELSE Return("main", "ok")
  /\ UNCHANGED << start, clk, wait, waitf, gaveUp, cut >>

Write2 ==
  /\ At("main", "w2")
  /\ cal' = [cal EXCEPT !.min = val["main"].min]
  /\ wait' = FALSE
  /\ IF start THEN Go("main", "end") /\ UNCHANGED << last, call >> ELSE Return("main", "ok")
  /\ UNCHANGED << start, clk, waitf, gaveUp, cut >>

Rtc_Cmd ==
  /\ At("main", "idle")
  /\ start' = ~start
  /\ UNCHANGED << clk, wait, waitf, cal, pc, left, val, last, hist >>

\* Rtc_Init stops the calendar and selects its source before it sets the time.
Rtc_Init ==
  /\ At("main", "idle")
  /\ start' = FALSE
  /\ clk' \in BOOLEAN
  /\ \E t \in Time : val' = [val EXCEPT !["main"] = t]
  /\ Go("main", "w1")
  /\ Begin("main")
  /\ UNCHANGED << wait, waitf, cal, left, last >>

\* Rtc_StartWait waits for WAITF to be set, then to be cleared, without a bound.
StartWait ==
  /\ At("main", "idle") /\ start
  /\ wait' = TRUE
  /\ Go("main", "swait")
  /\ Begin("main")
  /\ UNCHANGED << start, clk, waitf, cal, left, val, last >>

StartWaitSeen ==
  /\ At("main", "swait") /\ waitf
  /\ wait' = FALSE
  /\ Go("main", "end")
  /\ UNCHANGED << start, clk, waitf, cal, left, val, last, hist >>

-----------------------------------------------------------------------------
\* Out of reset the RTC is stopped.
Init ==
  /\ start = FALSE /\ clk = TRUE /\ wait = FALSE /\ waitf = FALSE
  /\ cal = Zero
  /\ pc = [a \in Actor |-> "idle"] /\ left = [a \in Actor |-> 0]
  /\ val = [a \in Actor |-> cal] /\ last = [a \in Actor |-> "ok"]
  /\ gaveUp = [a \in Actor |-> FALSE] /\ torn = [a \in Actor |-> FALSE]
  /\ seen = [a \in Actor |-> {}] /\ cut = FALSE

Reading(a) == ReadPoll(a) \/ Read1(a) \/ Read2(a) \/ End(a)
Setting == SetPoll \/ Write1 \/ Write2 \/ StartWaitSeen
Call == ReadBegin("main") \/ SetTime \/ Rtc_Cmd \/ Rtc_Init \/ StartWait

Next ==
  \/ Tick \/ WindowFollows \/ ClockStops
  \/ Call \/ ReadBegin("isr")
  \/ \E a \in Actor : Reading(a)
  \/ Setting

Spec == Init /\ [][Next]_vars

\* WAITF follows WAIT while the clock runs, a handler runs, and the main program
\* runs whenever no handler does; nothing has to call or to interrupt.
Fairness ==
  /\ WF_vars(WindowFollows)
  /\ WF_vars(Reading("isr"))
  /\ SF_vars(Reading("main") \/ Setting)

FairSpec == Spec /\ Fairness

-----------------------------------------------------------------------------
(* Properties.                                                               *)

TypeOK ==
  /\ start \in BOOLEAN /\ clk \in BOOLEAN
  /\ wait \in BOOLEAN /\ waitf \in BOOLEAN /\ cut \in BOOLEAN
  /\ cal \in Time /\ val \in [Actor -> Time]
  /\ pc \in [Actor -> {"idle", "rpoll", "r1", "r2", "end", "spoll", "w1", "w2", "swait"}]
  /\ left \in [Actor -> Int]
  /\ last \in [Actor -> {"ok", "timeout"}]
  /\ gaveUp \in [Actor -> BOOLEAN] /\ torn \in [Actor -> BOOLEAN]
  /\ seen \in [Actor -> SUBSET Time]

\* Rtc_ReadDateTime returns a time the calendar showed during the call, unless its
\* loop ran out or an interrupt's own read closed the window under it.
ReadIsSnapshot == \A a \in Actor : torn[a] => gaveUp[a] \/ (a = "main" /\ cut)

\* Rtc_SetTime and Rtc_Init write the registers while the calendar holds still,
\* unless an interrupt's read closed the window.
SetInWindow == pc["main"] \in {"w1", "w2"} /\ ~cut => waitf \/ ~start

\* WAIT is left set, and the calendar stopped, exactly by the calls that return
\* ErrorTimeout (an interrupted call can find the window already closed).
StoppedByTimeout ==
  (\A a \in Actor : pc[a] = "idle") /\ ~cut => (wait <=> last["main"] = "timeout")

\* Every call returns, but for three ways to hang: the clock stops with WAITF set
\* or before Rtc_StartWait sees it, an interrupt's read closes the window
\* Rtc_StartWait waits for, or that read returns a false ErrorTimeout and leaves
\* WAIT set while the main program waits for WAITF to be cleared.
CallsReturn ==
  pc["main"] # "idle" ~>
    \/ pc["main"] = "idle"
    \/ ~clk /\ (waitf \/ pc["main"] = "swait")
    \/ cut /\ pc["main"] = "swait" /\ ~wait
    \/ cut /\ pc["main"] = "end" /\ wait

\* "ErrorTimeout" is what Rtc_ReadDateTime returns when the time runs out
\* (rtc.c:344): a read that gave up does not return Ok.
GaveUpMeansTimeout == gaveUp["main"] /\ pc["main"] = "idle" => last["main"] = "timeout"

=============================================================================
