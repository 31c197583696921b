---------------------------- MODULE SysTimeouts -----------------------------
(***************************************************************************)
(* lwIP's timers, src/at32f4xx/lwip-2.1.2/src/core/timeouts.c, as the port *)
(* builds them: NO_SYS 1, so that the main loop calls sys_check_timeouts   *)
(* and every handler runs inside that call; assertions on, so that a timer *)
(* the pool has no room for ends the program.                              *)
(*                                                                         *)
(* The clock and the times in the list are modulo W, 2^32 in the code.     *)
(* Comparing them is right only while no two of them are W / 2 apart: a    *)
(* delay is at most W / 4, and the main loop leaves no timer waiting for   *)
(* longer than Late.                                                       *)
(***************************************************************************)
EXTENDS Integers, Sequences, SequencesExt

CONSTANTS
  W,              \* values of u32_t
  Late,           \* how late sys_check_timeouts may be
  CyclicTimers,   \* lwip_cyclic_timers without its TCP entry: [id, interval_ms]
  TcpInterval,    \* TCP_TMR_INTERVAL
  Shots,          \* one-shot timers: a handler and its argument
  Delays,         \* what they are set to
  PoolSize        \* MEMP_NUM_SYS_TIMEOUT

Cyclic == {CyclicTimers[i].id : i \in DOMAIN CyclicTimers}
Interval(c) == CyclicTimers[CHOOSE i \in DOMAIN CyclicTimers : CyclicTimers[i].id = c].interval_ms
Id == Cyclic \cup Shots \cup {"tcp"}
AllDelays == {Interval(c) : c \in Cyclic} \cup Delays \cup {TcpInterval}

ASSUME TimeoutsAssumption ==
  /\ W \in Nat /\ W % 4 = 0 /\ PoolSize \in Nat /\ Late \in Nat
  /\ CyclicTimers \in Seq([id : Cyclic, interval_ms : Nat])
  /\ \A i, j \in DOMAIN CyclicTimers : CyclicTimers[i].id = CyclicTimers[j].id => i = j
  /\ Cyclic \cap Shots = {} /\ "tcp" \notin Cyclic \cup Shots /\ "none" \notin Id
  /\ AllDelays \subseteq 0 .. W \div 4
  /\ Late + W \div 4 < W \div 2
  /\ Len(CyclicTimers) <= PoolSize

VARIABLES
  now,       \* sys_now()
  list,      \* next_timeout: [id, time]
  pc,        \* in sys_timeouts_init ("init"), "idle", in sys_check_timeouts ("check"), in a handler ("run"), "abort"
  started,   \* now of sys_check_timeouts
  running,   \* the timer whose handler runs; its time is current_timeout_due_time
  active,    \* tcpip_tcp_timer_active
  pcbs       \* tcp_active_pcbs or tcp_tw_pcbs has an entry

vars == << now, list, pc, started, running, active, pcbs >>

Nobody == [id |-> "none", time |-> 0]

-----------------------------------------------------------------------------
TIME_LESS_THAN(t, c) == (t - c) % W > W \div 2 - 1

\* sys_timeout_abs puts a timer in front of the first that is due later.
Insert(l, e) ==
  LET later == {i \in DOMAIN l : TIME_LESS_THAN(e.time, l[i].time)}
      at == IF later = {} THEN Len(l) + 1 ELSE CHOOSE i \in later : \A j \in later : i <= j
  IN  InsertAt(l, at, e)

\* sys_timeout_abs, and where the caller goes on; a full pool is an assertion.
Add(id, time, next) ==
  IF Len(list) = PoolSize
  THEN pc' = "abort" /\ UNCHANGED list
  ELSE pc' = next /\ list' = Insert(list, [id |-> id, time |-> time % W])

\* The application, and every handler, may set and remove timers.
MaySet == pc \in {"idle", "run"}

SysTimeout(s, d) ==
  /\ MaySet
  /\ Add(s, now + d, pc)
  /\ UNCHANGED << now, started, running, active, pcbs >>

SysUntimeout(s) ==
  /\ MaySet
  /\ \E i \in DOMAIN list :
       /\ list[i].id = s
       /\ \A j \in 1 .. i - 1 : list[j].id # s
       /\ list' = RemoveAt(list, i)
  /\ UNCHANGED << now, pc, started, running, active, pcbs >>

\* TCP_REG: a control block is registered, and tcp_timer_needed.
TcpReg ==
  /\ MaySet
  /\ pcbs' = TRUE
  /\ active' = TRUE
  /\ IF active THEN UNCHANGED << list, pc >> ELSE Add("tcp", now + TcpInterval, pc)
  /\ UNCHANGED << now, started, running >>

\* The last control block is removed.
TcpRmv ==
  /\ MaySet /\ pcbs
  /\ pcbs' = FALSE
  /\ UNCHANGED << now, list, pc, started, running, active >>

-----------------------------------------------------------------------------
\* One round of the loop of sys_timeouts_init; the list holds what was set so far.
InitCyclic ==
  /\ pc = "init" /\ Len(list) < Len(CyclicTimers)
  /\ LET cyclic == CyclicTimers[Len(list) + 1]
     IN  Add(cyclic.id, now + cyclic.interval_ms, "init")
  /\ UNCHANGED << now, started, running, active, pcbs >>

InitEnd ==
  /\ pc = "init" /\ Len(list) = Len(CyclicTimers)
  /\ pc' = "idle"
  /\ UNCHANGED << now, list, started, running, active, pcbs >>

CheckBegin ==
  /\ pc = "idle"
  /\ pc' = "check" /\ started' = now
  /\ UNCHANGED << now, list, running, active, pcbs >>

Expired == list # << >> /\ ~TIME_LESS_THAN(started, Head(list).time)

\* Mutant: next_timeout is not moved on to the next timer.
CheckPopStays ==
  /\ pc = "check" /\ Expired
  /\ running' = Head(list)
  /\ pc' = "run"
  /\ UNCHANGED << now, list, started, active, pcbs >>

\* The timer leaves the list and its entry goes back to the pool.
CheckPop ==
  /\ pc = "check" /\ Expired
  /\ list' = Tail(list) /\ running' = Head(list)
  /\ pc' = "run"
  /\ UNCHANGED << now, started, active, pcbs >>

CheckEnd ==
  /\ pc = "check" /\ ~Expired
  /\ pc' = "idle" /\ started' = 0
  /\ UNCHANGED << now, list, running, active, pcbs >>

\* A one-shot handler returns.
ShotEnd ==
  /\ pc = "run" /\ running.id \in Shots
  /\ pc' = "check" /\ running' = Nobody
  /\ UNCHANGED << now, list, started, active, pcbs >>

\* Mutant: an overloaded timer is set in the past.
CyclicEndInThePast ==
  /\ pc = "run" /\ running.id \in Cyclic
  /\ Add(running.id, running.time + Interval(running.id), "check")
  /\ running' = Nobody
  /\ UNCHANGED << now, started, active, pcbs >>

\* lwip_cyclic_timer, after cyclic->handler().
CyclicEnd ==
  /\ pc = "run" /\ running.id \in Cyclic
  /\ LET interval == Interval(running.id)
         next == (running.time + interval) % W
     IN  Add(running.id, IF TIME_LESS_THAN(next, now) THEN now + interval ELSE next, "check")
  /\ running' = Nobody
  /\ UNCHANGED << now, started, active, pcbs >>

\* Mutant: the timer is not marked as stopped.
TcpEndStaysActive ==
  /\ pc = "run" /\ running.id = "tcp"
  /\ IF pcbs THEN Add("tcp", now + TcpInterval, "check") ELSE pc' = "check" /\ UNCHANGED list
  /\ running' = Nobody
  /\ UNCHANGED << now, started, active, pcbs >>

\* tcpip_tcp_timer, after tcp_tmr().
TcpEnd ==
  /\ pc = "run" /\ running.id = "tcp"
  /\ active' = pcbs
  /\ IF pcbs THEN Add("tcp", now + TcpInterval, "check") ELSE pc' = "check" /\ UNCHANGED list
  /\ running' = Nobody
  /\ UNCHANGED << now, started, pcbs >>

\* The application slept for any length of time, and calls sys_restart_timeouts.
SysRestartTimeouts ==
  /\ pc = "idle" /\ list # << >>
  /\ now' \in 0 .. W - 1
  /\ list' = [i \in DOMAIN list |->
                [list[i] EXCEPT !.time = (@ - Head(list).time + now') % W]]
  /\ UNCHANGED << pc, started, running, active, pcbs >>

-----------------------------------------------------------------------------
\* A millisecond, while no timer in the list or being run is Late already.
Tick ==
  /\ pc # "abort"
  /\ \A i \in DOMAIN list : (now - list[i].time) % W # Late
  /\ running # Nobody => (now - running.time) % W # Late
  /\ now' = (now + 1) % W
  /\ UNCHANGED << list, pc, started, running, active, pcbs >>

\* sys_timeouts_init begins, at any reading of the clock.
Init ==
  /\ now \in 0 .. W - 1
  /\ list = << >> /\ pc = "init" /\ started = 0 /\ running = Nobody
  /\ active = FALSE /\ pcbs = FALSE

Next ==
  \/ \E s \in Shots, d \in Delays : SysTimeout(s, d)
  \/ \E s \in Shots : SysUntimeout(s)
  \/ TcpReg \/ TcpRmv
  \/ InitCyclic \/ InitEnd
  \/ CheckBegin \/ CheckPop \/ CheckEnd
  \/ ShotEnd \/ CyclicEnd \/ TcpEnd
  \/ SysRestartTimeouts \/ Tick

Spec == Init /\ [][Next]_vars

\* The program goes on, a handler returns, and the clock runs on.
Fairness ==
  WF_vars(CheckPop \/ CheckEnd) /\ WF_vars(ShotEnd \/ CyclicEnd \/ TcpEnd) /\ WF_vars(Tick)

FairSpec == Spec /\ Fairness

-----------------------------------------------------------------------------
(* Properties.                                                               *)

Time  == 0 .. W - 1
Entry == [id : Id, time : Time]

TypeOK ==
  /\ now \in Time /\ started \in Time
  /\ list \in Seq(Entry)
  /\ pc \in {"init", "idle", "check", "run", "abort"}
  /\ running \in Entry \cup {Nobody}
  /\ active \in BOOLEAN /\ pcbs \in BOOLEAN

\* How far the time t lies ahead of c, below 0 if it lies behind.
Ahead(c, t) == LET d == (t - c) % W IN IF d < W \div 2 THEN d ELSE d - W

Pending(l, c) == [i \in DOMAIN l |-> [id |-> l[i].id, rel |-> Ahead(c, l[i].time)]]

\* The list, whose times wrap round, is a list of timers in time that does not:
\* nothing fires early, the first due is the first to fire, and a cyclic timer
\* that is overloaded is not set in the past.
Abstract == INSTANCE Timers WITH MaxDelay <- W \div 4, pending <- Pending(list, now)
InDueOrder == Abstract!Spec

Held(t) == {i \in DOMAIN list : list[i].id = t}

\* No cyclic timer is ever lost or doubled by what the handlers do once
\* sys_timeouts_init has set it, and the TCP timer is in the list, or being run,
\* exactly when it is marked as active.
TimersKept ==
  pc \notin {"init", "abort"} =>
    \A t \in Cyclic \cup {"tcp"} :
      IF running.id = t \/ (t = "tcp" /\ ~active) THEN Held(t) = {}
      ELSE Cardinality(Held(t)) = 1

\* With running handlers setting timers, of 0 ms too, and taking time,
\* sys_check_timeouts comes back: the clock runs away from what they set.
CheckReturns == pc \in {"check", "run"} ~> pc \in {"idle", "abort"}

=============================================================================
