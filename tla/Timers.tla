------------------------------- MODULE Timers -------------------------------
(***************************************************************************)
(* What a list of timers promises, with time that never wraps round: every *)
(* timer has the time it still has to wait, below 0 once it is late, and   *)
(* the timer taken is always the one due first; of two due together, the   *)
(* one that was set first.                                                 *)
(***************************************************************************)
EXTENDS Integers, Sequences, SequencesExt

CONSTANTS
  Id,        \* who a timer is for
  MaxDelay   \* the longest delay

VARIABLE pending   \* [id, rel] in the order in which they are due

Init == pending = << >>

Tick == pending' = [i \in DOMAIN pending |-> [pending[i] EXCEPT !.rel = @ - 1]]

\* A timer goes behind the ones due no later than it is.
Set(t) ==
  \E k \in 1 .. Len(pending) + 1 :
    /\ \A j \in DOMAIN pending : pending[j].rel <= t.rel <=> j < k
    /\ pending' = InsertAt(pending, k, t)

\* The list grows by some timer.
SetSome ==
  /\ Len(pending') = Len(pending) + 1
  /\ \E t \in [id : Id, rel : 0 .. MaxDelay] : Set(t)

\* The timer of t's that is due first is taken back.
Cancel(t) ==
  \E i \in DOMAIN pending :
    /\ pending[i].id = t
    /\ \A j \in 1 .. i - 1 : pending[j].id # t
    /\ pending' = RemoveAt(pending, i)

Fire ==
  /\ pending # << >>
  /\ Head(pending).rel <= 0
  /\ pending' = Tail(pending)

\* The time that has passed is forgotten: the first timer is due now.
Rebase ==
  /\ pending # << >>
  /\ pending' = [i \in DOMAIN pending |-> [pending[i] EXCEPT !.rel = @ - pending[1].rel]]

Next ==
  \/ Tick
  \/ SetSome
  \/ \E t \in Id : Cancel(t)
  \/ Fire
  \/ Rebase

Spec == Init /\ [][Next]_pending

=============================================================================
