------------------------------- MODULE EthFifo ------------------------------
(***************************************************************************)
(* What the receiver promises the stack: frames come out in the order they *)
(* came in, each at most once and as it was.  One may be lost on the way,  *)
(* but none is refused while fewer than Capacity are waiting.              *)
(***************************************************************************)
EXTENDS Naturals, Sequences

CONSTANT Capacity   \* frames the receiver always has room for

VARIABLES
  arrived,    \* frames so far; they are numbered in the order they arrive
  fifo,       \* the frames waiting
  delivered   \* the frames handed over

vars == << arrived, fifo, delivered >>

Init == arrived = 0 /\ fifo = << >> /\ delivered = << >>

Arrive ==
  /\ arrived' = arrived + 1
  /\ \/ fifo' = Append(fifo, arrived + 1)
     \/ Len(fifo) >= Capacity /\ UNCHANGED fifo
  /\ UNCHANGED delivered

Deliver ==
  /\ fifo # << >>
  /\ fifo' = Tail(fifo)
  /\ delivered' = Append(delivered, Head(fifo))
  /\ UNCHANGED arrived

Lose ==
  /\ fifo # << >>
  /\ fifo' = Tail(fifo)
  /\ UNCHANGED << arrived, delivered >>

Next == Arrive \/ Deliver \/ Lose

Spec == Init /\ [][Next]_vars

=============================================================================
