----------------------------- MODULE MCHcClock -----------------------------
(***************************************************************************)
(* HcClock with RCH, XTH and the PLL: two references, a crystal that may   *)
(* not start, two trims on either side of what a multiplier of 3 allows.   *)
(***************************************************************************)
EXTENDS HcClock

MCFreq == [s \in {"XTH"} |-> 8]

=============================================================================
