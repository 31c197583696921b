------------------------------ MODULE MCHyTime ------------------------------
(***************************************************************************)
(* HyTime with two blocks and two timers: the one that has an interrupt and*)
(* one that has none.                                                      *)
(***************************************************************************)
EXTENDS HyTime

CONSTANTS h1, h2

MCHandle == {h1, h2}
MCNum    == {2, 3}
MCHyTime2 == 2
=============================================================================
