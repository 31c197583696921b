----------------------------- MODULE MCHySystem -----------------------------
(***************************************************************************)
(* HySystem with two blocks and a counter of four values: delays below, at *)
(* and above its range, and of several steps of two cycles.                *)
(***************************************************************************)
EXTENDS HySystem

CONSTANTS h1, h2

=============================================================================
