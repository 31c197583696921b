------------------------------ MODULE MCHyUart ------------------------------
(***************************************************************************)
(* HyUart with two blocks, so that a context can be created while another  *)
(* is registered, and three creations.  Five bytes fill DR, overrun it and *)
(* end the spin that follows, before and after a context is destroyed.     *)
(***************************************************************************)
EXTENDS HyUart

CONSTANTS h1, h2

=============================================================================
