----------------------------- MODULE MCHcFlash -----------------------------
(***************************************************************************)
(* HcFlash with loops of two retries: a write is robbed once and repeated, *)
(* or robbed until the loop gives up.                                      *)
(***************************************************************************)
EXTENDS HcFlash

=============================================================================
