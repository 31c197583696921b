------------------------------ MODULE MCHcRtc ------------------------------
(***************************************************************************)
(* HcRtc with two registers of two values and time-outs of three polls:  *)
(* a carry between the registers, WAITF in time, on the last poll and late. *)
(***************************************************************************)
EXTENDS HcRtc

=============================================================================
