----------------------------- MODULE MCHyUartTx -----------------------------
(***************************************************************************)
(* HyUartTx with a poll loop of three and a buffer of at most four bytes.  *)
(***************************************************************************)
EXTENDS HyUartTx

=============================================================================
