------------------------------ MODULE MCEthTx ------------------------------
(***************************************************************************)
(* EthTx with three descriptors: the ring wraps, fills and is overrun.     *)
(***************************************************************************)
EXTENDS EthTx

=============================================================================
