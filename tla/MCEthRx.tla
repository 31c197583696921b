------------------------------ MODULE MCEthRx ------------------------------
(***************************************************************************)
(* EthRx with three descriptors and a pool of three pbufs: the ring wraps  *)
(* and fills, and a large frame can find the pool exhausted.               *)
(***************************************************************************)
EXTENDS EthRx

=============================================================================
