------------------------------- MODULE MCPqc --------------------------------
(* One policy between two gateways, each of which may restart once. *)
EXTENDS Pqc, TLC
=============================================================================
