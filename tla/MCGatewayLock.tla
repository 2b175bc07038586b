--------------------------- MODULE MCGatewayLock ---------------------------
(* Instances of GatewayLock for TLC. *)
EXTENDS GatewayLock, TLC

\* The processes are interchangeable.
Symmetry == Permutations(Procs)
=============================================================================
