--------------------------- MODULE MCCommandQueue ---------------------------
(* Instance of CommandQueue for TLC. *)
EXTENDS CommandQueue

CONSTANTS l1

OneLane == [t \in Tasks |-> l1]
=============================================================================
