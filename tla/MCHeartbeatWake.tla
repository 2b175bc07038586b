-------------------------- MODULE MCHeartbeatWake --------------------------
(* Instances of HeartbeatWake for TLC. *)
EXTENDS HeartbeatWake

\* An interval wake and an action.
TwoPriorities == {1, 3}
=============================================================================
