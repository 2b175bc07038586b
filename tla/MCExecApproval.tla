--------------------------- MODULE MCExecApproval ---------------------------
(* Instances of ExecApproval for TLC. *)
EXTENDS ExecApproval

\* Every prefix is one of every id.
AllMatch == [p \in Prefixes |-> Ids]
=============================================================================
