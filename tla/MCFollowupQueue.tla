-------------------------- MODULE MCFollowupQueue --------------------------
(* Instances of FollowupQueue for TLC. *)
EXTENDS FollowupQueue

CONSTANTS m1, m2, m3

\* The second message came over another channel; the first is the owner's.
TwoRoutes == [m \in Messages |-> IF m = m2 THEN "b" ELSE "a"]
TwoSenders == [m \in Messages |-> IF m = m1 THEN "owner" ELSE "guest"]

Setting(mode, dropPolicy, cap) == [mode |-> mode, dropPolicy |-> dropPolicy, cap |-> cap]
CollectAndFollowup ==
    {Setting("collect", "new", 2), Setting("collect", "summarize", 2),
     Setting("followup", "summarize", 1)}
FollowupSummarize == {Setting("followup", "summarize", 1)}
=============================================================================
