---------------------------- MODULE LaneService ----------------------------
(***************************************************************************)
(* What the command queue promises its callers, without task ids,          *)
(* generations or pumps (the public contract of                            *)
(* src/src/process/command-queue.ts): a lane serves its line in order, it  *)
(* starts a command only when there is room, a reset abandons the commands *)
(* being served and nobody else, and a command settles once.               *)
(*                                                                         *)
(* CommandQueue implements this specification; see LaneView there.         *)
(***************************************************************************)
EXTENDS Integers, Sequences, FiniteSets

CONSTANTS Lanes, Tasks, LaneOf

VARIABLES
    line,       \* [Lanes -> Seq(Tasks)]: who waits, in order
    capacity,   \* [Lanes -> Nat]
    status      \* [Tasks -> Statuses]

serviceVars == <<line, capacity, status>>

Statuses == {"new", "waiting", "served", "abandoned", "settled"}

Served(st, l) == {t \in Tasks : LaneOf[t] = l /\ st[t] = "served"}

ServiceInit ==
    /\ line = [l \in Lanes |-> <<>>]
    /\ capacity = [l \in Lanes |-> 1]
    /\ status = [t \in Tasks |-> "new"]

Front(q, n) == {q[i] : i \in 1..n}

\* The lanes of R serve as many from the front of their lines as they like, up
\* to their capacity; q and st are lines and statuses before that.
Serve(R, q, st) ==
    \E n \in [R -> 0..Cardinality(Tasks)] :
        /\ \A l \in R :
              /\ n[l] <= Len(q[l])
              /\ n[l] > 0 => Cardinality(Served(st, l)) + n[l] <= capacity'[l]
        /\ line' = [l \in Lanes |-> IF l \in R THEN SubSeq(q[l], n[l] + 1, Len(q[l]))
                                    ELSE q[l]]
        /\ status' = [t \in Tasks |->
                IF \E l \in R : t \in Front(q[l], n[l]) THEN "served" ELSE st[t]]

Submit(t) ==
    /\ status[t] = "new"
    /\ UNCHANGED capacity
    /\ Serve({LaneOf[t]}, [line EXCEPT ![LaneOf[t]] = Append(@, t)],
             [status EXCEPT ![t] = "waiting"])

\* A command that is not admitted, or whose service was abandoned, settles
\* without a place in the lane.
SettleOutside(t) ==
    /\ status[t] \in {"new", "abandoned"}
    /\ status' = [status EXCEPT ![t] = "settled"]
    /\ UNCHANGED <<line, capacity>>

Settle(t) ==
    /\ status[t] = "served"
    /\ UNCHANGED capacity
    /\ Serve({LaneOf[t]}, line, [status EXCEPT ![t] = "settled"])

\* The whole line is turned away; those being served stay.
Dismiss(l) ==
    /\ status' = [t \in Tasks |-> IF LaneOf[t] = l /\ status[t] = "waiting"
                                  THEN "settled" ELSE status[t]]
    /\ line' = [line EXCEPT ![l] = <<>>]
    /\ UNCHANGED capacity

Abandon(R) ==
    /\ UNCHANGED capacity
    /\ Serve(R, line, [t \in Tasks |-> IF LaneOf[t] \in R /\ status[t] = "served"
                                       THEN "abandoned" ELSE status[t]])

Resize(l) ==
    /\ capacity'[l] \in Nat
    /\ capacity' = [capacity EXCEPT ![l] = capacity'[l]]
    /\ Serve({l}, line, status)

ServiceNext ==
    \/ \E t \in Tasks : Submit(t) \/ SettleOutside(t) \/ Settle(t)
    \/ \E l \in Lanes : Dismiss(l) \/ Resize(l)
    \/ \E R \in SUBSET Lanes : Abandon(R)

ServiceSpec == ServiceInit /\ [][ServiceNext]_serviceVars
=============================================================================
