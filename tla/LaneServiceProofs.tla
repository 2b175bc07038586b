------------------------- MODULE LaneServiceProofs -------------------------
(***************************************************************************)
(* The command queue implements the contract of LaneService, for any       *)
(* lanes, entries, limits, waiters and number of resets: each of its steps *)
(* is a step of ServiceNext or a stutter under the mapping LaneView.       *)
(***************************************************************************)
EXTENDS CommandQueueProofs

\* A pending entry's task function has not ended: the step in which it ends settles
\* the promise too (runQueueEntryTask).
PendingNotEnded == \A t \in Tasks : promise[t] = "pending" => body[t] # "ended"

ServiceInv == IInv /\ PendingNotEnded

\* Entries that a drain does not start have the bodies the handler left them with.
LEMMA DrainedBodies ==
    ASSUME NEW D, NEW q, NEW act, NEW limit, NEW gen, NEW bodies,
           Drain(D, q, act, limit, gen, bodies),
           \A t \in Tasks : promise'[t] = "pending" => bodies[t] # "ended"
    PROVE  PendingNotEnded'
BY DEF Drain, PendingNotEnded

\* Completions end the body and settle the promise together.
LEMMA FinishKeepsPending ==
    ASSUME TypeOK, PendingNotEnded, NEW t \in Tasks, NEW outcome \in Settled, NEW bodies,
           \A u \in Tasks \ {t} : bodies[u] = body[u],
           FinishEntry(t, outcome, bodies)
    PROVE  PendingNotEnded'
<1>1. \A u \in Tasks : promise'[u] = "pending" => bodies[u] # "ended"
  BY DEF FinishEntry, TypeOK, PendingNotEnded, Settled
<1>2. CASE taskGeneration[t] = generation[LaneOf[t]]
  <2>1. Drain({LaneOf[t]}, queue, CompletedActive(t), maxConcurrent, generation, bodies)
    BY <1>2 DEF FinishEntry
  <2> QED
    BY <1>1, <2>1, DrainedBodies
<1>3. CASE taskGeneration[t] # generation[LaneOf[t]]
  BY <1>1, <1>3 DEF FinishEntry, PendingNotEnded
<1> QED
  BY <1>2, <1>3

\* Every handler of the command queue keeps PendingNotEnded.
LEMMA NextKeepsPending == IInv /\ PendingNotEnded /\ [Next]_vars => PendingNotEnded'
<1> SUFFICES ASSUME IInv, PendingNotEnded, [Next]_vars PROVE PendingNotEnded'
  OBVIOUS
<1>0. TypeOK /\ GenerationsBounded
  BY DEF IInv, LaneInv
<1>1. ASSUME NEW t \in Tasks, EnqueueCommandInLane(t) PROVE PendingNotEnded'
  <2>1. /\ promise' = [promise EXCEPT ![t] = "pending"] /\ promise[t] = "none"
        /\ Drain({LaneOf[t]}, [queue EXCEPT ![LaneOf[t]] = Append(@, t)], active,
                 maxConcurrent, generation, body)
    BY <1>1 DEF EnqueueCommandInLane
  <2>2. \A u \in Tasks : promise'[u] = "pending" => body[u] # "ended"
    BY <1>0, <2>1 DEF TypeOK, GenerationsBounded, PendingNotEnded
  <2> QED
    BY <2>1, <2>2, DrainedBodies
<1>2. ASSUME NEW t \in Tasks, RefuseCommand(t) PROVE PendingNotEnded'
  BY <1>0, <1>2 DEF RefuseCommand, TypeOK, PendingNotEnded
<1>3. ASSUME NEW t \in Tasks, TaskSettles(t) PROVE PendingNotEnded'
  <2>1. PICK outcome \in {"resolved", "rejected"} :
            FinishEntry(t, outcome, [body EXCEPT ![t] = "ended"])
    BY <1>3 DEF TaskSettles
  <2>2. outcome \in Settled
    BY DEF Settled, PromiseStates
  <2>3. \A u \in Tasks \ {t} : [body EXCEPT ![t] = "ended"][u] = body[u]
    BY <1>0 DEF TypeOK
  <2> QED
    BY <1>0, <2>1, <2>2, <2>3, FinishKeepsPending
<1>4. ASSUME NEW t \in Tasks, TaskTimesOut(t) PROVE PendingNotEnded'
  <2>1. FinishEntry(t, "timedOut", body) /\ "timedOut" \in Settled
    BY <1>4 DEF TaskTimesOut, Settled, PromiseStates
  <2> QED
    BY <1>0, <2>1, FinishKeepsPending
<1>5. ASSUME NEW t \in Tasks, LateSettle(t) PROVE PendingNotEnded'
  BY <1>0, <1>5 DEF LateSettle, TypeOK, PendingNotEnded
<1>6. ASSUME NEW l \in Lanes, NEW n \in -1..MaxLimit, SetCommandLaneConcurrency(l, n)
      PROVE  PendingNotEnded'
  <2>1. promise' = promise
    BY <1>6 DEF SetCommandLaneConcurrency
  <2> QED
    BY <1>6, <2>1, DrainedBodies DEF SetCommandLaneConcurrency, PendingNotEnded
<1>7. ASSUME NEW l \in Lanes, ClearCommandLane(l) PROVE PendingNotEnded'
  BY <1>0, <1>7 DEF ClearCommandLane, PendingNotEnded
<1>8. ASSUME NEW R, ResetLanes(R) PROVE PendingNotEnded'
  <2>1. promise' = promise
    BY <1>8 DEF ResetLanes
  <2> QED
    BY <1>8, <2>1, DrainedBodies DEF ResetLanes, PendingNotEnded
<1>9. ASSUME \/ \E l \in Lanes : ResetCommandLane(l)
             \/ ResetAllLanes
      PROVE  PendingNotEnded'
  BY <1>8, <1>9 DEF ResetCommandLane, ResetAllLanes
<1>10. ASSUME \/ MarkGatewayDraining
              \/ \E w \in Waiters, p \in BOOLEAN : WaitForActiveTasks(w, p)
              \/ \E w \in Waiters : WaiterTimesOut(w)
              \/ UNCHANGED vars
       PROVE  PendingNotEnded'
  BY <1>10 DEF MarkGatewayDraining, WaitForActiveTasks, WaiterTimesOut, vars, taskVars,
               PendingNotEnded
<1> QED
  BY <1>1, <1>2, <1>3, <1>4, <1>5, <1>6, <1>7, <1>9, <1>10 DEF Next

\* The invariant the refinement rests on.
LEMMA ServiceInductive == Spec => []ServiceInv
<1>1. Init => PendingNotEnded
  BY DEF Init, PendingNotEnded
<1> QED
  BY <1>1, NextKeepsPending, Inductive, PTL DEF Spec, ServiceInv

-----------------------------------------------------------------------------
(* The status of an entry for its caller. *)

View == [t \in Tasks |-> StatusOf(t)]

\* The cases of StatusOf, before and after a step.
LEMMA StatusCases ==
    ASSUME ServiceInv, NEW t \in Tasks
    PROVE  /\ promise[t] = "none" => StatusOf(t) = "new"
           /\ promise[t] \in Settled => StatusOf(t) = "settled"
           /\ promise[t] = "pending" =>
                 /\ body[t] \in {"idle", "running"}
                 /\ body[t] = "idle" => StatusOf(t) = "waiting"
                 /\ body[t] = "running" /\ taskGeneration[t] = generation[LaneOf[t]]
                       => StatusOf(t) = "served"
                 /\ body[t] = "running" /\ taskGeneration[t] # generation[LaneOf[t]]
                       => StatusOf(t) = "abandoned"
           /\ promise[t] \in {"none", "pending"} \cup Settled
<1>1. promise[t] \in PromiseStates /\ body[t] \in {"idle", "running", "ended"}
  BY DEF ServiceInv, IInv, TypeOK
<1>2. promise[t] = "pending" => body[t] # "ended"
  BY DEF ServiceInv, PendingNotEnded
<1> QED
  BY <1>1, <1>2 DEF StatusOf, Settled, PromiseStates

\* The same cases in the next state.
LEMMA StatusCasesNext ==
    ASSUME ServiceInv', NEW t \in Tasks
    PROVE  /\ promise'[t] = "none" => StatusOf(t)' = "new"
           /\ promise'[t] \in Settled => StatusOf(t)' = "settled"
           /\ promise'[t] = "pending" =>
                 /\ body'[t] \in {"idle", "running"}
                 /\ body'[t] = "idle" => StatusOf(t)' = "waiting"
                 /\ body'[t] = "running" /\ taskGeneration'[t] = generation'[LaneOf[t]]
                       => StatusOf(t)' = "served"
                 /\ body'[t] = "running" /\ taskGeneration'[t] # generation'[LaneOf[t]]
                       => StatusOf(t)' = "abandoned"
           /\ promise'[t] \in {"none", "pending"} \cup Settled
<1>1. promise'[t] \in PromiseStates /\ body'[t] \in {"idle", "running", "ended"}
  BY DEF ServiceInv, IInv, TypeOK
<1>2. promise'[t] = "pending" => body'[t] # "ended"
  BY DEF ServiceInv, PendingNotEnded
<1> QED
  BY <1>1, <1>2 DEF StatusOf, Settled, PromiseStates

\* The entries a lane serves are its active ones, those that wait its queued ones.
LEMMA ServedAreActive ==
    ASSUME ServiceInv, NEW l \in Lanes
    PROVE  /\ active[l] = {t \in Tasks : LaneOf[t] = l /\ StatusOf(t) = "served"}
           /\ QueuedIn(l) = {t \in Tasks : LaneOf[t] = l /\ StatusOf(t) = "waiting"}
<1>1. active[l] = {t \in Tasks : /\ LaneOf[t] = l
                                 /\ promise[t] = "pending"
                                 /\ body[t] = "running"
                                 /\ taskGeneration[t] = generation[l]}
  BY DEF ServiceInv, IInv, LaneInv, SlotsMatchRunningEntries
<1>2. QueuedIn(l) = {t \in Tasks : /\ LaneOf[t] = l
                                   /\ promise[t] = "pending"
                                   /\ body[t] = "idle"}
  BY DEF ServiceInv, IInv, LaneInv, EntriesQueuedOnce
<1>3. ASSUME NEW t \in Tasks, LaneOf[t] = l
      PROVE  /\ StatusOf(t) = "served" <=> /\ promise[t] = "pending"
                                           /\ body[t] = "running"
                                           /\ taskGeneration[t] = generation[l]
             /\ StatusOf(t) = "waiting" <=> promise[t] = "pending" /\ body[t] = "idle"
  BY <1>3, StatusCases
<1> QED
  BY <1>1, <1>2, <1>3

-----------------------------------------------------------------------------
(* A drain serves from the front of the lines. *)

\* A lane cannot hold more entries than there are.
LEMMA QueueLength ==
    ASSUME NEW q \in Seq(Tasks), Distinct(q)
    PROVE  Len(q) \in 0..Cardinality(Tasks)
<1> DEFINE S == {q[i] : i \in 1..Len(q)}
<1>1. Len(q) \in Nat /\ Len(q) \in 0..Len(q) /\ \A i \in 1..Len(q) : q[i] \in Tasks
  BY LenProperties, ElementOfSeq
<1>2. Cardinality(S) = Len(q)
  BY <1>1, PrefixCardinality
<1>3. S \subseteq Tasks
  BY <1>1
<1> HIDE DEF S
<1>4. Cardinality(Tasks) \in Nat /\ Cardinality(S) <= Cardinality(Tasks)
  BY <1>3, CommandQueueAssumption, FS_Subset, FS_CardinalityType
<1> QED
  BY <1>1, <1>2, <1>4

\* LaneService counts as CommandQueue does.
LEMMA SameCardinality ==
    ASSUME NEW S
    PROVE  LaneView!Cardinality(S) = Cardinality(S)
BY DEF LaneView!Cardinality, Cardinality

\* The entries a lane serves under the statuses st, and that a step makes the entries
\* of St served ones and leaves the others as st has them.
Held(st, l) == {t \in Tasks : LaneOf[t] = l /\ st[t] = "served"}

ServesOnly(St, st) ==
    \A t \in Tasks : StatusOf(t)' = IF t \in St THEN "served" ELSE st[t]

\* drainLane on the lanes D is a Serve step of any lanes R around them, when the
\* handler left the entries with the statuses st.
LEMMA DrainServes ==
    ASSUME NEW R \in SUBSET Lanes, NEW D \in SUBSET R, NEW q, NEW act, Drainable(q, act),
           NEW limit \in [Lanes -> Nat], maxConcurrent' = limit,
           NEW gen, NEW bodies, Drain(D, q, act, limit, gen, bodies),
           NEW st,
           \A l \in D : act[l] = Held(st, l),
           ServesOnly(Started(D, q, act, limit), st)
    PROVE  LaneView!Serve(R, q, st)
<1> DEFINE n == [l \in R |-> IF l \in D THEN PumpCount(q[l], act[l], limit[l]) ELSE 0]
<1>1. \A l \in Lanes : /\ q[l] \in Seq(Tasks) /\ act[l] \in SUBSET Tasks /\ limit[l] \in Nat
                       /\ Distinct(q[l])
  BY DEF Drainable
<1>2. \A l \in Lanes : /\ PumpCount(q[l], act[l], limit[l]) \in 0..Len(q[l])
                       /\ Cardinality(act[l]) \in Nat
                       /\ Len(q[l]) \in 0..Cardinality(Tasks)
  BY <1>1, PumpCountRange, QueueLength
<1>3. Cardinality(Tasks) \in Nat
  BY CommandQueueAssumption, FS_CardinalityType
<1>4. \A l \in R : n[l] \in 0..Len(q[l]) /\ n[l] \in 0..Cardinality(Tasks)
  <2> TAKE l \in R
  <2>1. l \in Lanes
    OBVIOUS
  <2> QED
    BY <1>2, <1>3, <2>1
<1>5. n \in [R -> 0..Cardinality(Tasks)]
  BY <1>4
<1>6. \A l \in R : n[l] <= Len(q[l])
  BY <1>2, <1>4
<1>7. ASSUME NEW l \in R, n[l] > 0
      PROVE  Cardinality(Held(st, l)) + n[l] <= maxConcurrent'[l]
  <2>1. l \in D /\ n[l] = PumpCount(q[l], act[l], limit[l])
    BY <1>7
  <2>2. Cardinality(act[l]) + PumpCount(q[l], act[l], limit[l]) <= limit[l]
    BY <1>1, <1>2, <1>7, <2>1 DEF PumpCount
  <2> QED
    BY <2>1, <2>2
<1>8. queue' = [l \in Lanes |-> IF l \in R THEN SubSeq(q[l], n[l] + 1, Len(q[l])) ELSE q[l]]
  <2>1. queue' = [l \in Lanes |-> IF l \in D THEN PumpedQueue(q[l], act[l], limit[l])
                                  ELSE q[l]]
    BY DEF Drain
  <2>2. ASSUME NEW l \in D
        PROVE  PumpedQueue(q[l], act[l], limit[l]) = SubSeq(q[l], n[l] + 1, Len(q[l]))
    BY DEF PumpedQueue
  <2>3. ASSUME NEW l \in R \ D PROVE q[l] = SubSeq(q[l], n[l] + 1, Len(q[l]))
    <3>1. n[l] = 0 /\ q[l] \in Seq(Tasks)
      BY <1>1
    <3>2. SubSeq(q[l], 1, Len(q[l])) = q[l]
      BY <3>1, SubSeqFull
    <3> QED
      BY <3>1, <3>2
  <2> HIDE DEF n
  <2> QED
    BY <2>1, <2>2, <2>3
<1>9. \A t \in Tasks : t \in Started(D, q, act, limit)
                          <=> \E l \in R : t \in {q[l][i] : i \in 1..n[l]}
  <2>1. \A l \in D : {q[l][i] : i \in 1..n[l]} = PumpedTasks(q[l], act[l], limit[l])
    BY DEF PumpedTasks
  <2>2. \A l \in R \ D : {q[l][i] : i \in 1..n[l]} = {}
    OBVIOUS
  <2> HIDE DEF n
  <2>3. Started(D, q, act, limit) = UNION {PumpedTasks(q[l], act[l], limit[l]) : l \in D}
    BY DEF Started
  <2>4. ASSUME NEW t \in Started(D, q, act, limit)
        PROVE  \E l \in R : t \in {q[l][i] : i \in 1..n[l]}
    BY <2>1, <2>3
  <2>5. ASSUME NEW t, NEW l \in R, t \in {q[l][i] : i \in 1..n[l]}
        PROVE  t \in Started(D, q, act, limit)
    <3>1. l \in D /\ t \in PumpedTasks(q[l], act[l], limit[l])
      BY <2>1, <2>2, <2>5
    <3> QED
      BY <2>3, <3>1
  <2> QED
    BY <2>4, <2>5
<1> HIDE DEF n
<1>10. View' = [t \in Tasks |-> IF \E l \in R : t \in {q[l][i] : i \in 1..n[l]}
                                THEN "served" ELSE st[t]]
  BY <1>9 DEF View, ServesOnly
<1>11. /\ \A l \in R :
             /\ n[l] <= Len(q[l])
             /\ n[l] > 0 => LaneView!Cardinality(LaneView!Served(st, l)) + n[l] <= maxConcurrent'[l]
       /\ queue' = [l \in Lanes |-> IF l \in R THEN SubSeq(q[l], n[l] + 1, Len(q[l])) ELSE q[l]]
       /\ View' = [t \in Tasks |-> IF \E l \in R : t \in LaneView!Front(q[l], n[l])
                                   THEN "served" ELSE st[t]]
  BY <1>6, <1>7, <1>8, <1>10, SameCardinality DEF LaneView!Served, Held, LaneView!Front
<1> QED
  BY <1>5, <1>11, SameCardinality DEF LaneView!Serve, View

\* The same of one lane, for the handlers that pump the lane of an entry.
LEMMA DrainServesLane ==
    ASSUME NEW k \in Lanes, NEW q, NEW act, Drainable(q, act),
           maxConcurrent \in [Lanes -> Nat], maxConcurrent' = maxConcurrent,
           NEW gen, NEW bodies, Drain({k}, q, act, maxConcurrent, gen, bodies),
           NEW st,
           act[k] = Held(st, k),
           ServesOnly(Started({k}, q, act, maxConcurrent), st)
    PROVE  LaneView!Serve({k}, q, st)
<1>1. {k} \in SUBSET Lanes /\ {k} \in SUBSET {k}
  OBVIOUS
<1> QED
  BY <1>1, DrainServes

-----------------------------------------------------------------------------
(* Every step of the command queue is a step of the service or a stutter. *)

\* A handler that changes no line and no limit, and the status of one entry at most
\* and only outside its lane.
LEMMA OutsideStep ==
    ASSUME UNCHANGED <<queue, maxConcurrent>>, NEW t \in Tasks,
           StatusOf(t) \in {"new", "abandoned"}, StatusOf(t)' = "settled",
           \A u \in Tasks \ {t} : StatusOf(u)' = StatusOf(u)
    PROVE  LaneView!SettleOutside(t)
<1>1. View[t] = StatusOf(t) /\ View' = [View EXCEPT ![t] = "settled"]
  BY DEF View
<1> QED
  BY <1>1 DEF LaneView!SettleOutside, View

\* Nothing the contract sees changes.
LEMMA StutterStep ==
    ASSUME UNCHANGED <<queue, maxConcurrent>>, \A t \in Tasks : StatusOf(t)' = StatusOf(t)
    PROVE  UNCHANGED LaneView!serviceVars
BY DEF LaneView!serviceVars

\* enqueueCommandInLane submits the entry.
LEMMA EnqueueSubmits ==
    ASSUME ServiceInv, ServiceInv', NEW t \in Tasks, EnqueueCommandInLane(t)
    PROVE  LaneView!Submit(t)
<1> DEFINE k == LaneOf[t]
           q == [queue EXCEPT ![k] = Append(@, t)]
           st == [View EXCEPT ![t] = "waiting"]
           St == Started({k}, q, active, maxConcurrent)
<1>1. /\ k \in Lanes /\ IInv /\ TypeOK /\ promise[t] = "none" /\ body[t] = "idle"
      /\ promise' = [promise EXCEPT ![t] = "pending"]
      /\ Drain({k}, q, active, maxConcurrent, generation, body)
      /\ UNCHANGED <<maxConcurrent, generation>>
  BY CommandQueueAssumption DEF EnqueueCommandInLane, ServiceInv, IInv, LaneInv, GenerationsBounded
<1>2. Drainable(q, active) /\ maxConcurrent \in [Lanes -> Nat]
  BY <1>1, PushedDrainable DEF TypeOK
<1>3. StatusOf(t) = "new"
  BY <1>1, StatusCases
<1>4. \A u \in Tasks : st[u] = IF u = t THEN "waiting" ELSE StatusOf(u)
  BY DEF View
<1>5. active[k] = Held(st, k)
  <2>1. active[k] = {u \in Tasks : LaneOf[u] = k /\ StatusOf(u) = "served"}
    BY <1>1, ServedAreActive
  <2> HIDE DEF st
  <2> QED
    BY <1>3, <1>4, <2>1 DEF Held
<1>6. ASSUME NEW u \in Tasks, u \in St PROVE StatusOf(u)' = "served"
  <2>1. /\ body'[u] = "running" /\ taskGeneration'[u] = generation'[LaneOf[u]]
    BY <1>1, <1>6 DEF Drain
  <2>2. u \in Entries(q[k])
    <3>1. /\ {k} \in SUBSET Lanes /\ maxConcurrent \in [Lanes -> Nat]
          /\ q \in [Lanes -> Seq(Tasks)] /\ active \in [Lanes -> SUBSET Tasks]
      BY <1>1, <1>2 DEF Drainable
    <3>2. u \in Started({k}, q, active, maxConcurrent)
      BY <1>6
    <3> HIDE DEF q, k
    <3>3. \E l \in {k} : u \in Entries(q[l])
      BY <3>1, <3>2, StartedWereQueued
    <3> QED
      BY <3>3
  <2>3. q[k] = Append(queue[k], t) /\ queue[k] \in Seq(Tasks)
    BY <1>1 DEF TypeOK
  <2>4. /\ Distinct(queue[k])
        /\ \A v \in Entries(queue[k]) : promise[v] = "pending"
    BY <1>1 DEF IInv, LaneInv, EntriesQueuedOnce, QueuedIn
  <2>5. Entries(q[k]) = Entries(queue[k]) \cup {t}
    BY <1>1, <2>3, <2>4, AppendEntry
  <2>6. promise'[u] = "pending"
    BY <1>1, <2>2, <2>4, <2>5 DEF TypeOK
  <2> QED
    BY <2>1, <2>6, StatusCasesNext
<1>7. ASSUME NEW u \in Tasks, u \notin St PROVE StatusOf(u)' = st[u]
  <2>1. /\ body'[u] = body[u] /\ taskGeneration'[u] = taskGeneration[u]
        /\ generation'[LaneOf[u]] = generation[LaneOf[u]]
    BY <1>1, <1>7 DEF Drain
  <2>2. CASE u = t
    BY <1>1, <1>4, <2>1, <2>2, StatusCasesNext DEF TypeOK
  <2>3. CASE u # t
    BY <1>1, <1>4, <2>1, <2>3 DEF StatusOf, TypeOK
  <2> QED
    BY <2>2, <2>3
<1> HIDE DEF q, st, St
<1>8. LaneView!Serve({k}, q, st)
  <2>1. ServesOnly(Started({k}, q, active, maxConcurrent), st)
    BY <1>6, <1>7 DEF St, ServesOnly
  <2> QED
    BY <1>1, <1>2, <1>5, <2>1, DrainServesLane
<1>9. View[t] = "new"
  BY <1>3 DEF View
<1> QED
  BY <1>1, <1>8, <1>9 DEF LaneView!Submit, View, q, st, k

\* A completion of the lane's present generation, and a lane timeout, settle an
\* entry that is served; one of an earlier generation settles an abandoned entry.
LEMMA FinishSettles ==
    ASSUME ServiceInv, ServiceInv', NEW t \in Tasks, NEW outcome \in Settled, NEW bodies,
           body[t] = "running", promise[t] = "pending",
           \A u \in Tasks \ {t} : bodies[u] = body[u], bodies[t] # "idle",
           FinishEntry(t, outcome, bodies)
    PROVE  LaneView!Settle(t) \/ LaneView!SettleOutside(t)
<1> DEFINE k == LaneOf[t]
           act == CompletedActive(t)
           st == [View EXCEPT ![t] = "settled"]
           St == Started({k}, queue, act, maxConcurrent)
<1>1. /\ k \in Lanes /\ IInv /\ TypeOK
      /\ promise' = [promise EXCEPT ![t] = outcome]
      /\ UNCHANGED <<maxConcurrent, generation>>
  BY CommandQueueAssumption DEF FinishEntry, ServiceInv, IInv
<1>2. promise'[t] = outcome /\ \A u \in Tasks \ {t} : promise'[u] = promise[u]
  BY <1>1 DEF TypeOK
<1>3. StatusOf(t)' = "settled"
  BY <1>2, StatusCasesNext
<1>4. CASE taskGeneration[t] = generation[k]
  <2>1. StatusOf(t) = "served"
    BY <1>4, StatusCases
  <2>2. Drain({k}, queue, act, maxConcurrent, generation, bodies)
    BY <1>4 DEF FinishEntry
  <2>3. /\ act \in [Lanes -> SUBSET Tasks] /\ \A l \in Lanes : act[l] \subseteq active[l]
        /\ act[k] = active[k] \ {t} /\ maxConcurrent \in [Lanes -> Nat]
    BY <1>1 DEF CompletedActive, TypeOK
  <2>4. \A u \in Tasks : st[u] = IF u = t THEN "settled" ELSE StatusOf(u)
    BY DEF View
  <2> HIDE DEF act, st
  <2>5. Drainable(queue, act)
    BY <1>1, <2>3, PresentDrainable
  <2>6. act[k] = Held(st, k)
    <3>1. active[k] = {u \in Tasks : LaneOf[u] = k /\ StatusOf(u) = "served"}
      BY <1>1, ServedAreActive
    <3> QED
      BY <2>3, <2>4, <3>1 DEF Held
  <2>7. \A u \in St : body[u] = "idle" /\ promise[u] = "pending" /\ u # t
    <3>1. \A u \in Entries(queue[k]) : body[u] = "idle" /\ promise[u] = "pending"
      BY <1>1 DEF IInv, LaneInv, EntriesQueuedOnce, QueuedIn
    <3>2. /\ {k} \in SUBSET Lanes /\ maxConcurrent \in [Lanes -> Nat]
          /\ queue \in [Lanes -> Seq(Tasks)] /\ act \in [Lanes -> SUBSET Tasks]
      BY <1>1, <2>3 DEF TypeOK
    <3> HIDE DEF k
    <3>3. \A u \in St : \E l \in {k} : u \in Entries(queue[l])
      BY <3>2, StartedWereQueued
    <3> QED
      BY <3>1, <3>3
  <2>8. ASSUME NEW u \in Tasks, u \in St PROVE StatusOf(u)' = "served"
    <3>1. /\ body'[u] = "running" /\ taskGeneration'[u] = generation'[LaneOf[u]]
          /\ promise'[u] = "pending"
      BY <1>1, <1>2, <2>2, <2>7, <2>8 DEF Drain
    <3> QED
      BY <3>1, StatusCasesNext
  <2>9. ASSUME NEW u \in Tasks, u \notin St PROVE StatusOf(u)' = st[u]
    <3>1. CASE u = t
      BY <1>3, <2>4, <3>1
    <3>2. CASE u # t
      <4>1. /\ body'[u] = body[u] /\ taskGeneration'[u] = taskGeneration[u]
            /\ promise'[u] = promise[u] /\ generation'[LaneOf[u]] = generation[LaneOf[u]]
        BY <1>1, <1>2, <2>2, <2>9, <3>2 DEF Drain
      <4> QED
        BY <2>4, <3>2, <4>1 DEF StatusOf
    <3> QED
      BY <3>1, <3>2
  <2> HIDE DEF St
  <2>10. LaneView!Serve({k}, queue, st)
    <3>1. ServesOnly(Started({k}, queue, act, maxConcurrent), st)
      BY <2>8, <2>9 DEF St, ServesOnly
    <3> QED
      BY <1>1, <2>2, <2>3, <2>5, <2>6, <3>1, DrainServesLane
  <2>11. View[t] = "served"
    BY <2>1 DEF View
  <2> QED
    BY <1>1, <2>10, <2>11 DEF LaneView!Settle, View, st, k
<1>5. CASE taskGeneration[t] # generation[k]
  <2>1. body' = bodies /\ UNCHANGED <<queue, taskGeneration>>
    BY <1>5 DEF FinishEntry
  <2>2. StatusOf(t) = "abandoned"
    BY <1>5, StatusCases
  <2>3. \A u \in Tasks \ {t} : StatusOf(u)' = StatusOf(u)
    BY <1>1, <1>2, <2>1 DEF StatusOf
  <2> QED
    BY <1>1, <1>3, <2>1, <2>2, <2>3, OutsideStep
<1> QED
  BY <1>4, <1>5

\* setCommandLaneConcurrency resizes the lane; a limit of 0 is not followed by a
\* pump and serves nobody.
LEMMA ConcurrencyResizes ==
    ASSUME ServiceInv, ServiceInv', NEW k \in Lanes, NEW n \in Int,
           SetCommandLaneConcurrency(k, n)
    PROVE  LaneView!Resize(k)
<1> DEFINE D == IF LimitFor(k, n) > 0 THEN {k} ELSE {}
<1>1. IInv /\ TypeOK /\ LimitFor(k, n) \in Nat
  BY DEF ServiceInv, IInv, LimitFor, MinConcurrent
<1>2. /\ maxConcurrent' = [maxConcurrent EXCEPT ![k] = LimitFor(k, n)]
      /\ Drain(D, queue, active, maxConcurrent', generation, body)
      /\ UNCHANGED <<generation, promise>>
  BY DEF SetCommandLaneConcurrency
<1>3. /\ maxConcurrent' \in [Lanes -> Nat] /\ maxConcurrent'[k] \in Nat
      /\ maxConcurrent' = [maxConcurrent EXCEPT ![k] = maxConcurrent'[k]]
      /\ active \in [Lanes -> SUBSET Tasks] /\ queue \in [Lanes -> Seq(Tasks)]
  BY <1>1, <1>2 DEF TypeOK
<1>4. D \in SUBSET {k} /\ {k} \in SUBSET Lanes /\ D \in SUBSET Lanes
  OBVIOUS
<1> HIDE DEF D
<1>5. Drainable(queue, active)
  BY <1>1, <1>3, PresentDrainable
<1>6. \A l \in D : active[l] = Held(View, l)
  BY <1>4, ServedAreActive DEF Held, View
<1>7. ServesOnly(Started(D, queue, active, maxConcurrent'), View)
  <2> DEFINE St == Started(D, queue, active, maxConcurrent')
  <2>1. \A u \in St : body[u] = "idle" /\ promise[u] = "pending"
    <3>1. \A l \in D : \A u \in Entries(queue[l]) : body[u] = "idle" /\ promise[u] = "pending"
      BY <1>1, <1>4 DEF IInv, LaneInv, EntriesQueuedOnce, QueuedIn
    <3>2. \A u \in St : \E l \in D : u \in Entries(queue[l])
      BY <1>3, <1>4, StartedWereQueued
    <3> QED
      BY <3>1, <3>2
  <2>2. ASSUME NEW u \in Tasks, u \in St PROVE StatusOf(u)' = "served"
    <3>1. /\ body'[u] = "running" /\ taskGeneration'[u] = generation'[LaneOf[u]]
          /\ promise'[u] = "pending"
      BY <1>2, <2>1, <2>2 DEF Drain
    <3> QED
      BY <3>1, StatusCasesNext
  <2>3. ASSUME NEW u \in Tasks, u \notin St PROVE StatusOf(u)' = StatusOf(u)
    <3>1. body'[u] = body[u] /\ taskGeneration'[u] = taskGeneration[u]
      BY <1>2, <2>3 DEF Drain
    <3> QED
      BY <1>2, <3>1 DEF StatusOf
  <2> HIDE DEF St
  <2>4. ServesOnly(St, View)
    BY <2>2, <2>3 DEF ServesOnly, View
  <2> QED
    BY <2>4 DEF St
<1>8. LaneView!Serve({k}, queue, View)
  BY <1>2, <1>3, <1>4, <1>5, <1>6, <1>7, DrainServes, ZenonT(40)
<1> QED
  BY <1>3, <1>8 DEF LaneView!Resize, View

\* clearCommandLane turns the whole line away.
LEMMA ClearDismisses ==
    ASSUME ServiceInv, ServiceInv', NEW k \in Lanes, ClearCommandLane(k)
    PROVE  LaneView!Dismiss(k)
<1>1. /\ queue' = [queue EXCEPT ![k] = <<>>]
      /\ promise' = [u \in Tasks |-> IF u \in QueuedIn(k) THEN "cleared" ELSE promise[u]]
      /\ UNCHANGED <<maxConcurrent, generation, taskGeneration, body>>
  BY DEF ClearCommandLane
<1>2. QueuedIn(k) = {u \in Tasks : LaneOf[u] = k /\ StatusOf(u) = "waiting"}
  BY ServedAreActive
<1>3. ASSUME NEW u \in Tasks, u \in QueuedIn(k) PROVE StatusOf(u)' = "settled"
  <2>1. promise'[u] = "cleared" /\ "cleared" \in Settled
    BY <1>1, <1>3 DEF Settled, PromiseStates
  <2> QED
    BY <2>1, StatusCasesNext
<1>4. ASSUME NEW u \in Tasks, u \notin QueuedIn(k) PROVE StatusOf(u)' = StatusOf(u)
  BY <1>1, <1>4 DEF StatusOf
<1>5. View' = [u \in Tasks |-> IF LaneOf[u] = k /\ View[u] = "waiting"
                               THEN "settled" ELSE View[u]]
  BY <1>2, <1>3, <1>4 DEF View
<1> QED
  BY <1>1, <1>5 DEF LaneView!Dismiss, View

\* A reset abandons what its lanes serve and serves those in line.
LEMMA ResetAbandons ==
    ASSUME ServiceInv, ServiceInv', NEW R \in SUBSET Lanes, ResetLanes(R)
    PROVE  LaneView!Abandon(R)
<1> DEFINE gen == [l \in Lanes |-> IF l \in R THEN generation[l] + 1 ELSE generation[l]]
           act == [l \in Lanes |-> IF l \in R THEN {} ELSE active[l]]
           st == [t \in Tasks |-> IF LaneOf[t] \in R /\ View[t] = "served"
                                  THEN "abandoned" ELSE View[t]]
           St == Started(R, queue, act, maxConcurrent)
<1>1. IInv /\ TypeOK /\ GenerationsBounded
  BY DEF ServiceInv, IInv, LaneInv
<1>2. /\ generation' = gen
      /\ Drain(R, queue, act, maxConcurrent, gen, body)
      /\ UNCHANGED <<maxConcurrent, promise>>
  BY DEF ResetLanes
<1>3. /\ act \in [Lanes -> SUBSET Tasks] /\ \A l \in Lanes : act[l] \subseteq active[l]
      /\ \A l \in R : act[l] = {}
      /\ maxConcurrent \in [Lanes -> Nat] /\ queue \in [Lanes -> Seq(Tasks)]
  BY <1>1 DEF TypeOK
<1>4. \A u \in Tasks : st[u] = IF LaneOf[u] \in R /\ StatusOf(u) = "served"
                               THEN "abandoned" ELSE StatusOf(u)
  BY DEF View
<1>5. \A u \in Tasks : /\ LaneOf[u] \in R => taskGeneration[u] # gen[LaneOf[u]]
                       /\ LaneOf[u] \notin R => gen[LaneOf[u]] = generation[LaneOf[u]]
  <2> TAKE u \in Tasks
  <2>1. LaneOf[u] \in Lanes
    BY CommandQueueAssumption
  <2>2. /\ taskGeneration[u] \in Nat /\ generation[LaneOf[u]] \in Nat
        /\ taskGeneration[u] <= generation[LaneOf[u]]
    BY <1>1, <2>1 DEF TypeOK, GenerationsBounded
  <2> QED
    BY <2>1, <2>2
<1> HIDE DEF gen, act, st
<1>6. Drainable(queue, act)
  BY <1>1, <1>3, PresentDrainable
<1>7. \A l \in R : act[l] = Held(st, l)
  BY <1>3, <1>4 DEF Held
<1>8. ASSUME NEW u \in Tasks, u \in St PROVE StatusOf(u)' = "served"
  <2>1. \A l \in R : \A v \in Entries(queue[l]) : promise[v] = "pending"
    BY <1>1 DEF IInv, LaneInv, EntriesQueuedOnce, QueuedIn
  <2>2. promise[u] = "pending"
    BY <1>3, <1>8, <2>1, StartedWereQueued
  <2>3. /\ body'[u] = "running" /\ taskGeneration'[u] = generation'[LaneOf[u]]
        /\ promise'[u] = "pending"
    BY <1>2, <1>8, <2>2 DEF Drain
  <2> QED
    BY <2>3, StatusCasesNext
<1>9. ASSUME NEW u \in Tasks, u \notin St PROVE StatusOf(u)' = st[u]
  <2>1. /\ body'[u] = body[u] /\ taskGeneration'[u] = taskGeneration[u]
        /\ promise'[u] = promise[u] /\ generation'[LaneOf[u]] = gen[LaneOf[u]]
    BY <1>2, <1>9 DEF Drain
  <2>2. CASE LaneOf[u] \in R
    <3>1. taskGeneration'[u] # generation'[LaneOf[u]]
      BY <1>5, <2>1, <2>2
    <3>2. promise[u] = "pending" /\ body[u] = "running" => StatusOf(u)' = "abandoned"
      BY <2>1, <3>1, StatusCasesNext
    <3>3. promise[u] = "pending" /\ body[u] = "running"
             => StatusOf(u) \in {"served", "abandoned"}
      BY StatusCases
    <3>4. ~(promise[u] = "pending" /\ body[u] = "running") =>
             /\ StatusOf(u)' = StatusOf(u)
             /\ StatusOf(u) # "served"
      BY <2>1, StatusCases, StatusCasesNext
    <3> QED
      BY <1>4, <2>2, <3>2, <3>3, <3>4
  <2>3. CASE LaneOf[u] \notin R
    BY <1>4, <1>5, <2>1, <2>3 DEF StatusOf
  <2> QED
    BY <2>2, <2>3
<1>10. ServesOnly(St, st)
  BY <1>8, <1>9 DEF ServesOnly
<1>11. LaneView!Serve(R, queue, st)
  BY <1>2, <1>3, <1>6, <1>7, <1>10, DrainServes
<1> QED
  BY <1>2, <1>11 DEF LaneView!Abandon, View, st

\* Every handler of the command queue keeps the service's contract.
LEMMA NextServes ==
    ServiceInv /\ ServiceInv' /\ [Next]_vars => [LaneView!ServiceNext]_(LaneView!serviceVars)
<1> SUFFICES ASSUME ServiceInv, ServiceInv', [Next]_vars
             PROVE  LaneView!ServiceNext \/ UNCHANGED LaneView!serviceVars
  OBVIOUS
<1>0. TypeOK /\ GenerationsBounded
  BY DEF ServiceInv, IInv, LaneInv
<1> USE DEF LaneView!ServiceNext
<1>1. ASSUME NEW t \in Tasks, EnqueueCommandInLane(t) PROVE LaneView!ServiceNext
  BY <1>1, EnqueueSubmits
<1>2. ASSUME NEW t \in Tasks, RefuseCommand(t) PROVE LaneView!ServiceNext
  <2>1. /\ promise[t] = "none" /\ promise' = [promise EXCEPT ![t] = "refused"]
        /\ UNCHANGED <<queue, maxConcurrent, generation, taskGeneration, body>>
        /\ "refused" \in Settled
    BY <1>2 DEF RefuseCommand, laneVars, Settled, PromiseStates
  <2>2. promise'[t] = "refused" /\ \A u \in Tasks \ {t} : promise'[u] = promise[u]
    BY <1>0, <2>1 DEF TypeOK
  <2>3. StatusOf(t) = "new" /\ StatusOf(t)' = "settled"
    BY <2>1, <2>2, StatusCases, StatusCasesNext
  <2>4. \A u \in Tasks \ {t} : StatusOf(u)' = StatusOf(u)
    BY <2>1, <2>2 DEF StatusOf
  <2> QED
    BY <2>1, <2>3, <2>4, OutsideStep
<1>3. ASSUME NEW t \in Tasks, TaskSettles(t) PROVE LaneView!ServiceNext
  <2> DEFINE bodies == [body EXCEPT ![t] = "ended"]
  <2>1. PICK outcome \in {"resolved", "rejected"} : FinishEntry(t, outcome, bodies)
    BY <1>3 DEF TaskSettles
  <2>2. /\ body[t] = "running" /\ promise[t] = "pending" /\ outcome \in Settled
        /\ \A u \in Tasks \ {t} : bodies[u] = body[u]
        /\ bodies[t] # "idle"
    BY <1>0, <1>3 DEF TaskSettles, TypeOK, Settled, PromiseStates
  <2> HIDE DEF bodies
  <2>3. LaneView!Settle(t) \/ LaneView!SettleOutside(t)
    BY <2>1, <2>2, FinishSettles
  <2> QED
    BY <2>3
<1>4. ASSUME NEW t \in Tasks, TaskTimesOut(t) PROVE LaneView!ServiceNext
  <2>1. /\ body[t] = "running" /\ promise[t] = "pending" /\ "timedOut" \in Settled
        /\ FinishEntry(t, "timedOut", body)
    BY <1>4 DEF TaskTimesOut, Settled, PromiseStates
  <2>2. body[t] # "idle"
    BY <2>1
  <2>3. LaneView!Settle(t) \/ LaneView!SettleOutside(t)
    BY <2>1, <2>2, FinishSettles
  <2> QED
    BY <2>3
<1>5. ASSUME NEW t \in Tasks, LateSettle(t) PROVE UNCHANGED LaneView!serviceVars
  <2>1. /\ promise[t] = "timedOut" /\ "timedOut" \in Settled
        /\ body' = [body EXCEPT ![t] = "ended"]
        /\ UNCHANGED <<queue, maxConcurrent, generation, taskGeneration, promise>>
    BY <1>5 DEF LateSettle, laneVars, Settled, PromiseStates
  <2>2. StatusOf(t)' = StatusOf(t)
    BY <2>1, StatusCases, StatusCasesNext
  <2>3. \A u \in Tasks \ {t} : StatusOf(u)' = StatusOf(u)
    BY <1>0, <2>1 DEF StatusOf, TypeOK
  <2> QED
    BY <2>1, <2>2, <2>3, StutterStep
<1>6. ASSUME NEW l \in Lanes, NEW n \in -1..MaxLimit, SetCommandLaneConcurrency(l, n)
      PROVE  LaneView!ServiceNext
  <2>1. n \in Int
    BY CommandQueueAssumption
  <2>2. LaneView!Resize(l)
    BY <1>6, <2>1, ConcurrencyResizes
  <2> QED
    BY <2>2
<1>7. ASSUME NEW l \in Lanes, ClearCommandLane(l) PROVE LaneView!ServiceNext
  BY <1>7, ClearDismisses
<1>8. ASSUME NEW R \in SUBSET Lanes, ResetLanes(R) PROVE LaneView!ServiceNext
  BY <1>8, ResetAbandons
<1>9. ASSUME \/ \E l \in Lanes : ResetCommandLane(l)
             \/ ResetAllLanes
      PROVE  LaneView!ServiceNext
  BY <1>8, <1>9 DEF ResetCommandLane, ResetAllLanes
<1>10. ASSUME \/ MarkGatewayDraining
              \/ \E w \in Waiters, p \in BOOLEAN : WaitForActiveTasks(w, p)
              \/ \E w \in Waiters : WaiterTimesOut(w)
              \/ UNCHANGED vars
       PROVE  UNCHANGED LaneView!serviceVars
  <2>1. UNCHANGED <<queue, maxConcurrent, generation, taskGeneration, promise, body>>
    BY <1>10 DEF MarkGatewayDraining, WaitForActiveTasks, WaiterTimesOut, vars, laneVars, taskVars
  <2> QED
    BY <2>1, StutterStep DEF StatusOf
<1> QED
  BY <1>1, <1>2, <1>3, <1>4, <1>5, <1>6, <1>7, <1>9, <1>10 DEF Next

\* The command queue keeps the contract of LaneService: entries are started in the
\* order in which enqueueCommandInLane queued them and within the limits, a reset
\* abandons the running ones only, and every promise settles once.
THEOREM ImplementsLaneService == Spec => KeepsLaneService
<1>1. ASSUME Init PROVE LaneView!ServiceInit
  <2>1. \A t \in Tasks : StatusOf(t) = "new"
    BY <1>1 DEF Init, StatusOf, Settled, PromiseStates
  <2> QED
    BY <1>1, <2>1 DEF Init, LaneView!ServiceInit
<1> QED
  BY <1>1, NextServes, ServiceInductive, PTL DEF Spec, KeepsLaneService, LaneView!ServiceSpec
=============================================================================
