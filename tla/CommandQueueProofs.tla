------------------------- MODULE CommandQueueProofs -------------------------
(***************************************************************************)
(* Proofs about the command queue, for any lanes, entries, limits, waiters *)
(* and number of resets.                                                   *)
(***************************************************************************)
EXTENDS CommandQueue, FiniteSetTheorems, SequenceTheorems, TLAPS

(* The pump of one lane, as an operation on a queue and an active set. *)

\* The pump takes a prefix of the queue (drainLane's while loop).
LEMMA PumpCountRange ==
    ASSUME NEW q \in Seq(Tasks), NEW act \in SUBSET Tasks, NEW limit \in Nat
    PROVE  /\ PumpCount(q, act, limit) \in 0..Len(q)
           /\ IsFiniteSet(act)
           /\ Cardinality(act) \in Nat
<1>1. IsFiniteSet(act) /\ Cardinality(act) \in Nat
  BY CommandQueueAssumption, FS_Subset, FS_CardinalityType
<1>2. Len(q) \in Nat
  BY LenProperties
<1> QED
  BY <1>1, <1>2 DEF PumpCount

\* What the pump leaves queued and what it starts partition the queue, and the
\* rest of a queue without duplicates has none.
LEMMA PumpPartition ==
    ASSUME NEW q \in Seq(Tasks), NEW act \in SUBSET Tasks, NEW limit \in Nat,
           Distinct(q)
    PROVE  /\ PumpedQueue(q, act, limit) \in Seq(Tasks)
           /\ PumpedTasks(q, act, limit) \in SUBSET Tasks
           /\ Distinct(PumpedQueue(q, act, limit))
           /\ Entries(PumpedQueue(q, act, limit)) = Entries(q) \ PumpedTasks(q, act, limit)
           /\ PumpedTasks(q, act, limit) \subseteq Entries(q)
<1> DEFINE n == PumpCount(q, act, limit)
           r == PumpedQueue(q, act, limit)
<1>1. n \in 0..Len(q)
  BY PumpCountRange
<1>2. Len(q) \in Nat /\ \A i \in 1..Len(q) : q[i] \in Tasks
  BY LenProperties, ElementOfSeq
<1>3. r = SubSeq(q, n + 1, Len(q))
  BY DEF PumpedQueue
<1>4. PumpedTasks(q, act, limit) = {q[i] : i \in 1..n}
  BY DEF PumpedTasks
<1> HIDE DEF n, r
<1>5. /\ r \in Seq(Tasks)
      /\ Len(r) = Len(q) - n
      /\ \A i \in 1..(Len(q) - n) : r[i] = q[n + i]
  <2>1. \A i \in (n + 1)..Len(q) : q[i] \in Tasks
    BY <1>1, <1>2
  <2>2. n + 1 \in Int /\ Len(q) \in Int
    BY <1>1, <1>2
  <2>3. /\ r \in Seq(Tasks)
        /\ Len(r) = IF n + 1 <= Len(q) THEN Len(q) - (n + 1) + 1 ELSE 0
        /\ \A i \in 1..(Len(q) - (n + 1) + 1) : r[i] = q[(n + 1) + i - 1]
    BY <1>3, <2>1, <2>2, SubSeqProperties
  <2> QED
    BY <1>1, <1>2, <2>3
<1>6. Distinct(r)
  BY <1>1, <1>2, <1>5 DEF Distinct
<1>7. Entries(r) = {q[i] : i \in (n + 1)..Len(q)}
  <2>1. ASSUME NEW x \in Entries(r) PROVE x \in {q[i] : i \in (n + 1)..Len(q)}
    BY <1>1, <1>2, <1>5 DEF Entries
  <2>2. ASSUME NEW i \in (n + 1)..Len(q) PROVE q[i] \in Entries(r)
    <3>1. i - n \in 1..Len(r) /\ r[i - n] = q[i]
      BY <1>1, <1>2, <1>5
    <3> QED
      BY <3>1 DEF Entries
  <2> QED
    BY <2>1, <2>2
<1>8. Entries(r) = Entries(q) \ {q[i] : i \in 1..n}
  <2>1. ASSUME NEW i \in (n + 1)..Len(q), NEW j \in 1..n PROVE q[i] # q[j]
    BY <1>1, <1>2 DEF Distinct
  <2>2. 1..Len(q) = (1..n) \cup ((n + 1)..Len(q))
    BY <1>1, <1>2
  <2> QED
    BY <1>7, <2>1, <2>2 DEF Entries
<1>9. {q[i] : i \in 1..n} \subseteq Entries(q) /\ Entries(q) \subseteq Tasks
  BY <1>1, <1>2 DEF Entries
<1> QED
  BY <1>4, <1>5, <1>6, <1>8, <1>9 DEF r

\* A distinct prefix has as many elements as it is long.
LEMMA PrefixCardinality ==
    ASSUME NEW q \in Seq(Tasks), Distinct(q), NEW n \in 0..Len(q)
    PROVE  /\ IsFiniteSet({q[i] : i \in 1..n})
           /\ Cardinality({q[i] : i \in 1..n}) = n
<1> DEFINE S == {q[i] : i \in 1..n}
           f == [i \in 1..n |-> q[i]]
<1>1. Len(q) \in Nat /\ n \in Nat
  BY LenProperties
<1>2. f \in Bijection(1..n, S)
  BY <1>1 DEF Bijection, Injection, Surjection, IsInjective, Distinct
<1>3. ExistsBijection(1..n, S)
  BY <1>2 DEF ExistsBijection
<1>4. IsFiniteSet(1..n) /\ Cardinality(1..n) = n
  BY <1>1, FS_Interval
<1> QED
  BY <1>3, <1>4, FS_Bijection

\* After the pump a lane with queued entries is full, and a pump that started
\* something stayed within the limit.
LEMMA PumpFillsLane ==
    ASSUME NEW q \in Seq(Tasks), NEW act \in SUBSET Tasks, NEW limit \in Nat,
           Distinct(q), Entries(q) \cap act = {}
    PROVE  /\ PumpedQueue(q, act, limit) # <<>>
                => Cardinality(act \cup PumpedTasks(q, act, limit)) >= limit
           /\ PumpedTasks(q, act, limit) # {}
                => Cardinality(act \cup PumpedTasks(q, act, limit)) <= limit
<1> DEFINE n == PumpCount(q, act, limit)
           S == {q[i] : i \in 1..n}
<1>1. n \in 0..Len(q) /\ IsFiniteSet(act) /\ Cardinality(act) \in Nat /\ Len(q) \in Nat
  BY PumpCountRange, LenProperties
<1>2. IsFiniteSet(S) /\ Cardinality(S) = n
  BY <1>1, PrefixCardinality
<1>3. act \cap S = {}
  BY <1>1 DEF Entries
<1>4. Cardinality(act \cup S) = Cardinality(act) + n
  <2> HIDE DEF n, S
  <2>1. Cardinality(act \cup S) = Cardinality(act) + Cardinality(S) - Cardinality(act \cap S)
    BY <1>1, <1>2, FS_Union
  <2>2. Cardinality(act \cap S) = 0
    BY <1>3, FS_EmptySet
  <2>3. Cardinality(act) \in Nat /\ n \in Nat /\ Cardinality(S) = n
    BY <1>1, <1>2
  <2> QED
    BY <2>1, <2>2, <2>3
<1>5. PumpedQueue(q, act, limit) # <<>> => n < Len(q)
  <2>1. n = Len(q) => SubSeq(q, n + 1, Len(q)) = <<>>
    BY <1>1, SubSeqEmpty
  <2> QED
    BY <1>1, <2>1 DEF PumpedQueue
<1>6. PumpedTasks(q, act, limit) = S
  BY DEF PumpedTasks
<1>7. S # {} => n > 0
  BY <1>1
<1>8. n < Len(q) => Cardinality(act) + n >= limit
  BY <1>1 DEF PumpCount
<1>9. n > 0 => Cardinality(act) + n <= limit
  BY <1>1 DEF PumpCount
<1> QED
  BY <1>4, <1>5, <1>6, <1>7, <1>8, <1>9

-----------------------------------------------------------------------------
(* What draining a set of lanes does to the variables. *)

Bodies == {"idle", "running", "ended"}

DrainPost(D, q, act, limit, gen, bodies) ==
    LET St == Started(D, q, act, limit)
    IN  /\ queue' \in [Lanes -> Seq(Tasks)]
        /\ active' \in [Lanes -> SUBSET Tasks]
        /\ taskGeneration' \in [Tasks -> Nat]
        /\ body' \in [Tasks -> Bodies]
        /\ \A t \in St : t \in Tasks /\ t \in Entries(q[LaneOf[t]])
        /\ \A l \in Lanes :
              /\ Distinct(queue'[l])
              /\ Entries(queue'[l]) = Entries(q[l]) \ St
              /\ active'[l] = act[l] \cup (Entries(q[l]) \cap St)
        /\ \A l \in D :
              /\ queue'[l] # <<>> => Cardinality(active'[l]) >= limit[l]
              /\ active'[l] # act[l] => Cardinality(active'[l]) <= limit[l]
        /\ \A l \in Lanes \ D : queue'[l] = q[l] /\ active'[l] = act[l]
        /\ \A t \in Tasks :
              /\ taskGeneration'[t] = IF t \in St THEN gen[LaneOf[t]]
                                      ELSE taskGeneration[t]
              /\ body'[t] = IF t \in St THEN "running" ELSE bodies[t]

\* The entries started leave their queues for their active sets, in order of
\* the queues and within the limits, and nothing else changes.
LEMMA DrainEffect ==
    ASSUME NEW D \in SUBSET Lanes,
           NEW q \in [Lanes -> Seq(Tasks)], NEW act \in [Lanes -> SUBSET Tasks],
           NEW limit \in [Lanes -> Nat], NEW gen \in [Lanes -> Nat],
           NEW bodies \in [Tasks -> Bodies], taskGeneration \in [Tasks -> Nat],
           \A l \in Lanes : Distinct(q[l]) /\ Entries(q[l]) \cap act[l] = {},
           \A l \in Lanes : \A t \in Entries(q[l]) : t \in Tasks /\ LaneOf[t] = l,
           Drain(D, q, act, limit, gen, bodies)
    PROVE  DrainPost(D, q, act, limit, gen, bodies)
<1> DEFINE St == Started(D, q, act, limit)
           pt(l) == PumpedTasks(q[l], act[l], limit[l])
           pq(l) == PumpedQueue(q[l], act[l], limit[l])
<1>1. \A l \in Lanes :
         /\ q[l] \in Seq(Tasks) /\ act[l] \in SUBSET Tasks /\ limit[l] \in Nat
         /\ Distinct(q[l]) /\ Entries(q[l]) \cap act[l] = {}
  OBVIOUS
<1>2. \A l \in Lanes : /\ pq(l) \in Seq(Tasks)
                       /\ pt(l) \in SUBSET Tasks
                       /\ Distinct(pq(l))
                       /\ Entries(pq(l)) = Entries(q[l]) \ pt(l)
                       /\ pt(l) \subseteq Entries(q[l])
  BY <1>1, PumpPartition
<1>3. \A l \in Lanes : /\ pq(l) # <<>> => Cardinality(act[l] \cup pt(l)) >= limit[l]
                       /\ pt(l) # {} => Cardinality(act[l] \cup pt(l)) <= limit[l]
  BY <1>1, PumpFillsLane
<1>4. /\ queue' = [l \in Lanes |-> IF l \in D THEN pq(l) ELSE q[l]]
      /\ active' = [l \in Lanes |-> IF l \in D THEN act[l] \cup pt(l) ELSE act[l]]
      /\ taskGeneration' = [t \in Tasks |-> IF t \in St THEN gen[LaneOf[t]]
                                            ELSE taskGeneration[t]]
      /\ body' = [t \in Tasks |-> IF t \in St THEN "running" ELSE bodies[t]]
  BY DEF Drain
<1>5. St = UNION {pt(l) : l \in D}
  BY DEF Started
<1> HIDE DEF St, pt, pq
<1>6. \A t \in St : t \in Tasks /\ t \in Entries(q[LaneOf[t]])
  BY <1>2, <1>5
<1>7. ASSUME NEW l \in Lanes, NEW k \in D, NEW t \in Entries(q[l]), t \in pt(k)
      PROVE  k = l
  BY <1>2, <1>7
<1>8. \A l \in Lanes : Entries(q[l]) \cap St = IF l \in D THEN pt(l) ELSE {}
  <2> TAKE l \in Lanes
  <2>1. ASSUME NEW t \in Entries(q[l]) \cap St PROVE l \in D /\ t \in pt(l)
    <3>1. PICK k \in D : t \in pt(k)
      BY <1>5
    <3> QED
      BY <1>7, <3>1
  <2>2. ASSUME l \in D, NEW t \in pt(l) PROVE t \in Entries(q[l]) \cap St
    BY <1>2, <1>5, <2>2
  <2> QED
    BY <2>1, <2>2
<1>9. /\ queue' \in [Lanes -> Seq(Tasks)]
      /\ active' \in [Lanes -> SUBSET Tasks]
      /\ taskGeneration' \in [Tasks -> Nat]
      /\ body' \in [Tasks -> Bodies]
  BY <1>2, <1>4, CommandQueueAssumption DEF Bodies
<1>10. \A l \in Lanes :
          /\ Distinct(queue'[l])
          /\ Entries(queue'[l]) = Entries(q[l]) \ St
          /\ active'[l] = act[l] \cup (Entries(q[l]) \cap St)
  BY <1>1, <1>2, <1>4, <1>8
<1>11. \A l \in D :
          /\ queue'[l] # <<>> => Cardinality(active'[l]) >= limit[l]
          /\ active'[l] # act[l] => Cardinality(active'[l]) <= limit[l]
  BY <1>2, <1>3, <1>4
<1> QED
  BY <1>4, <1>6, <1>9, <1>10, <1>11 DEF St, DrainPost

-----------------------------------------------------------------------------
(* The inductive invariant. *)

\* No entry remembers a generation its lane has not reached, so that a reset
\* makes all its running entries stale; and nothing runs without a promise.
GenerationsBounded ==
    /\ \A t \in Tasks : taskGeneration[t] <= generation[LaneOf[t]]
    /\ \A t \in Tasks : promise[t] = "none" => body[t] = "idle"

LaneInv == /\ EntriesQueuedOnce
           /\ SlotsMatchRunningEntries
           /\ WorkConserving
           /\ GenerationsBounded

\* Queues q, active sets act, generations gen, promises pr and bodies account
\* for one another: what LaneInv says of them, work conservation aside.
Accounted(q, act, gen, pr, bodies) ==
    /\ \A l \in Lanes : Distinct(q[l])
    /\ \A l \in Lanes : Entries(q[l]) = {t \in Tasks : /\ LaneOf[t] = l
                                                       /\ pr[t] = "pending"
                                                       /\ bodies[t] = "idle"}
    /\ \A l \in Lanes : act[l] = {t \in Tasks : /\ LaneOf[t] = l
                                                /\ pr[t] = "pending"
                                                /\ bodies[t] = "running"
                                                /\ taskGeneration[t] = gen[l]}
    /\ \A t \in Tasks : taskGeneration[t] <= gen[LaneOf[t]]
    /\ \A t \in Tasks : pr[t] = "none" => bodies[t] = "idle"

LaneTypes(q, act, limit, gen, bodies) ==
    /\ q \in [Lanes -> Seq(Tasks)]
    /\ act \in [Lanes -> SUBSET Tasks]
    /\ limit \in [Lanes -> Nat]
    /\ gen \in [Lanes -> Nat]
    /\ bodies \in [Tasks -> Bodies]
    /\ taskGeneration \in [Tasks -> Nat]

\* A handler that leaves queues q, active sets act and bodies bodies accounted
\* for, and pumps every lane it may have made room in, re-establishes LaneInv.
LEMMA DrainEstablishes ==
    ASSUME NEW D \in SUBSET Lanes, NEW q, NEW act, NEW limit, NEW gen, NEW bodies,
           LaneTypes(q, act, limit, gen, bodies),
           Accounted(q, act, gen, promise', bodies),
           \A l \in Lanes \ D : q[l] # <<>> => Cardinality(act[l]) >= limit[l],
           Drain(D, q, act, limit, gen, bodies),
           generation' = gen, maxConcurrent' = limit
    PROVE  DrainPost(D, q, act, limit, gen, bodies) /\ LaneInv'
<1> DEFINE St == Started(D, q, act, limit)
<1>0. \A t \in Tasks : LaneOf[t] \in Lanes
  BY CommandQueueAssumption
<1>1. \A l \in Lanes : Distinct(q[l]) /\ Entries(q[l]) \cap act[l] = {}
  BY DEF Accounted
<1>2. \A l \in Lanes : \A t \in Entries(q[l]) : t \in Tasks /\ LaneOf[t] = l
  BY DEF Accounted
<1>3. DrainPost(D, q, act, limit, gen, bodies)
  BY <1>1, <1>2, DrainEffect DEF LaneTypes
<1>4. /\ \A t \in St : t \in Tasks /\ t \in Entries(q[LaneOf[t]])
      /\ \A l \in Lanes :
            /\ Distinct(queue'[l])
            /\ Entries(queue'[l]) = Entries(q[l]) \ St
            /\ active'[l] = act[l] \cup (Entries(q[l]) \cap St)
      /\ \A l \in D : queue'[l] # <<>> => Cardinality(active'[l]) >= limit[l]
      /\ \A l \in Lanes \ D : queue'[l] = q[l] /\ active'[l] = act[l]
      /\ \A t \in Tasks :
            /\ taskGeneration'[t] = IF t \in St THEN gen[LaneOf[t]] ELSE taskGeneration[t]
            /\ body'[t] = IF t \in St THEN "running" ELSE bodies[t]
  BY <1>3 DEF DrainPost
<1> HIDE DEF St
<1>5. EntriesQueuedOnce'
  BY <1>0, <1>4 DEF EntriesQueuedOnce, QueuedIn, Accounted
<1>6. SlotsMatchRunningEntries'
  BY <1>0, <1>4 DEF SlotsMatchRunningEntries, Accounted
<1>7. WorkConserving'
  BY <1>4 DEF WorkConserving
<1>8. GenerationsBounded'
  <2>1. ASSUME NEW t \in Tasks PROVE taskGeneration'[t] <= generation'[LaneOf[t]]
    <3>1. gen[LaneOf[t]] \in Nat /\ taskGeneration[t] \in Nat
      BY <1>0 DEF LaneTypes
    <3>2. taskGeneration[t] <= gen[LaneOf[t]]
      BY DEF Accounted
    <3>3. taskGeneration'[t] = gen[LaneOf[t]] \/ taskGeneration'[t] = taskGeneration[t]
      BY <1>4
    <3> QED
      BY <3>1, <3>2, <3>3
  <2>2. ASSUME NEW t \in Tasks, promise'[t] = "none" PROVE body'[t] = "idle"
    <3>1. bodies[t] = "idle" /\ t \notin Entries(q[LaneOf[t]])
      BY <1>0, <2>2 DEF Accounted
    <3> QED
      BY <1>4, <3>1
  <2> QED
    BY <2>1, <2>2 DEF GenerationsBounded
<1> QED
  BY <1>3, <1>5, <1>6, <1>7, <1>8 DEF LaneInv

-----------------------------------------------------------------------------
(* Every action preserves the invariant. *)

IInv == TypeOK /\ LaneInv

\* The fresh queue state of getQueueState and getLaneState satisfies the invariant.
LEMMA InitIInv == Init => IInv
<1> SUFFICES ASSUME Init PROVE IInv
  OBVIOUS
<1>1. TypeOK
  <2>1. <<>> \in Seq(Tasks)
    BY EmptySeq
  <2> QED
    BY <2>1 DEF Init, TypeOK, PromiseStates, WaiterStates
<1>2. \A l \in Lanes : queue[l] = <<>> /\ Len(queue[l]) = 0
  BY DEF Init
<1>3. EntriesQueuedOnce
  BY <1>2 DEF Init, EntriesQueuedOnce, QueuedIn, Entries, Distinct
<1>4. SlotsMatchRunningEntries /\ WorkConserving
  BY <1>2 DEF Init, SlotsMatchRunningEntries, WorkConserving
<1>5. GenerationsBounded
  BY CommandQueueAssumption DEF Init, GenerationsBounded
<1> QED
  BY <1>1, <1>3, <1>4, <1>5 DEF IInv, LaneInv

\* push of an entry that is not queued yet: it becomes one of the queue's entries
\* and the queue still holds none twice (enqueueCommandInLane).
LEMMA AppendEntry ==
    ASSUME NEW q \in Seq(Tasks), NEW t \in Tasks, Distinct(q), t \notin Entries(q)
    PROVE  /\ Append(q, t) \in Seq(Tasks)
           /\ Entries(Append(q, t)) = Entries(q) \cup {t}
           /\ Distinct(Append(q, t))
<1>1. /\ Len(q) \in Nat
      /\ Append(q, t) \in Seq(Tasks)
      /\ Len(Append(q, t)) = Len(q) + 1
      /\ \A i \in 1..Len(q) : Append(q, t)[i] = q[i]
      /\ Append(q, t)[Len(q) + 1] = t
  BY LenProperties, AppendProperties
<1> DEFINE r == Append(q, t)
<1> HIDE DEF r
<1>2. 1..Len(r) = (1..Len(q)) \cup {Len(q) + 1}
  BY <1>1 DEF r
<1>3. Entries(r) = Entries(q) \cup {t}
  <2>1. ASSUME NEW x \in Entries(r) PROVE x \in Entries(q) \cup {t}
    BY <1>1, <1>2 DEF Entries, r
  <2>2. ASSUME NEW x \in Entries(q) PROVE x \in Entries(r)
    BY <1>1, <1>2 DEF Entries, r
  <2>3. t \in Entries(r)
    BY <1>1, <1>2 DEF Entries, r
  <2> QED
    BY <2>1, <2>2, <2>3
<1>4. Distinct(r)
  BY <1>1, <1>2 DEF Distinct, Entries, r
<1> QED
  BY <1>1, <1>3, <1>4 DEF r

\* enqueueCommandInLane, the pump it ends in included, preserves the invariant.
LEMMA EnqueuePreserves ==
    ASSUME IInv, NEW t \in Tasks, EnqueueCommandInLane(t)
    PROVE  IInv'
<1> DEFINE k == LaneOf[t]
           q == [queue EXCEPT ![k] = Append(queue[k], t)]
<1> USE DEF IInv, LaneInv
<1>0. k \in Lanes /\ \A u \in Tasks : LaneOf[u] \in Lanes
  BY CommandQueueAssumption
<1>1. body[t] = "idle" /\ promise[t] = "none" /\ t \notin Entries(queue[k])
  BY <1>0 DEF EnqueueCommandInLane, GenerationsBounded, EntriesQueuedOnce, QueuedIn
<1>2. promise' = [promise EXCEPT ![t] = "pending"]
  BY DEF EnqueueCommandInLane
<1>3. /\ q[k] \in Seq(Tasks)
      /\ Entries(q[k]) = Entries(queue[k]) \cup {t}
      /\ Distinct(q[k])
      /\ \A l \in Lanes \ {k} : q[l] = queue[l]
  <2>1. queue[k] \in Seq(Tasks) /\ Distinct(queue[k])
    BY <1>0 DEF TypeOK, EntriesQueuedOnce
  <2> QED
    BY <1>0, <1>1, <2>1, AppendEntry DEF TypeOK
<1>4. q \in [Lanes -> Seq(Tasks)]
  BY <1>0, <1>3 DEF TypeOK
<1>5. Drain({k}, q, active, maxConcurrent, generation, body)
  BY DEF EnqueueCommandInLane
<1> HIDE DEF q
<1>6. \A l \in Lanes : Distinct(q[l])
  BY <1>3 DEF EntriesQueuedOnce
<1>7. \A l \in Lanes : Entries(q[l]) = {u \in Tasks : /\ LaneOf[u] = l
                                                      /\ promise'[u] = "pending"
                                                      /\ body[u] = "idle"}
  BY <1>0, <1>1, <1>2, <1>3 DEF EntriesQueuedOnce, QueuedIn, TypeOK
<1>8. \A l \in Lanes : active[l] = {u \in Tasks : /\ LaneOf[u] = l
                                                   /\ promise'[u] = "pending"
                                                   /\ body[u] = "running"
                                                   /\ taskGeneration[u] = generation[l]}
  BY <1>1, <1>2 DEF SlotsMatchRunningEntries, TypeOK
<1>9. \A l \in Lanes \ {k} : q[l] # <<>> => Cardinality(active[l]) >= maxConcurrent[l]
  BY <1>3 DEF WorkConserving
<1>10. \A u \in Tasks : promise'[u] = "none" => body[u] = "idle"
  BY <1>2 DEF GenerationsBounded, TypeOK
<1>11. Accounted(q, active, generation, promise', body)
  BY <1>6, <1>7, <1>8, <1>10 DEF Accounted, GenerationsBounded
<1>12. LaneTypes(q, active, maxConcurrent, generation, body)
  BY <1>4 DEF LaneTypes, TypeOK, Bodies
<1>13. DrainPost({k}, q, active, maxConcurrent, generation, body) /\ LaneInv'
  <2>1. generation' = generation /\ maxConcurrent' = maxConcurrent /\ {k} \in SUBSET Lanes
    BY <1>0 DEF EnqueueCommandInLane
  <2> HIDE DEF IInv, LaneInv, k
  <2> QED
    BY <1>5, <1>9, <1>11, <1>12, <2>1, DrainEstablishes
<1>14. TypeOK'
  BY <1>2, <1>13 DEF TypeOK, DrainPost, Bodies, PromiseStates, EnqueueCommandInLane
<1> QED
  BY <1>13, <1>14

\* FinishEntry of an unsettled running entry (completeTask, the pump and the
\* settling of the promise), for whatever the task left in body.
LEMMA FinishPreserves ==
    ASSUME IInv, NEW t \in Tasks, NEW outcome \in Settled, NEW bodies \in [Tasks -> Bodies],
           body[t] = "running", promise[t] = "pending",
           \A u \in Tasks : u # t => bodies[u] = body[u],
           bodies[t] # "idle",
           FinishEntry(t, outcome, bodies)
    PROVE  IInv'
<1> DEFINE k == LaneOf[t]
           act == CompletedActive(t)
<1> USE DEF IInv, LaneInv
<1>0. k \in Lanes /\ \A u \in Tasks : LaneOf[u] \in Lanes
  BY CommandQueueAssumption
<1>1. /\ promise' = [promise EXCEPT ![t] = outcome]
      /\ UNCHANGED <<maxConcurrent, generation, gatewayDraining>>
  BY DEF FinishEntry
<1>2. outcome # "pending" /\ outcome # "none" /\ outcome \in PromiseStates
  BY DEF Settled
<1>3. promise' \in [Tasks -> PromiseStates] /\ promise'[t] = outcome
         /\ \A u \in Tasks : u # t => promise'[u] = promise[u]
  BY <1>1, <1>2 DEF TypeOK
<1>4. \A u \in Tasks : promise'[u] = "none" => bodies[u] = "idle"
  BY <1>2, <1>3 DEF GenerationsBounded
<1>5. \A l \in Lanes : Entries(queue[l]) = {u \in Tasks : /\ LaneOf[u] = l
                                                          /\ promise'[u] = "pending"
                                                          /\ bodies[u] = "idle"}
  BY <1>2, <1>3 DEF EntriesQueuedOnce, QueuedIn
<1>6. CASE taskGeneration[t] = generation[k]
  <2>1. act \in [Lanes -> SUBSET Tasks]
    BY <1>0 DEF TypeOK, CompletedActive
  <2>2. \A l \in Lanes : act[l] = {u \in Tasks : /\ LaneOf[u] = l
                                                 /\ promise'[u] = "pending"
                                                 /\ bodies[u] = "running"
                                                 /\ taskGeneration[u] = generation[l]}
    BY <1>0, <1>2, <1>3 DEF SlotsMatchRunningEntries, CompletedActive, TypeOK
  <2>3. \A l \in Lanes \ {k} : act[l] = active[l]
    BY DEF CompletedActive, TypeOK
  <2>4. Drain({k}, queue, act, maxConcurrent, generation, bodies)
    BY <1>6 DEF FinishEntry
  <2>5. waiter' \in [Waiters -> [status : WaiterStates, ids : SUBSET Tasks]]
    <3>1. NotifyActiveTaskWaiters(act)
      BY <1>6 DEF FinishEntry
    <3> QED
      BY <3>1 DEF NotifyActiveTaskWaiters, TypeOK, WaiterStates
  <2> HIDE DEF act
  <2>6. Accounted(queue, act, generation, promise', bodies)
    BY <1>4, <1>5, <2>2 DEF Accounted, GenerationsBounded, EntriesQueuedOnce
  <2>7. LaneTypes(queue, act, maxConcurrent, generation, bodies)
    BY <2>1 DEF LaneTypes, TypeOK
  <2>8. \A l \in Lanes \ {k} : queue[l] # <<>> => Cardinality(act[l]) >= maxConcurrent[l]
    BY <2>3 DEF WorkConserving
  <2>9. DrainPost({k}, queue, act, maxConcurrent, generation, bodies) /\ LaneInv'
    <3>1. generation' = generation /\ maxConcurrent' = maxConcurrent /\ {k} \in SUBSET Lanes
      BY <1>0, <1>1
    <3> HIDE DEF IInv, LaneInv, k
    <3> QED
      BY <2>4, <2>6, <2>7, <2>8, <3>1, DrainEstablishes
  <2>10. TypeOK'
    BY <1>1, <1>3, <2>5, <2>9 DEF TypeOK, DrainPost, Bodies
  <2> QED
    BY <2>9, <2>10
<1>7. CASE taskGeneration[t] # generation[k]
  <2>1. body' = bodies /\ UNCHANGED <<queue, active, taskGeneration, waiter>>
    BY <1>7 DEF FinishEntry
  <2>2. EntriesQueuedOnce'
    BY <1>5, <2>1 DEF EntriesQueuedOnce, QueuedIn
  <2>3. SlotsMatchRunningEntries'
    BY <1>0, <1>1, <1>2, <1>3, <1>7, <2>1 DEF SlotsMatchRunningEntries
  <2>4. WorkConserving' /\ GenerationsBounded'
    BY <1>1, <1>4, <2>1 DEF WorkConserving, GenerationsBounded
  <2>5. TypeOK'
    BY <1>1, <1>3, <2>1 DEF TypeOK, Bodies
  <2> QED
    BY <2>2, <2>3, <2>4, <2>5
<1> QED
  BY <1>6, <1>7

\* setCommandLaneConcurrency preserves the invariant: a limit of 0, for which it
\* does not pump, makes no room.
LEMMA SetConcurrencyPreserves ==
    ASSUME IInv, NEW k \in Lanes, NEW n \in Int, SetCommandLaneConcurrency(k, n)
    PROVE  IInv'
<1> DEFINE D == IF LimitFor(k, n) > 0 THEN {k} ELSE {}
           limit == [maxConcurrent EXCEPT ![k] = LimitFor(k, n)]
<1> USE DEF IInv, LaneInv
<1>1. LimitFor(k, n) \in Nat
  BY DEF LimitFor, MinConcurrent
<1>2. limit \in [Lanes -> Nat] /\ D \in SUBSET Lanes
  BY <1>1 DEF TypeOK
<1>3. \A l \in Lanes \ D : queue[l] # <<>> => Cardinality(active[l]) >= limit[l]
  <2> TAKE l \in Lanes \ D
  <2>1. CASE l = k
    <3>1. limit[l] = 0
      BY <1>1, <2>1 DEF TypeOK
    <3>2. active[l] \in SUBSET Tasks
      BY DEF TypeOK
    <3>3. Cardinality(active[l]) \in Nat
      BY <3>2, CommandQueueAssumption, FS_Subset, FS_CardinalityType
    <3> QED
      BY <3>1, <3>3
  <2>2. CASE l # k
    BY <2>2 DEF TypeOK, WorkConserving
  <2> QED
    BY <2>1, <2>2
<1>4. /\ maxConcurrent' = limit
      /\ Drain(D, queue, active, limit, generation, body)
      /\ UNCHANGED <<generation, gatewayDraining, promise, waiter>>
  BY DEF SetCommandLaneConcurrency
<1> HIDE DEF limit, D
<1>5. Accounted(queue, active, generation, promise', body)
  BY <1>4 DEF Accounted, EntriesQueuedOnce, QueuedIn, SlotsMatchRunningEntries, GenerationsBounded
<1>6. LaneTypes(queue, active, limit, generation, body)
  BY <1>2 DEF LaneTypes, TypeOK, Bodies
<1>7. DrainPost(D, queue, active, limit, generation, body) /\ LaneInv'
  <2> HIDE DEF IInv, LaneInv
  <2> QED
    BY <1>2, <1>3, <1>4, <1>5, <1>6, DrainEstablishes
<1>8. TypeOK'
  BY <1>2, <1>4, <1>7 DEF TypeOK, DrainPost, Bodies
<1> QED
  BY <1>7, <1>8

\* resetCommandLane and resetAllLanes preserve the invariant: tasks of the earlier
\* generation are released and stay released.
LEMMA ResetPreserves ==
    ASSUME IInv, NEW R \in SUBSET Lanes, ResetLanes(R), gatewayDraining' \in BOOLEAN
    PROVE  IInv'
<1> DEFINE gen == [l \in Lanes |-> IF l \in R THEN generation[l] + 1 ELSE generation[l]]
           act == [l \in Lanes |-> IF l \in R THEN {} ELSE active[l]]
<1> USE DEF IInv, LaneInv
<1>0. \A u \in Tasks : LaneOf[u] \in Lanes
  BY CommandQueueAssumption
<1>1. gen \in [Lanes -> Nat] /\ act \in [Lanes -> SUBSET Tasks]
  BY DEF TypeOK
<1>2. /\ generation' = gen
      /\ Drain(R, queue, act, maxConcurrent, gen, body)
      /\ NotifyActiveTaskWaiters(active')
      /\ UNCHANGED <<maxConcurrent, promise>>
  BY DEF ResetLanes
<1>3. \A l \in Lanes : act[l] = {u \in Tasks : /\ LaneOf[u] = l
                                               /\ promise'[u] = "pending"
                                               /\ body[u] = "running"
                                               /\ taskGeneration[u] = gen[l]}
  <2> TAKE l \in Lanes
  <2>1. CASE l \in R
    <3>1. \A u \in Tasks : LaneOf[u] = l => taskGeneration[u] # gen[l]
      BY <2>1 DEF GenerationsBounded, TypeOK
    <3> QED
      BY <2>1, <3>1
  <2>2. CASE l \notin R
    BY <1>2, <2>2 DEF SlotsMatchRunningEntries
  <2> QED
    BY <2>1, <2>2
<1>4. \A u \in Tasks : taskGeneration[u] <= gen[LaneOf[u]]
  BY <1>0 DEF GenerationsBounded, TypeOK
<1>5. \A l \in Lanes \ R : queue[l] # <<>> => Cardinality(act[l]) >= maxConcurrent[l]
  BY DEF WorkConserving
<1> HIDE DEF gen, act
<1>6. Accounted(queue, act, gen, promise', body)
  BY <1>2, <1>3, <1>4 DEF Accounted, EntriesQueuedOnce, QueuedIn, GenerationsBounded
<1>7. LaneTypes(queue, act, maxConcurrent, gen, body)
  BY <1>1 DEF LaneTypes, TypeOK, Bodies
<1>8. DrainPost(R, queue, act, maxConcurrent, gen, body) /\ LaneInv'
  <2> HIDE DEF IInv, LaneInv
  <2> QED
    BY <1>2, <1>5, <1>6, <1>7, DrainEstablishes
<1>9. waiter' \in [Waiters -> [status : WaiterStates, ids : SUBSET Tasks]]
  BY <1>2 DEF NotifyActiveTaskWaiters, TypeOK, WaiterStates
<1>10. TypeOK'
  BY <1>1, <1>2, <1>8, <1>9 DEF TypeOK, DrainPost, Bodies
<1> QED
  BY <1>8, <1>10

\* clearCommandLane preserves the invariant: the entries it takes out are rejected.
LEMMA ClearPreserves ==
    ASSUME IInv, NEW k \in Lanes, ClearCommandLane(k)
    PROVE  IInv'
<1> USE DEF IInv, LaneInv
<1>1. /\ queue' = [queue EXCEPT ![k] = <<>>]
      /\ promise' = [u \in Tasks |-> IF u \in QueuedIn(k) THEN "cleared" ELSE promise[u]]
      /\ UNCHANGED <<active, maxConcurrent, generation, gatewayDraining,
                     taskGeneration, body, waiter>>
  BY DEF ClearCommandLane
<1>2. <<>> \in Seq(Tasks) /\ Len(<<>>) = 0
  BY EmptySeq
<1>3. \A l \in Lanes : queue'[l] = IF l = k THEN <<>> ELSE queue[l]
  BY <1>1 DEF TypeOK
<1>4. QueuedIn(k) = {u \in Tasks : /\ LaneOf[u] = k
                                   /\ promise[u] = "pending"
                                   /\ body[u] = "idle"}
  BY DEF EntriesQueuedOnce
<1>5. Entries(<<>>) = {} /\ Distinct(<<>>)
  BY <1>2 DEF Entries, Distinct
<1>6. EntriesQueuedOnce'
  <2>1. ASSUME NEW l \in Lanes
        PROVE  Entries(queue'[l]) = {u \in Tasks : /\ LaneOf[u] = l
                                                   /\ promise'[u] = "pending"
                                                   /\ body[u] = "idle"}
    <3>1. CASE l = k
      BY <1>1, <1>3, <1>4, <1>5, <3>1
    <3>2. CASE l # k
      <4>1. Entries(queue'[l]) = {u \in Tasks : /\ LaneOf[u] = l
                                                /\ promise[u] = "pending"
                                                /\ body[u] = "idle"}
        BY <1>3, <3>2 DEF EntriesQueuedOnce, QueuedIn
      <4>2. \A u \in Tasks : LaneOf[u] = l => promise'[u] = promise[u]
        BY <1>1, <1>4, <3>2
      <4> QED
        BY <4>1, <4>2
    <3> QED
      BY <3>1, <3>2
  <2>2. \A l \in Lanes : Distinct(queue'[l])
    BY <1>3, <1>5 DEF EntriesQueuedOnce
  <2> QED
    BY <1>1, <2>1, <2>2 DEF EntriesQueuedOnce, QueuedIn
<1>7. SlotsMatchRunningEntries'
  BY <1>1, <1>4 DEF SlotsMatchRunningEntries
<1>8. WorkConserving'
  BY <1>1, <1>3 DEF WorkConserving
<1>9. GenerationsBounded'
  BY <1>1 DEF GenerationsBounded
<1>10. TypeOK'
  BY <1>1, <1>2 DEF TypeOK, PromiseStates
<1> QED
  BY <1>6, <1>7, <1>8, <1>9, <1>10

\* A step that changes none of queue, active, limits, generations and captured
\* generations, and keeps pending entries and idle and running bodies as they are.
LEMMA QuietPreserves ==
    ASSUME IInv, TypeOK', UNCHANGED <<laneVars, taskGeneration>>,
           \A u \in Tasks : /\ promise'[u] = "pending" <=> promise[u] = "pending"
                            /\ promise[u] = "pending" => body'[u] = body[u]
                            /\ promise'[u] = "none" => body'[u] = "idle"
    PROVE  IInv'
<1> USE DEF IInv, LaneInv, laneVars
<1>1. EntriesQueuedOnce'
  BY DEF EntriesQueuedOnce, QueuedIn
<1>2. SlotsMatchRunningEntries'
  BY DEF SlotsMatchRunningEntries
<1>3. WorkConserving' /\ GenerationsBounded'
  BY DEF WorkConserving, GenerationsBounded
<1> QED
  BY <1>1, <1>2, <1>3

\* Every handler of the command queue preserves the invariant.
LEMMA NextPreserves == IInv /\ [Next]_vars => IInv'
<1> SUFFICES ASSUME IInv, [Next]_vars PROVE IInv'
  OBVIOUS
<1>0. TypeOK /\ GenerationsBounded
  BY DEF IInv, LaneInv
<1>1. ASSUME NEW t \in Tasks, EnqueueCommandInLane(t) PROVE IInv'
  BY <1>1, EnqueuePreserves
<1>2. ASSUME NEW t \in Tasks, RefuseCommand(t) PROVE IInv'
  <2>1. TypeOK'
    BY <1>0, <1>2 DEF TypeOK, RefuseCommand, laneVars, PromiseStates
  <2>2. \A u \in Tasks : /\ promise'[u] = "pending" <=> promise[u] = "pending"
                         /\ promise[u] = "pending" => body'[u] = body[u]
                         /\ promise'[u] = "none" => body'[u] = "idle"
    BY <1>0, <1>2 DEF TypeOK, RefuseCommand, GenerationsBounded
  <2>3. UNCHANGED <<laneVars, taskGeneration>>
    BY <1>2 DEF RefuseCommand
  <2> QED
    BY <2>1, <2>2, <2>3, QuietPreserves
<1>3. ASSUME NEW t \in Tasks, TaskSettles(t) PROVE IInv'
  <2> DEFINE bodies == [body EXCEPT ![t] = "ended"]
  <2>1. /\ body[t] = "running" /\ promise[t] = "pending"
        /\ bodies \in [Tasks -> Bodies]
        /\ \A u \in Tasks : u # t => bodies[u] = body[u]
        /\ bodies[t] # "idle"
    BY <1>0, <1>3 DEF TaskSettles, TypeOK, Bodies
  <2>2. PICK outcome \in {"resolved", "rejected"} : FinishEntry(t, outcome, bodies)
    BY <1>3 DEF TaskSettles
  <2>3. outcome \in Settled
    BY DEF Settled, PromiseStates
  <2> HIDE DEF bodies
  <2> QED
    BY <2>1, <2>2, <2>3, FinishPreserves
<1>4. ASSUME NEW t \in Tasks, TaskTimesOut(t) PROVE IInv'
  <2>1. /\ body[t] = "running" /\ promise[t] = "pending"
        /\ FinishEntry(t, "timedOut", body)
        /\ body \in [Tasks -> Bodies] /\ body[t] # "idle"
        /\ "timedOut" \in Settled
    BY <1>0, <1>4 DEF TaskTimesOut, TypeOK, Bodies, Settled, PromiseStates
  <2> QED
    BY <2>1, FinishPreserves
<1>5. ASSUME NEW t \in Tasks, LateSettle(t) PROVE IInv'
  <2>1. TypeOK'
    BY <1>0, <1>5 DEF TypeOK, LateSettle, laneVars
  <2>2. \A u \in Tasks : /\ promise'[u] = "pending" <=> promise[u] = "pending"
                         /\ promise[u] = "pending" => body'[u] = body[u]
                         /\ promise'[u] = "none" => body'[u] = "idle"
    BY <1>0, <1>5 DEF TypeOK, LateSettle, GenerationsBounded
  <2>3. UNCHANGED <<laneVars, taskGeneration>>
    BY <1>5 DEF LateSettle
  <2> QED
    BY <2>1, <2>2, <2>3, QuietPreserves
<1>6. ASSUME NEW l \in Lanes, NEW n \in -1..MaxLimit, SetCommandLaneConcurrency(l, n)
      PROVE  IInv'
  <2>1. n \in Int
    BY CommandQueueAssumption
  <2> QED
    BY <1>6, <2>1, SetConcurrencyPreserves
<1>7. ASSUME NEW l \in Lanes, ClearCommandLane(l) PROVE IInv'
  BY <1>7, ClearPreserves
<1>8. ASSUME NEW l \in Lanes, ResetCommandLane(l) PROVE IInv'
  <2>1. {l} \in SUBSET Lanes /\ ResetLanes({l}) /\ gatewayDraining' \in BOOLEAN
    BY <1>0, <1>8 DEF ResetCommandLane, TypeOK
  <2> QED
    BY <2>1, ResetPreserves
<1>9. ASSUME ResetAllLanes PROVE IInv'
  <2>1. Lanes \in SUBSET Lanes /\ ResetLanes(Lanes) /\ gatewayDraining' \in BOOLEAN
    BY <1>9 DEF ResetAllLanes
  <2> QED
    BY <2>1, ResetPreserves
<1>10. ASSUME UNCHANGED <<laneVars, taskVars>>, TypeOK' PROVE IInv'
  BY <1>0, <1>10, QuietPreserves DEF taskVars, GenerationsBounded
<1>11. ASSUME MarkGatewayDraining PROVE IInv'
  <2>1. TypeOK' /\ UNCHANGED <<laneVars, taskVars>>
    BY <1>0, <1>11 DEF MarkGatewayDraining, TypeOK, laneVars, taskVars
  <2> QED
    BY <1>10, <2>1
<1>12. ASSUME NEW w \in Waiters, NEW p \in BOOLEAN, WaitForActiveTasks(w, p) PROVE IInv'
  <2>1. ActiveIds(active) \in SUBSET Tasks
    BY <1>0 DEF ActiveIds, TypeOK
  <2>2. waiter' \in [Waiters -> [status : WaiterStates, ids : SUBSET Tasks]]
    BY <1>0, <1>12, <2>1 DEF WaitForActiveTasks, CaptureActiveTasks, TypeOK, WaiterStates
  <2>3. TypeOK' /\ UNCHANGED <<laneVars, taskVars>>
    BY <1>0, <1>12, <2>2 DEF WaitForActiveTasks, TypeOK, laneVars, taskVars
  <2> QED
    BY <1>10, <2>3
<1>13. ASSUME NEW w \in Waiters, WaiterTimesOut(w) PROVE IInv'
  <2>1. waiter' \in [Waiters -> [status : WaiterStates, ids : SUBSET Tasks]]
    BY <1>0, <1>13 DEF WaiterTimesOut, TypeOK, WaiterStates
  <2>2. TypeOK' /\ UNCHANGED <<laneVars, taskVars>>
    BY <1>0, <1>13, <2>1 DEF WaiterTimesOut, TypeOK, laneVars, taskVars
  <2> QED
    BY <1>10, <2>2
<1>14. ASSUME UNCHANGED vars PROVE IInv'
  <2>1. TypeOK' /\ UNCHANGED <<laneVars, taskVars>>
    BY <1>0, <1>14 DEF vars, TypeOK, laneVars, taskVars
  <2> QED
    BY <1>10, <2>1
<1> QED
  BY <1>1, <1>2, <1>3, <1>4, <1>5, <1>6, <1>7, <1>8, <1>9, <1>11, <1>12, <1>13, <1>14
     DEF Next

\* The invariant holds in every state the command queue reaches.
LEMMA Inductive == Spec => []IInv
<1> QED
  BY InitIInv, NextPreserves, PTL DEF Spec

-----------------------------------------------------------------------------
(* The waiters of waitForActiveTasks. *)

\* The entries counted as active, by what SlotsMatchRunningEntries says of them.
LEMMA ActiveEntries ==
    ASSUME IInv
    PROVE  ActiveIds(active) = {t \in Tasks : /\ promise[t] = "pending"
                                             /\ body[t] = "running"
                                             /\ taskGeneration[t] = generation[LaneOf[t]]}
<1>1. \A t \in Tasks : LaneOf[t] \in Lanes
  BY CommandQueueAssumption
<1> QED
  BY <1>1 DEF IInv, LaneInv, SlotsMatchRunningEntries, ActiveIds

\* The same, of the state a step leads to.
LEMMA ActiveEntriesNext ==
    ASSUME IInv'
    PROVE  ActiveIds(active)' = {t \in Tasks : /\ promise'[t] = "pending"
                                              /\ body'[t] = "running"
                                              /\ taskGeneration'[t] = generation'[LaneOf[t]]}
<1>1. \A t \in Tasks : LaneOf[t] \in Lanes
  BY CommandQueueAssumption
<1> QED
  BY <1>1 DEF IInv, LaneInv, SlotsMatchRunningEntries, ActiveIds

\* What the pump starts was queued in one of the lanes it drains.
LEMMA StartedWereQueued ==
    ASSUME NEW D \in SUBSET Lanes,
           NEW q \in [Lanes -> Seq(Tasks)], NEW act \in [Lanes -> SUBSET Tasks],
           NEW limit \in [Lanes -> Nat],
           NEW t \in Started(D, q, act, limit)
    PROVE  \E l \in D : t \in Entries(q[l])
<1>1. PICK l \in D : t \in PumpedTasks(q[l], act[l], limit[l])
  BY DEF Started
<1>2. q[l] \in Seq(Tasks) /\ act[l] \in SUBSET Tasks /\ limit[l] \in Nat
  OBVIOUS
<1>3. PumpCount(q[l], act[l], limit[l]) \in 0..Len(q[l]) /\ Len(q[l]) \in Nat
  BY <1>2, PumpCountRange, LenProperties
<1> QED
  BY <1>1, <1>3 DEF PumpedTasks, Entries

\* A waiter captured entries that had begun to execute: a drain can never make one
\* of them active again.
CapturedHadBegun == \A w \in Waiters : \A t \in waiter[w].ids : body[t] # "idle"

WaiterInv == CapturedHadBegun /\ NoLostWaiterWakeup /\ DrainedTasksStayReleased

\* What every handler does to an entry that has begun: it stays begun, and a handler
\* that leaves the waiters alone releases none.
StillBegun == \A t \in Tasks : body[t] # "idle" => body'[t] # "idle"

NoneReleased ==
    \A t \in Tasks : body[t] # "idle" => (t \in ActiveIds(active) <=> t \in ActiveIds(active)')

OnlyReleases ==
    \A t \in Tasks : body[t] # "idle" /\ t \in ActiveIds(active)' => t \in ActiveIds(active)

\* A handler that starts queued entries only and leaves the waiters alone.
LEMMA QuietForWaiters ==
    ASSUME IInv, WaiterInv, StillBegun, NoneReleased, waiter' = waiter
    PROVE  WaiterInv'
<1> USE DEF WaiterInv
<1>0. \A w \in Waiters : waiter[w].ids \subseteq Tasks
  BY DEF IInv, TypeOK
<1>1. CapturedHadBegun'
  BY <1>0 DEF CapturedHadBegun, StillBegun
<1>2. \A w \in Waiters : waiter[w].ids \cap ActiveIds(active) = waiter[w].ids \cap ActiveIds(active)'
  BY <1>0 DEF CapturedHadBegun, NoneReleased
<1>3. NoLostWaiterWakeup'
  BY <1>2 DEF NoLostWaiterWakeup
<1>4. DrainedTasksStayReleased'
  BY <1>2 DEF DrainedTasksStayReleased
<1> QED
  BY <1>1, <1>3, <1>4

\* A handler that releases entries and notifies the waiters with the active sets
\* act it then has: entries started after that do not concern a waiter.
LEMMA ReleaseNotifies ==
    ASSUME IInv, WaiterInv, StillBegun, OnlyReleases, NEW act,
           \A t \in Tasks : body[t] # "idle" => (t \in ActiveIds(act) <=> t \in ActiveIds(active)'),
           NotifyActiveTaskWaiters(act)
    PROVE  WaiterInv'
<1> USE DEF WaiterInv
<1>0. \A w \in Waiters : /\ waiter[w].ids \subseteq Tasks
                         /\ waiter[w] \in [status : WaiterStates, ids : SUBSET Tasks]
  BY DEF IInv, TypeOK
<1>1. \A w \in Waiters :
         waiter'[w] = IF waiter[w].status = "waiting" /\ waiter[w].ids \cap ActiveIds(act) = {}
                      THEN [waiter[w] EXCEPT !.status = "drained"]
                      ELSE waiter[w]
  BY DEF NotifyActiveTaskWaiters
<1>2. \A w \in Waiters :
         /\ waiter'[w].ids = waiter[w].ids
         /\ waiter'[w].status =
               IF waiter[w].status = "waiting" /\ waiter[w].ids \cap ActiveIds(act) = {}
               THEN "drained" ELSE waiter[w].status
  BY <1>0, <1>1
<1>3. CapturedHadBegun'
  BY <1>0, <1>2 DEF CapturedHadBegun, StillBegun
<1>4. \A w \in Waiters :
         /\ waiter[w].ids \cap ActiveIds(act) = waiter[w].ids \cap ActiveIds(active)'
         /\ waiter[w].ids \cap ActiveIds(active)' \subseteq waiter[w].ids \cap ActiveIds(active)
  BY <1>0 DEF CapturedHadBegun, OnlyReleases
<1>5. NoLostWaiterWakeup'
  BY <1>2, <1>4 DEF NoLostWaiterWakeup
<1>6. DrainedTasksStayReleased'
  BY <1>2, <1>4 DEF DrainedTasksStayReleased
<1> QED
  BY <1>3, <1>5, <1>6

\* Entries that have begun are untouched by a drain of the present queues.
LEMMA DrainSparesBegun ==
    ASSUME IInv, NEW D \in SUBSET Lanes, NEW act \in [Lanes -> SUBSET Tasks],
           NEW limit \in [Lanes -> Nat], NEW gen, NEW bodies,
           Drain(D, queue, act, limit, gen, bodies)
    PROVE  \A t \in Tasks : body[t] # "idle" => /\ body'[t] = bodies[t]
                                                /\ taskGeneration'[t] = taskGeneration[t]
<1>1. queue \in [Lanes -> Seq(Tasks)]
  BY DEF IInv, TypeOK
<1>2. \A l \in D : \A t \in Entries(queue[l]) : body[t] = "idle"
  BY DEF IInv, LaneInv, EntriesQueuedOnce, QueuedIn
<1>3. \A t \in Started(D, queue, act, limit) : body[t] = "idle"
  BY <1>1, <1>2, StartedWereQueued
<1> QED
  BY <1>3 DEF Drain

\* A completion or a lane timeout resolves the waiters it leaves without a task.
LEMMA FinishNotifies ==
    ASSUME IInv, IInv', WaiterInv, NEW t \in Tasks, NEW outcome \in Settled,
           NEW bodies \in [Tasks -> Bodies],
           body[t] = "running", promise[t] = "pending",
           \A u \in Tasks : u # t => bodies[u] = body[u], bodies[t] # "idle",
           FinishEntry(t, outcome, bodies)
    PROVE  WaiterInv'
<1> DEFINE act == CompletedActive(t)
<1>0. LaneOf[t] \in Lanes /\ outcome # "pending"
  BY CommandQueueAssumption DEF Settled
<1>1. /\ promise' = [promise EXCEPT ![t] = outcome]
      /\ promise \in [Tasks -> PromiseStates]
      /\ active \in [Lanes -> SUBSET Tasks] /\ maxConcurrent \in [Lanes -> Nat]
      /\ UNCHANGED <<maxConcurrent, generation>>
  BY DEF FinishEntry, IInv, TypeOK
<1>2. ActiveIds(active) = {u \in Tasks : /\ promise[u] = "pending"
                                        /\ body[u] = "running"
                                        /\ taskGeneration[u] = generation[LaneOf[u]]}
  BY ActiveEntries
<1>3. ActiveIds(active)' = {u \in Tasks : /\ promise'[u] = "pending"
                                         /\ body'[u] = "running"
                                         /\ taskGeneration'[u] = generation[LaneOf[u]]}
  BY <1>1, ActiveEntriesNext
<1>4. CASE taskGeneration[t] = generation[LaneOf[t]]
  <2>1. /\ Drain({LaneOf[t]}, queue, act, maxConcurrent, generation, bodies)
        /\ NotifyActiveTaskWaiters(act)
    BY <1>4 DEF FinishEntry
  <2>2. act \in [Lanes -> SUBSET Tasks] /\ {LaneOf[t]} \in SUBSET Lanes
    BY <1>0, <1>1 DEF CompletedActive
  <2>3. ActiveIds(act) = ActiveIds(active) \ {t}
    <3>1. \A l \in Lanes : \A u \in active[l] : LaneOf[u] = l
      BY DEF IInv, LaneInv, SlotsMatchRunningEntries
    <3>2. \A l \in Lanes : act[l] = active[l] \ {t}
      BY <1>0, <1>1, <3>1 DEF CompletedActive
    <3> QED
      BY <3>2 DEF ActiveIds
  <2> HIDE DEF act
  <2>4. \A u \in Tasks : body[u] # "idle" => /\ body'[u] = bodies[u]
                                             /\ taskGeneration'[u] = taskGeneration[u]
    BY <1>1, <2>1, <2>2, DrainSparesBegun
  <2>5. StillBegun
    BY <2>4 DEF StillBegun
  <2>6. \A u \in Tasks : body[u] # "idle" => (u \in ActiveIds(act) <=> u \in ActiveIds(active)')
    BY <1>0, <1>1, <1>2, <1>3, <2>3, <2>4
  <2>7. OnlyReleases
    BY <2>3, <2>6 DEF OnlyReleases
  <2> QED
    BY <2>1, <2>5, <2>6, <2>7, ReleaseNotifies
<1>5. CASE taskGeneration[t] # generation[LaneOf[t]]
  <2>1. body' = bodies /\ UNCHANGED <<active, taskGeneration, waiter>>
    BY <1>5 DEF FinishEntry
  <2>2. StillBegun /\ NoneReleased
    BY <2>1 DEF StillBegun, NoneReleased, ActiveIds
  <2> QED
    BY <2>1, <2>2, QuietForWaiters
<1> QED
  BY <1>4, <1>5

\* A reset releases all tasks of its lanes and resolves their waiters.
LEMMA ResetNotifies ==
    ASSUME IInv, IInv', WaiterInv, NEW R \in SUBSET Lanes, ResetLanes(R)
    PROVE  WaiterInv'
<1> DEFINE gen == [l \in Lanes |-> IF l \in R THEN generation[l] + 1 ELSE generation[l]]
           act == [l \in Lanes |-> IF l \in R THEN {} ELSE active[l]]
<1>1. /\ generation' = gen
      /\ Drain(R, queue, act, maxConcurrent, gen, body)
      /\ NotifyActiveTaskWaiters(active')
      /\ promise' = promise
  BY DEF ResetLanes
<1>2. act \in [Lanes -> SUBSET Tasks] /\ maxConcurrent \in [Lanes -> Nat]
  BY DEF IInv, TypeOK
<1>3. ASSUME NEW t \in Tasks, taskGeneration[t] = gen[LaneOf[t]]
      PROVE  taskGeneration[t] = generation[LaneOf[t]]
  <2>1. LaneOf[t] \in Lanes
    BY CommandQueueAssumption
  <2>2. /\ taskGeneration[t] \in Nat /\ generation[LaneOf[t]] \in Nat
        /\ taskGeneration[t] <= generation[LaneOf[t]]
    BY <2>1 DEF IInv, LaneInv, TypeOK, GenerationsBounded
  <2> QED
    BY <1>3, <2>1, <2>2
<1> HIDE DEF act, gen
<1>4. \A u \in Tasks : body[u] # "idle" => /\ body'[u] = body[u]
                                           /\ taskGeneration'[u] = taskGeneration[u]
  BY <1>1, <1>2, DrainSparesBegun
<1>5. StillBegun
  BY <1>4 DEF StillBegun
<1>6. OnlyReleases
  <2>1. ActiveIds(active)' = {u \in Tasks : /\ promise'[u] = "pending"
                                           /\ body'[u] = "running"
                                           /\ taskGeneration'[u] = generation'[LaneOf[u]]}
    BY ActiveEntriesNext
  <2> QED
    BY <1>1, <1>3, <1>4, <2>1, ActiveEntries DEF OnlyReleases
<1>7. ActiveIds(active)' = ActiveIds(active')
  BY DEF ActiveIds
<1> QED
  BY <1>1, <1>5, <1>6, <1>7, ReleaseNotifies

\* waitForActiveTasks: what is captured has begun, and is active if it is waited for.
LEMMA CaptureNotifies ==
    ASSUME IInv, WaiterInv, NEW w \in Waiters, NEW p \in BOOLEAN,
           CaptureActiveTasks(w, p), UNCHANGED <<active, body>>
    PROVE  WaiterInv'
<1>1. \A t \in ActiveIds(active) : body[t] # "idle"
  BY ActiveEntries
<1>2. \A v \in Waiters :
         IF v = w THEN /\ waiter'[v].ids = ActiveIds(active)
                       /\ waiter'[v].status = IF ActiveIds(active) = {} THEN "drained"
                                              ELSE IF p THEN "waiting" ELSE "notDrained"
         ELSE waiter'[v] = waiter[v]
  BY DEF CaptureActiveTasks, IInv, TypeOK
<1>3. ActiveIds(active)' = ActiveIds(active)
  BY DEF ActiveIds
<1>4. CapturedHadBegun'
  BY <1>1, <1>2 DEF CapturedHadBegun, WaiterInv
<1>5. NoLostWaiterWakeup'
  BY <1>2, <1>3 DEF NoLostWaiterWakeup, WaiterInv
<1>6. DrainedTasksStayReleased'
  BY <1>2, <1>3 DEF DrainedTasksStayReleased, WaiterInv
<1> QED
  BY <1>4, <1>5, <1>6 DEF WaiterInv

\* Every handler of the command queue keeps the waiters' invariant.
LEMMA NextNotifies == IInv /\ IInv' /\ WaiterInv /\ [Next]_vars => WaiterInv'
<1> SUFFICES ASSUME IInv, IInv', WaiterInv, [Next]_vars PROVE WaiterInv'
  OBVIOUS
<1>0. TypeOK /\ GenerationsBounded
  BY DEF IInv, LaneInv
<1>1. ASSUME NEW t \in Tasks, EnqueueCommandInLane(t) PROVE WaiterInv'
  <2> DEFINE q == [queue EXCEPT ![LaneOf[t]] = Append(@, t)]
  <2>0. LaneOf[t] \in Lanes
    BY CommandQueueAssumption
  <2>1. /\ promise[t] = "none" /\ promise' = [promise EXCEPT ![t] = "pending"]
        /\ Drain({LaneOf[t]}, q, active, maxConcurrent, generation, body)
        /\ UNCHANGED <<generation, waiter>>
    BY <1>1 DEF EnqueueCommandInLane
  <2>2. /\ q \in [Lanes -> Seq(Tasks)] /\ active \in [Lanes -> SUBSET Tasks]
        /\ maxConcurrent \in [Lanes -> Nat]
    BY <1>0, <2>0 DEF TypeOK
  <2>3. \A u \in Entries(q[LaneOf[t]]) : body[u] = "idle"
    <3>1. /\ queue[LaneOf[t]] \in Seq(Tasks) /\ Distinct(queue[LaneOf[t]])
          /\ \A u \in Entries(queue[LaneOf[t]]) : body[u] = "idle" /\ promise[u] = "pending"
      BY <1>0, <2>0 DEF TypeOK, IInv, LaneInv, EntriesQueuedOnce, QueuedIn
    <3>2. t \notin Entries(queue[LaneOf[t]]) /\ body[t] = "idle"
      BY <1>0, <2>1, <3>1 DEF GenerationsBounded
    <3>3. q[LaneOf[t]] = Append(queue[LaneOf[t]], t)
      BY <1>0, <2>0 DEF TypeOK
    <3>4. Entries(q[LaneOf[t]]) = Entries(queue[LaneOf[t]]) \cup {t}
      BY <3>1, <3>2, <3>3, AppendEntry
    <3> QED
      BY <3>1, <3>2, <3>4
  <2> HIDE DEF q
  <2>4. \A u \in Started({LaneOf[t]}, q, active, maxConcurrent) : body[u] = "idle"
    BY <2>0, <2>2, <2>3, StartedWereQueued, SMTT(30)
  <2>5. \A u \in Tasks : body[u] # "idle" => /\ body'[u] = body[u]
                                             /\ taskGeneration'[u] = taskGeneration[u]
    BY <2>1, <2>4 DEF Drain
  <2>6. \A u \in Tasks : body[u] # "idle" => promise'[u] = promise[u]
    BY <1>0, <2>1 DEF TypeOK, GenerationsBounded
  <2>7. ActiveIds(active)' = {u \in Tasks : /\ promise'[u] = "pending"
                                           /\ body'[u] = "running"
                                           /\ taskGeneration'[u] = generation'[LaneOf[u]]}
    BY ActiveEntriesNext
  <2>8. StillBegun /\ NoneReleased
    BY <2>1, <2>5, <2>6, <2>7, ActiveEntries DEF StillBegun, NoneReleased
  <2> QED
    BY <2>1, <2>8, QuietForWaiters
<1>2. ASSUME UNCHANGED <<active, body, waiter>> PROVE WaiterInv'
  <2>1. StillBegun /\ NoneReleased
    BY <1>2 DEF StillBegun, NoneReleased, ActiveIds
  <2> QED
    BY <1>2, <2>1, QuietForWaiters
<1>3. ASSUME NEW t \in Tasks, RefuseCommand(t) PROVE WaiterInv'
  BY <1>2, <1>3 DEF RefuseCommand, laneVars
<1>4. ASSUME NEW t \in Tasks, TaskSettles(t) PROVE WaiterInv'
  <2> DEFINE bodies == [body EXCEPT ![t] = "ended"]
  <2>1. /\ body[t] = "running" /\ promise[t] = "pending"
        /\ bodies \in [Tasks -> Bodies]
        /\ \A u \in Tasks : u # t => bodies[u] = body[u]
        /\ bodies[t] # "idle"
    BY <1>0, <1>4 DEF TaskSettles, TypeOK, Bodies
  <2>2. PICK outcome \in {"resolved", "rejected"} : FinishEntry(t, outcome, bodies)
    BY <1>4 DEF TaskSettles
  <2>3. outcome \in Settled
    BY DEF Settled, PromiseStates
  <2> HIDE DEF bodies
  <2> QED
    BY <2>1, <2>2, <2>3, FinishNotifies
<1>5. ASSUME NEW t \in Tasks, TaskTimesOut(t) PROVE WaiterInv'
  <2>1. /\ body[t] = "running" /\ promise[t] = "pending"
        /\ FinishEntry(t, "timedOut", body)
        /\ body \in [Tasks -> Bodies] /\ body[t] # "idle"
        /\ "timedOut" \in Settled
    BY <1>0, <1>5 DEF TaskTimesOut, TypeOK, Bodies, Settled, PromiseStates
  <2> QED
    BY <2>1, FinishNotifies
<1>6. ASSUME NEW t \in Tasks, LateSettle(t) PROVE WaiterInv'
  <2>1. StillBegun /\ NoneReleased /\ waiter' = waiter
    BY <1>0, <1>6 DEF LateSettle, laneVars, TypeOK, StillBegun, NoneReleased, ActiveIds
  <2> QED
    BY <2>1, QuietForWaiters
<1>7. ASSUME NEW l \in Lanes, NEW n \in -1..MaxLimit, SetCommandLaneConcurrency(l, n)
      PROVE  WaiterInv'
  <2> DEFINE D == IF LimitFor(l, n) > 0 THEN {l} ELSE {}
  <2>1. /\ Drain(D, queue, active, maxConcurrent', generation, body)
        /\ UNCHANGED <<generation, promise, waiter>>
        /\ D \in SUBSET Lanes
    BY <1>7 DEF SetCommandLaneConcurrency
  <2>2. active \in [Lanes -> SUBSET Tasks] /\ maxConcurrent' \in [Lanes -> Nat]
    BY <1>0 DEF TypeOK, IInv
  <2> HIDE DEF D
  <2>3. \A u \in Tasks : body[u] # "idle" => /\ body'[u] = body[u]
                                             /\ taskGeneration'[u] = taskGeneration[u]
    BY <2>1, <2>2, DrainSparesBegun
  <2>4. ActiveIds(active)' = {u \in Tasks : /\ promise'[u] = "pending"
                                           /\ body'[u] = "running"
                                           /\ taskGeneration'[u] = generation'[LaneOf[u]]}
    BY ActiveEntriesNext
  <2>5. StillBegun /\ NoneReleased
    BY <2>1, <2>3, <2>4, ActiveEntries DEF StillBegun, NoneReleased
  <2> QED
    BY <2>1, <2>5, QuietForWaiters
<1>8. ASSUME NEW l \in Lanes, ClearCommandLane(l) PROVE WaiterInv'
  BY <1>2, <1>8 DEF ClearCommandLane
<1>9. ASSUME NEW l \in Lanes, ResetCommandLane(l) PROVE WaiterInv'
  <2>1. {l} \in SUBSET Lanes /\ ResetLanes({l})
    BY <1>9 DEF ResetCommandLane
  <2> QED
    BY <2>1, ResetNotifies
<1>10. ASSUME ResetAllLanes PROVE WaiterInv'
  <2>1. Lanes \in SUBSET Lanes /\ ResetLanes(Lanes)
    BY <1>10 DEF ResetAllLanes
  <2> QED
    BY <2>1, ResetNotifies
<1>11. ASSUME MarkGatewayDraining PROVE WaiterInv'
  BY <1>2, <1>11 DEF MarkGatewayDraining, laneVars, taskVars
<1>12. ASSUME NEW w \in Waiters, NEW p \in BOOLEAN, WaitForActiveTasks(w, p) PROVE WaiterInv'
  BY <1>12, CaptureNotifies DEF WaitForActiveTasks, laneVars, taskVars
<1>13. ASSUME NEW w \in Waiters, WaiterTimesOut(w) PROVE WaiterInv'
  <2>1. UNCHANGED <<active, body>> /\ waiter' = [waiter EXCEPT ![w].status = "notDrained"]
    BY <1>13 DEF WaiterTimesOut, laneVars, taskVars
  <2>2. \A v \in Waiters :
           /\ waiter'[v].ids = waiter[v].ids
           /\ waiter'[v].status = IF v = w THEN "notDrained" ELSE waiter[v].status
    BY <1>0, <2>1 DEF TypeOK
  <2>3. ActiveIds(active)' = ActiveIds(active)
    BY <2>1 DEF ActiveIds
  <2>4. CapturedHadBegun'
    BY <2>1, <2>2 DEF CapturedHadBegun, WaiterInv
  <2>5. NoLostWaiterWakeup' /\ DrainedTasksStayReleased'
    BY <2>2, <2>3 DEF NoLostWaiterWakeup, DrainedTasksStayReleased, WaiterInv
  <2> QED
    BY <2>4, <2>5 DEF WaiterInv
<1>14. ASSUME UNCHANGED vars PROVE WaiterInv'
  BY <1>2, <1>14 DEF vars
<1> QED
  BY <1>1, <1>3, <1>4, <1>5, <1>6, <1>7, <1>8, <1>9, <1>10, <1>11, <1>12, <1>13, <1>14 DEF Next

\* The waiters' invariant holds in every state the command queue reaches.
LEMMA WaitersInductive == Spec => []WaiterInv
<1>1. Init => WaiterInv
  BY DEF Init, WaiterInv, CapturedHadBegun, NoLostWaiterWakeup, DrainedTasksStayReleased,
         ActiveIds
<1> QED
  BY <1>1, NextNotifies, Inductive, PTL DEF Spec

-----------------------------------------------------------------------------
(* Starts within the limits. *)

\* Queues q and active sets act a drain can begin with.
Drainable(q, act) ==
    /\ q \in [Lanes -> Seq(Tasks)]
    /\ act \in [Lanes -> SUBSET Tasks]
    /\ \A l \in Lanes : Distinct(q[l]) /\ Entries(q[l]) \cap act[l] = {}

\* The present queues, and active sets that lost some of their entries.
LEMMA PresentDrainable ==
    ASSUME IInv, NEW act \in [Lanes -> SUBSET Tasks], \A l \in Lanes : act[l] \subseteq active[l]
    PROVE  Drainable(queue, act)
<1>1. \A l \in Lanes : /\ \A t \in Entries(queue[l]) : body[t] = "idle"
                       /\ \A t \in active[l] : body[t] = "running"
  BY DEF IInv, LaneInv, EntriesQueuedOnce, QueuedIn, SlotsMatchRunningEntries
<1>2. \A l \in Lanes : Distinct(queue[l])
  BY DEF IInv, LaneInv, EntriesQueuedOnce
<1> QED
  BY <1>1, <1>2 DEF Drainable, IInv, TypeOK

\* The queues after an entry was pushed (enqueueCommandInLane).
LEMMA PushedDrainable ==
    ASSUME IInv, NEW t \in Tasks, promise[t] = "none"
    PROVE  Drainable([queue EXCEPT ![LaneOf[t]] = Append(@, t)], active)
<1> DEFINE k == LaneOf[t]
           q == [queue EXCEPT ![k] = Append(@, t)]
<1>0. k \in Lanes
  BY CommandQueueAssumption
<1>1. Drainable(queue, active)
  BY PresentDrainable DEF IInv, TypeOK
<1>2. t \notin Entries(queue[k]) /\ t \notin active[k]
  BY <1>0 DEF IInv, LaneInv, EntriesQueuedOnce, QueuedIn, SlotsMatchRunningEntries
<1>3. queue[k] \in Seq(Tasks) /\ Distinct(queue[k])
  BY <1>0, <1>1 DEF Drainable
<1>4. /\ Append(queue[k], t) \in Seq(Tasks)
      /\ Entries(Append(queue[k], t)) = Entries(queue[k]) \cup {t}
      /\ Distinct(Append(queue[k], t))
  BY <1>2, <1>3, AppendEntry
<1>5. \A l \in Lanes : q[l] = IF l = k THEN Append(queue[k], t) ELSE queue[l]
  BY <1>0, <1>1 DEF Drainable
<1>6. q \in [Lanes -> Seq(Tasks)]
  BY <1>1, <1>4 DEF Drainable
<1> HIDE DEF q, k
<1>7. Drainable(q, active)
  BY <1>1, <1>2, <1>4, <1>5, <1>6 DEF Drainable
<1> QED
  BY <1>7 DEF q, k

\* A drain that starts entries in a lane leaves the lane within its limit.
LEMMA DrainWithinLimit ==
    ASSUME NEW D \in SUBSET Lanes, NEW q, NEW act, Drainable(q, act),
           NEW limit \in [Lanes -> Nat], NEW gen, NEW bodies,
           Drain(D, q, act, limit, gen, bodies),
           NEW l \in Lanes, act[l] \subseteq active[l], active'[l] \ active[l] # {}
    PROVE  Cardinality(active'[l]) <= limit[l]
<1>1. /\ q[l] \in Seq(Tasks) /\ act[l] \in SUBSET Tasks /\ limit[l] \in Nat
      /\ Distinct(q[l]) /\ Entries(q[l]) \cap act[l] = {}
  BY DEF Drainable
<1>2. active'[l] = IF l \in D THEN act[l] \cup PumpedTasks(q[l], act[l], limit[l]) ELSE act[l]
  BY DEF Drain
<1>3. /\ active'[l] = act[l] \cup PumpedTasks(q[l], act[l], limit[l])
      /\ PumpedTasks(q[l], act[l], limit[l]) # {}
  BY <1>2
<1> QED
  BY <1>1, <1>3, PumpFillsLane

\* What StartsWithinLimit says of one step.
WithinLimit ==
    \A l \in Lanes :
        active'[l] \ active[l] # {} => Cardinality(active'[l]) <= maxConcurrent'[l]

\* Every handler of the command queue that starts tasks stays within the limit.
LEMMA NextWithinLimit == IInv /\ [Next]_vars => WithinLimit
<1> SUFFICES ASSUME IInv, [Next]_vars PROVE WithinLimit
  OBVIOUS
<1>0. TypeOK
  BY DEF IInv
<1>1. ASSUME active' = active PROVE WithinLimit
  BY <1>1 DEF WithinLimit
<1>2. ASSUME NEW D \in SUBSET Lanes, NEW q, NEW act, NEW gen, NEW bodies,
             NEW limit \in [Lanes -> Nat], maxConcurrent' = limit,
             Drainable(q, act), \A l \in Lanes : act[l] \subseteq active[l],
             Drain(D, q, act, limit, gen, bodies)
      PROVE  WithinLimit
  BY <1>2, DrainWithinLimit DEF WithinLimit
<1>3. ASSUME NEW t \in Tasks, EnqueueCommandInLane(t) PROVE WithinLimit
  <2> DEFINE q == [queue EXCEPT ![LaneOf[t]] = Append(@, t)]
  <2>1. /\ promise[t] = "none" /\ {LaneOf[t]} \in SUBSET Lanes
        /\ Drain({LaneOf[t]}, q, active, maxConcurrent, generation, body)
        /\ maxConcurrent' = maxConcurrent /\ maxConcurrent \in [Lanes -> Nat]
    BY <1>0, <1>3, CommandQueueAssumption DEF EnqueueCommandInLane, TypeOK
  <2>2. Drainable(q, active)
    BY <2>1, PushedDrainable
  <2> HIDE DEF q
  <2> QED
    BY <1>2, <2>1, <2>2
<1>4. ASSUME NEW t \in Tasks, NEW outcome, NEW bodies, FinishEntry(t, outcome, bodies)
      PROVE  WithinLimit
  <2>1. CASE taskGeneration[t] = generation[LaneOf[t]]
    <3> DEFINE act == CompletedActive(t)
    <3>1. /\ act \in [Lanes -> SUBSET Tasks] /\ \A l \in Lanes : act[l] \subseteq active[l]
          /\ {LaneOf[t]} \in SUBSET Lanes
      BY <1>0, CommandQueueAssumption DEF CompletedActive, TypeOK
    <3>2. /\ Drain({LaneOf[t]}, queue, act, maxConcurrent, generation, bodies)
          /\ maxConcurrent' = maxConcurrent /\ maxConcurrent \in [Lanes -> Nat]
      BY <1>0, <1>4, <2>1 DEF FinishEntry, TypeOK
    <3> HIDE DEF act
    <3>3. Drainable(queue, act)
      BY <3>1, PresentDrainable
    <3> QED
      BY <1>2, <3>1, <3>2, <3>3
  <2>2. CASE taskGeneration[t] # generation[LaneOf[t]]
    BY <1>1, <1>4, <2>2 DEF FinishEntry
  <2> QED
    BY <2>1, <2>2
<1>5. ASSUME NEW t \in Tasks, TaskSettles(t) PROVE WithinLimit
  BY <1>4, <1>5 DEF TaskSettles
<1>6. ASSUME NEW t \in Tasks, TaskTimesOut(t) PROVE WithinLimit
  BY <1>4, <1>6 DEF TaskTimesOut
<1>7. ASSUME NEW l \in Lanes, NEW n \in -1..MaxLimit, SetCommandLaneConcurrency(l, n)
      PROVE  WithinLimit
  <2> DEFINE D == IF LimitFor(l, n) > 0 THEN {l} ELSE {}
  <2>1. Drain(D, queue, active, maxConcurrent', generation, body) /\ D \in SUBSET Lanes
    BY <1>7 DEF SetCommandLaneConcurrency
  <2>2. LimitFor(l, n) \in Nat
    BY CommandQueueAssumption DEF LimitFor, MinConcurrent
  <2>3. maxConcurrent' \in [Lanes -> Nat]
    BY <1>0, <1>7, <2>2 DEF SetCommandLaneConcurrency, TypeOK
  <2>4. Drainable(queue, active)
    BY <1>0, PresentDrainable DEF TypeOK
  <2> HIDE DEF D
  <2> QED
    BY <1>2, <2>1, <2>3, <2>4
<1>8. ASSUME NEW R \in SUBSET Lanes, ResetLanes(R) PROVE WithinLimit
  <2> DEFINE act == [l \in Lanes |-> IF l \in R THEN {} ELSE active[l]]
  <2>1. act \in [Lanes -> SUBSET Tasks] /\ \A l \in Lanes : act[l] \subseteq active[l]
    BY <1>0 DEF TypeOK
  <2>2. /\ Drain(R, queue, act, maxConcurrent, generation', body)
        /\ maxConcurrent' = maxConcurrent /\ maxConcurrent \in [Lanes -> Nat]
    BY <1>0, <1>8 DEF ResetLanes, TypeOK
  <2> HIDE DEF act
  <2>3. Drainable(queue, act)
    BY <2>1, PresentDrainable
  <2> QED
    BY <1>2, <2>1, <2>2, <2>3
<1>9. ASSUME NEW l \in Lanes, ResetCommandLane(l) PROVE WithinLimit
  <2>1. {l} \in SUBSET Lanes /\ ResetLanes({l})
    BY <1>9 DEF ResetCommandLane
  <2> QED
    BY <1>8, <2>1
<1>10. ASSUME ResetAllLanes PROVE WithinLimit
  <2>1. Lanes \in SUBSET Lanes /\ ResetLanes(Lanes)
    BY <1>10 DEF ResetAllLanes
  <2> QED
    BY <1>8, <2>1
<1>11. ASSUME \/ \E t \in Tasks : RefuseCommand(t) \/ LateSettle(t)
              \/ \E l \in Lanes : ClearCommandLane(l)
              \/ MarkGatewayDraining
              \/ \E w \in Waiters, p \in BOOLEAN : WaitForActiveTasks(w, p)
              \/ \E w \in Waiters : WaiterTimesOut(w)
              \/ UNCHANGED vars
       PROVE  WithinLimit
  <2>1. active' = active
    BY <1>11 DEF RefuseCommand, LateSettle, ClearCommandLane, MarkGatewayDraining,
                 WaitForActiveTasks, WaiterTimesOut, vars, laneVars
  <2> QED
    BY <1>1, <2>1
<1> QED
  BY <1>3, <1>5, <1>6, <1>7, <1>9, <1>10, <1>11 DEF Next

-----------------------------------------------------------------------------
(* The theorems. *)

\* Every variable of the command queue keeps its type; in particular no request
\* makes a lane limit negative (setCommandLaneConcurrency).
THEOREM TypeCorrect == Spec => []TypeOK
<1>1. IInv => TypeOK
  BY DEF IInv
<1> QED
  BY <1>1, Inductive, PTL

\* enqueueCommandInLane, the pump and clearCommandLane neither lose nor duplicate
\* nor misfile an entry.
THEOREM QueueKeepsEntries == Spec => []EntriesQueuedOnce
<1>1. IInv => EntriesQueuedOnce
  BY DEF IInv, LaneInv
<1> QED
  BY <1>1, Inductive, PTL

\* No execution slot leaks or is freed twice, across completions, lane timeouts
\* and the resets that make earlier completions stale (completeTask).
THEOREM SlotsNeverLeak == Spec => []SlotsMatchRunningEntries
<1>1. IInv => SlotsMatchRunningEntries
  BY DEF IInv, LaneInv
<1> QED
  BY <1>1, Inductive, PTL

\* No handler forgets to pump: a lane with queued entries is always full.
THEOREM LanesWorkConserving == Spec => []WorkConserving
<1>1. IInv => WorkConserving
  BY DEF IInv, LaneInv
<1> QED
  BY <1>1, Inductive, PTL

\* No lost wake-up of waitForActiveTasks: a waiter that still waits has a captured
\* task that is still active, whichever handler released the others.
THEOREM WaitersAreWoken == Spec => []NoLostWaiterWakeup
<1>1. WaiterInv => NoLostWaiterWakeup
  BY DEF WaiterInv
<1> QED
  BY <1>1, WaitersInductive, PTL

\* What waitForActiveTasks reported as drained never becomes active again.
THEOREM DrainedIsFinal == Spec => []DrainedTasksStayReleased
<1>1. WaiterInv => DrainedTasksStayReleased
  BY DEF WaiterInv
<1> QED
  BY <1>1, WaitersInductive, PTL

\* The pump never overfills a lane, although a limit may have been lowered below
\* the number of active tasks (setCommandLaneConcurrency).
THEOREM StartsStayWithinLimit == Spec => StartsWithinLimit
<1>1. IInv /\ [Next]_vars => [WithinLimit]_vars
  BY NextWithinLimit
<1>2. Spec => [][WithinLimit]_vars
  BY <1>1, Inductive, PTL DEF Spec
<1> QED
  BY <1>2 DEF StartsWithinLimit, WithinLimit
=============================================================================
