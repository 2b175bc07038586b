------------------------ MODULE HeartbeatWakeProofs ------------------------
(***************************************************************************)
(* Proofs about the wake layer, for any targets and any number of          *)
(* requests, faults, hanging handlers and registrations.                   *)
(***************************************************************************)
EXTENDS HeartbeatWake, TLAPS, FiniteSetTheorems, WellFoundedInduction

-----------------------------------------------------------------------------
(* Queueing wakes. *)

\* The targets of a sequence of wakes, and that they differ.
TargetsOf(s) == {s[i].target : i \in DOMAIN s}
DistinctTargets(s) == \A i, j \in DOMAIN s : s[i].target = s[j].target => i = j

\* A sequence has a wake of the target with the priority or a higher one.
Covers(s, t, p) == \E i \in DOMAIN s : s[i].target = t /\ s[i].priority >= p

\* What queueing makes of a map: no target twice, and nothing that was covered is not.
WellQueued(s) == s \in Seq(Wakes) /\ DistinctTargets(s)
KeepsCover(s, r) == \A t \in Targets, p \in Nat : Covers(s, t, p) => Covers(r, t, p)

\* The types of a wake.
LEMMA WakeFields ==
    ASSUME NEW wake \in Wakes
    PROVE  wake.priority \in Nat /\ wake.priority > 0 /\ wake.target \in Targets
<1>1. wake.priority \in Priorities /\ wake.target \in Targets
  BY DEF Wakes
<1>2. Priorities \subseteq 1..3
  BY HeartbeatWakeAssumption
<1>3. wake.priority \in 1..3
  BY <1>1, <1>2, Zenon
<1>4. wake.priority \in Nat /\ wake.priority > 0
  BY <1>3
<1> QED
  BY <1>1, <1>4

\* queuePendingWakeReason adds the target once and lowers no priority.
LEMMA QueueOne ==
    ASSUME NEW s, WellQueued(s), NEW wake \in Wakes
    PROVE  /\ WellQueued(QueuePendingWakeReason(s, wake))
           /\ TargetsOf(QueuePendingWakeReason(s, wake)) = TargetsOf(s) \cup {wake.target}
           /\ KeepsCover(s, QueuePendingWakeReason(s, wake))
           /\ Covers(QueuePendingWakeReason(s, wake), wake.target, wake.priority)
<1> DEFINE r == QueuePendingWakeReason(s, wake)
<1>1. s \in Seq(Wakes) /\ DistinctTargets(s)
  BY DEF WellQueued
<1>2. \A i \in DOMAIN s : s[i] \in Wakes /\ s[i].priority \in Nat /\ s[i].target \in Targets
  <2>1. \A i \in DOMAIN s : s[i] \in Wakes
    BY <1>1
  <2> QED
    BY <2>1, WakeFields
<1>3. wake.priority \in Nat /\ wake.target \in Targets
  BY WakeFields
<1>4. CASE \E i \in DOMAIN s : s[i].target = wake.target
  <2>1. r = [i \in DOMAIN s |->
                IF s[i].target = wake.target /\ wake.priority >= s[i].priority
                THEN wake ELSE s[i]]
    BY <1>4 DEF QueuePendingWakeReason
  <2>2. DOMAIN r = DOMAIN s /\ \A i \in DOMAIN s : r[i] \in Wakes /\ r[i].target = s[i].target
                                                   /\ r[i].priority >= s[i].priority
                                                   /\ r[i].priority \in Nat
                                                   /\ (s[i].target = wake.target => r[i].priority >= wake.priority)
    BY <2>1, <1>2, <1>3
  <2> HIDE DEF r
  <2>3. r \in Seq(Wakes)
    <3>1. DOMAIN s = 1..Len(s) /\ Len(s) \in Nat
      BY <1>1
    <3>2. r \in [1..Len(s) -> Wakes]
      BY <2>1, <2>2, <3>1
    <3> QED
      BY <3>1, <3>2
  <2>4. DistinctTargets(r)
    BY <1>1, <2>2 DEF DistinctTargets
  <2>5. TargetsOf(r) = TargetsOf(s) \cup {wake.target}
    BY <1>4, <2>2 DEF TargetsOf
  <2>6. KeepsCover(s, r)
    BY <1>2, <2>2 DEF KeepsCover, Covers
  <2>7. Covers(r, wake.target, wake.priority)
    BY <1>4, <2>2 DEF Covers
  <2> QED
    BY <2>3, <2>4, <2>5, <2>6, <2>7 DEF WellQueued, r
<1>5. CASE ~\E i \in DOMAIN s : s[i].target = wake.target
  <2>1. r = Append(s, wake)
    BY <1>5 DEF QueuePendingWakeReason
  <2>2. Len(s) \in Nat /\ DOMAIN s = 1..Len(s) /\ r \in Seq(Wakes) /\ DOMAIN r = 1..(Len(s) + 1)
        /\ r[Len(s) + 1] = wake /\ \A i \in 1..Len(s) : r[i] = s[i]
    BY <1>1, <2>1
  <2> HIDE DEF r
  <2>3. DOMAIN r = DOMAIN s \cup {Len(s) + 1} /\ Len(s) + 1 \notin DOMAIN s
    BY <2>2
  <2>4. DistinctTargets(r)
    BY <1>1, <1>5, <2>2, <2>3 DEF DistinctTargets
  <2>5. TargetsOf(r) = TargetsOf(s) \cup {wake.target}
    BY <2>2, <2>3 DEF TargetsOf
  <2>6. KeepsCover(s, r)
    BY <2>2, <2>3 DEF KeepsCover, Covers
  <2>7. Covers(r, wake.target, wake.priority)
    BY <1>3, <2>2, <2>3 DEF Covers
  <2> QED
    BY <2>2, <2>4, <2>5, <2>6, <2>7 DEF WellQueued, r
<1> QED
  BY <1>4, <1>5

\* The least counterexample: the induction that the sequences need.
LEMMA LeastElement ==
    ASSUME NEW T \in SUBSET Nat, T # {}
    PROVE  \E x \in T : \A y \in T : ~(y < x)
<1> DEFINE R == OpToRel(<, Nat)
<1>1. IsWellFoundedOn(R, Nat)
  BY NatLessThanWellFounded
<1>2. \A x, y \in Nat : y < x => <<y, x>> \in R
  BY DEF OpToRel
<1> HIDE DEF R
<1>3. PICK x \in T : \A y \in T : ~(<<y, x>> \in R)
  BY <1>1, WFMin
<1>4. \A y \in T : ~(y < x)
  <2> SUFFICES ASSUME NEW y \in T, y < x PROVE FALSE
    OBVIOUS
  <2>1. x \in Nat /\ y \in Nat
    OBVIOUS
  <2>2. <<y, x>> \in R
    BY <1>2, <2>1
  <2> QED
    BY <1>3, <2>2
<1> QED
  BY <1>4

\* The intermediate maps of QueueAll, for the first m wakes.
After(g, m, s, wakes) ==
    g = [n \in 0..m |-> IF n = 0 THEN s ELSE QueuePendingWakeReason(g[n - 1], wakes[n])]

\* The recursion of QueueAll is defined for every m: otherwise there is a least m for which it is not.
LEMMA AfterExists ==
    ASSUME NEW s, NEW wakes, NEW m \in Nat
    PROVE  \E g : After(g, m, s, wakes)
<1> DEFINE T == {n \in Nat : ~\E g : After(g, n, s, wakes)}
<1> SUFFICES ASSUME T # {} PROVE FALSE
  OBVIOUS
<1>1. PICK x \in T : \A y \in T : ~(y < x)
  BY LeastElement
<1>2. CASE x = 0
  <2> DEFINE g == [n \in 0..0 |-> s]
  <2>1. After(g, 0, s, wakes)
    <3>1. \A n \in 0..0 : n = 0
      OBVIOUS
    <3> QED
      BY <3>1 DEF After
  <2> QED
    BY <1>2, <2>1
<1>3. CASE x # 0
  <2>1. x \in Nat /\ x - 1 \in Nat /\ x - 1 < x
    BY <1>3
  <2>2. x - 1 \notin T
    BY <1>1, <2>1
  <2>3. PICK g : After(g, x - 1, s, wakes)
    BY <2>1, <2>2
  <2> DEFINE h == [n \in 0..x |-> IF n = x THEN QueuePendingWakeReason(g[x - 1], wakes[x]) ELSE g[n]]
  <2>4. \A n \in 0..x : h[n] = IF n = 0 THEN s ELSE QueuePendingWakeReason(h[n - 1], wakes[n])
    <3> SUFFICES ASSUME NEW n \in 0..x
                 PROVE  h[n] = IF n = 0 THEN s ELSE QueuePendingWakeReason(h[n - 1], wakes[n])
      OBVIOUS
    <3>1. CASE n = 0
      <4>1. n # x /\ 0 \in 0..(x - 1)
        BY <2>1, <3>1, <1>3
      <4> QED
        BY <2>3, <3>1, <4>1 DEF After
    <3>2. CASE n = x
      <4>1. h[x] = QueuePendingWakeReason(g[x - 1], wakes[x])
        BY <2>1
      <4>2. x - 1 \in 0..x /\ x - 1 # x
        BY <2>1
      <4>3. h[x - 1] = g[x - 1]
        BY <4>2
      <4> QED
        BY <1>3, <3>2, <4>1, <4>3
    <3>3. CASE n # 0 /\ n # x
      <4>1. n \in 0..(x - 1) /\ n - 1 \in 0..x /\ n - 1 # x
        BY <2>1, <3>3
      <4>2. g[n] = QueuePendingWakeReason(g[n - 1], wakes[n])
        BY <2>3, <3>3, <4>1 DEF After
      <4>3. h[n] = g[n] /\ h[n - 1] = g[n - 1]
        BY <3>3, <4>1
      <4> QED
        BY <3>3, <4>2, <4>3
    <3> QED
      BY <3>1, <3>2, <3>3
  <2>5. h = [n \in 0..x |-> h[n]]
    OBVIOUS
  <2> HIDE DEF h
  <2>6. After(h, x, s, wakes)
    BY <2>4, <2>5 DEF After
  <2> QED
    BY <2>6
<1> QED
  BY <1>2, <1>3

\* The maps QueueAll goes through.
Chain(g, s, wakes) ==
    /\ QueueAll(s, wakes) = g[Len(wakes)]
    /\ g[0] = s
    /\ \A n \in 1..Len(wakes) : g[n] = QueuePendingWakeReason(g[n - 1], wakes[n])

\* The recursive function in QueueAll has the value its definition says.
LEMMA QueueAllSteps ==
    ASSUME NEW s, NEW wakes \in Seq(Wakes)
    PROVE  \E g : Chain(g, s, wakes)
<1> DEFINE P(f) == f = [n \in 0..Len(wakes) |->
                          IF n = 0 THEN s ELSE QueuePendingWakeReason(f[n - 1], wakes[n])]
           g == CHOOSE f : P(f)
<1>1. Len(wakes) \in Nat
  OBVIOUS
<1>2. \E f : P(f)
  <2>1. PICK f : After(f, Len(wakes), s, wakes)
    BY <1>1, AfterExists
  <2>2. P(f)
    BY <2>1 DEF After
  <2> QED
    BY <2>2
<1>3. P(g)
  BY <1>2
<1>4. QueueAll(s, wakes) = g[Len(wakes)]
  BY DEF QueueAll
<1> HIDE DEF g
<1>5. /\ g[0] = s
      /\ \A n \in 1..Len(wakes) : g[n] = QueuePendingWakeReason(g[n - 1], wakes[n])
  <2>1. \A n \in 0..Len(wakes) :
            g[n] = IF n = 0 THEN s ELSE QueuePendingWakeReason(g[n - 1], wakes[n])
    BY <1>3
  <2>2. 0 \in 0..Len(wakes)
    BY <1>1
  <2>3. \A n \in 1..Len(wakes) : n \in 0..Len(wakes) /\ n # 0
    BY <1>1
  <2> QED
    BY <2>1, <2>2, <2>3
<1>6. Chain(g, s, wakes)
  BY <1>4, <1>5 DEF Chain
<1> QED
  BY <1>6

\* Queueing no wake changes nothing.
LEMMA QueueNone ==
    ASSUME NEW s
    PROVE  QueueAll(s, <<>>) = s
<1>1. <<>> \in Seq(Wakes) /\ Len(<<>>) = 0
  OBVIOUS
<1>2. PICK g : Chain(g, s, <<>>)
  BY <1>1, QueueAllSteps
<1> QED
  BY <1>1, <1>2 DEF Chain

\* Queueing a sequence of wakes covers all of them and loses nothing.
LEMMA QueueMany ==
    ASSUME NEW s, WellQueued(s), NEW wakes \in Seq(Wakes)
    PROVE  /\ WellQueued(QueueAll(s, wakes))
           /\ TargetsOf(QueueAll(s, wakes)) = TargetsOf(s) \cup TargetsOf(wakes)
           /\ KeepsCover(s, QueueAll(s, wakes))
           /\ \A i \in DOMAIN wakes : Covers(QueueAll(s, wakes), wakes[i].target, wakes[i].priority)
<1>0. PICK g : Chain(g, s, wakes)
  BY QueueAllSteps
<1>1. /\ QueueAll(s, wakes) = g[Len(wakes)]
      /\ g[0] = s
      /\ \A n \in 1..Len(wakes) : g[n] = QueuePendingWakeReason(g[n - 1], wakes[n])
  BY <1>0 DEF Chain
<1> DEFINE Good(n) == /\ WellQueued(g[n])
                      /\ TargetsOf(g[n]) = TargetsOf(s) \cup {wakes[i].target : i \in 1..n}
                      /\ KeepsCover(s, g[n])
                      /\ \A i \in 1..n : Covers(g[n], wakes[i].target, wakes[i].priority)
           T == {n \in 0..Len(wakes) : ~Good(n)}
<1>2. Len(wakes) \in Nat /\ DOMAIN wakes = 1..Len(wakes)
  OBVIOUS
<1>3. \A i \in 1..Len(wakes) : /\ wakes[i] \in Wakes
                               /\ wakes[i].priority \in Nat /\ wakes[i].target \in Targets
  <2>1. \A i \in 1..Len(wakes) : wakes[i] \in Wakes
    OBVIOUS
  <2> QED
    BY <2>1, WakeFields
<1>4. T = {}
  <2> SUFFICES ASSUME T # {} PROVE FALSE
    OBVIOUS
  <2>1. T \in SUBSET Nat
    BY <1>2
  <2>2. PICK x \in T : \A y \in T : ~(y < x)
    BY <2>1, LeastElement
  <2>3. x \in 0..Len(wakes) /\ ~Good(x)
    BY <2>2
  <2>4. CASE x = 0
    <3>1. KeepsCover(s, s)
      BY DEF KeepsCover
    <3>2. 1..0 = {}
      OBVIOUS
    <3> QED
      BY <1>1, <2>3, <2>4, <3>1, <3>2
  <2>5. CASE x # 0
    <3>1. x - 1 \in 0..Len(wakes) /\ x - 1 < x /\ x \in 1..Len(wakes) /\ x \in Nat
      BY <1>2, <2>3, <2>5
    <3>2. Good(x - 1)
      BY <2>2, <3>1
    <3>3. g[x] = QueuePendingWakeReason(g[x - 1], wakes[x])
      BY <1>1, <3>1
    <3>4. /\ WellQueued(g[x])
          /\ TargetsOf(g[x]) = TargetsOf(g[x - 1]) \cup {wakes[x].target}
          /\ KeepsCover(g[x - 1], g[x])
          /\ Covers(g[x], wakes[x].target, wakes[x].priority)
      BY <1>3, <3>1, <3>2, <3>3, QueueOne
    <3>5. 1..x = 1..(x - 1) \cup {x}
      BY <3>1
    <3>6. TargetsOf(g[x]) = TargetsOf(s) \cup {wakes[i].target : i \in 1..x}
      BY <3>2, <3>4, <3>5
    <3>7. KeepsCover(s, g[x])
      BY <3>2, <3>4 DEF KeepsCover
    <3>8. \A i \in 1..x : Covers(g[x], wakes[i].target, wakes[i].priority)
      <4> SUFFICES ASSUME NEW i \in 1..x
                   PROVE  Covers(g[x], wakes[i].target, wakes[i].priority)
        OBVIOUS
      <4>1. CASE i = x
        BY <3>4, <4>1
      <4>2. CASE i # x
        <5>1. i \in 1..(x - 1) /\ i \in 1..Len(wakes)
          BY <3>1, <4>2
        <5>2. Covers(g[x - 1], wakes[i].target, wakes[i].priority)
          BY <3>2, <5>1
        <5> QED
          BY <1>3, <3>4, <5>1, <5>2 DEF KeepsCover
      <4> QED
        BY <4>1, <4>2
    <3> QED
      BY <2>3, <3>4, <3>6, <3>7, <3>8
  <2> QED
    BY <2>4, <2>5
<1>5. Good(Len(wakes))
  BY <1>2, <1>4
<1>6. {wakes[i].target : i \in 1..Len(wakes)} = TargetsOf(wakes)
  BY <1>2 DEF TargetsOf
<1> QED
  BY <1>1, <1>2, <1>5, <1>6

-----------------------------------------------------------------------------
(* The inductive invariant. *)

\* A batch in flight has an entry at its await and keeps the targets apart, as the
\* map it was taken from.
ProperFlight(f) ==
    /\ f \in Flights
    /\ f.current <= Len(f.batch)
    /\ DistinctTargets(f.batch)

\* The types, as TypeOK has them, and the shape of the batches.
Types ==
    /\ handler \in BOOLEAN /\ scheduled \in BOOLEAN /\ running \in BOOLEAN
    /\ overdue \in BOOLEAN /\ replacedInFlight \in BOOLEAN
    /\ handlerGeneration \in Nat /\ runningOwnerGeneration \in Nat
    /\ requests \in Nat /\ faults \in Nat /\ hangs \in Nat
    /\ WellQueued(pendingWakes)
    /\ timer \in {"none", "normal", "retry"}
    /\ preModelNoopRetryCounts \in [Targets -> 0..NoopRetryCap]
    /\ \A f \in flights : ProperFlight(f)
    /\ owed \in [Targets -> Priorities \cup {0}]

\* The handler and the number of the batch name a batch in flight; a new one gets a
\* name that was never used.
Id(f) == <<f.lifecycle, f.generation>>
NameInv ==
    /\ \A f, g \in flights : Id(f) = Id(g) => f = g
    /\ \A f \in flights : /\ f.lifecycle <= handlerGeneration
                          /\ f.lifecycle = handlerGeneration
                                => f.generation <= runningOwnerGeneration

\* As long as no handler was replaced under a batch, a batch that was not abandoned
\* is the newest one, and it holds the running flag.
SerialInv ==
    ~replacedInFlight =>
        /\ \A f, g \in flights : f.generation = g.generation => f = g
        /\ \A f \in flights : /\ f.generation <= runningOwnerGeneration
                              /\ f.orphan => f.generation < runningOwnerGeneration
                              /\ ~f.orphan => running /\ f.generation = runningOwnerGeneration

\* The batches that still have target t to handle, the one at its await included, and
\* those that have called the handler for it.
Names == {Id(f) : f \in flights}
Handles(f, t) == \E i \in f.current..Len(f.batch) : f.batch[i].target = t
AtEntry(f, t) == f.batch[f.current].target = t
Ahead(t) == {Id(f) : f \in {g \in flights : Handles(g, t)}}
AtAwait(t) == {Id(f) : f \in {g \in flights : AtEntry(g, t)}}
Waiting(t) == IF t \in TargetsOf(pendingWakes) THEN 1 ELSE 0

\* The calls the wakes of a target can still lead to if nothing else happens: each of
\* them one call and NoopRetryCap retries, less the calls made and the retries counted.
DebtOf(waiting, ahead, await, count) == CallsPerRequest * (waiting + ahead) - await - count
Debt(t) == DebtOf(Waiting(t), Cardinality(Ahead(t)), Cardinality(AtAwait(t)),
                  preModelNoopRetryCounts[t])

CreditInv ==
    /\ IsFiniteSet(Names)
    /\ credit \in [Targets -> Int]
    /\ \A t \in Targets : credit[t] >= 0 /\ credit[t] >= Debt(t)

HInv == Types /\ NoStrandedWake /\ NoRequestLost /\ NameInv /\ SerialInv /\ CreditInv

-----------------------------------------------------------------------------
(* What the operators return. *)

\* A new flag leaves a batch what it is.
LEMMA FlagUpdates ==
    ASSUME NEW f, ProperFlight(f), NEW b \in BOOLEAN
    PROVE  /\ ProperFlight([f EXCEPT !.orphan = b])
           /\ ProperFlight([f EXCEPT !.hung = b])
BY DEF ProperFlight, Flights

\* The next entry of a batch that has one.
LEMMA Advance ==
    ASSUME NEW f, ProperFlight(f), f.current # Len(f.batch)
    PROVE  ProperFlight([f EXCEPT !.current = @ + 1, !.hung = FALSE])
<1>1. f.batch \in Seq(Wakes) /\ f.current \in Nat \ {0} /\ Len(f.batch) \in Nat
  BY DEF ProperFlight, Flights
<1>2. f.current + 1 \in Nat \ {0} /\ f.current + 1 <= Len(f.batch)
  BY <1>1 DEF ProperFlight
<1> DEFINE c == f.current + 1
           g == [f EXCEPT !.current = c, !.hung = FALSE]
<1> HIDE DEF c
<1>3. f \in Flights /\ c \in Nat \ {0}
  BY <1>2 DEF ProperFlight, c
<1>4. g \in Flights /\ g.batch = f.batch /\ g.current = c
  BY <1>3 DEF Flights
<1> QED
  BY <1>2, <1>4 DEF ProperFlight, c

\* schedule leaves a timer armed.
LEMMA ScheduleArms ==
    ASSUME NEW armed \in {"none", "normal", "retry"}, NEW kind \in {"normal", "retry"},
           NEW k \in Schedule(armed, kind)
    PROVE  k \in {"normal", "retry"}
BY DEF Schedule

\* A noop is retried up to the cap, and then the count starts again.
LEMMA NoopCounts ==
    ASSUME NEW count \in 0..NoopRetryCap
    PROVE  /\ NoopRetry(count)[2] \in 0..NoopRetryCap
           /\ NoopRetry(count)[1] <=> count < NoopRetryCap
           /\ count < NoopRetryCap => NoopRetry(count)[2] = count + 1
           /\ count = NoopRetryCap => NoopRetry(count)[2] = 0
<1>1. NoopRetryCap \in Nat
  BY HeartbeatWakeAssumption
<1> QED
  BY <1>1 DEF NoopRetry

\* The wake a batch is at, and those around it.
LEMMA CurrentWake ==
    ASSUME NEW f, ProperFlight(f)
    PROVE  /\ f.batch \in Seq(Wakes) /\ Len(f.batch) \in Nat /\ DOMAIN f.batch = 1..Len(f.batch)
           /\ f.current \in 1..Len(f.batch)
           /\ f.batch[f.current] \in Wakes
           /\ \A i \in 1..Len(f.batch) : f.batch[i] \in Wakes
<1>1. f.batch \in Seq(Wakes) /\ f.current \in Nat \ {0} /\ f.current <= Len(f.batch)
  BY DEF ProperFlight, Flights
<1> QED
  BY <1>1

\* An outcome sends the entry back, or the whole batch, or nothing.
LEMMA RequeuedWakes ==
    ASSUME Types, NEW f \in flights, NEW outcome \in Outcomes
    PROVE  /\ Requeued(f, outcome) \in Seq(Wakes)
           /\ DistinctTargets(Requeued(f, outcome))
           /\ outcome = "throws" => Requeued(f, outcome) = f.batch
           /\ outcome = "ran" => Requeued(f, outcome) = <<>>
           /\ outcome = "busy" => Requeued(f, outcome) = <<f.batch[f.current]>>
           /\ outcome = "noop" =>
                Requeued(f, outcome) =
                    IF preModelNoopRetryCounts[f.batch[f.current].target] < NoopRetryCap
                    THEN <<f.batch[f.current]>> ELSE <<>>
<1>1. ProperFlight(f)
  BY DEF Types
<1>2. f.batch \in Seq(Wakes) /\ f.batch[f.current] \in Wakes /\ DistinctTargets(f.batch)
  BY <1>1, CurrentWake DEF ProperFlight
<1>3. f.batch[f.current].target \in Targets
  BY <1>2, WakeFields
<1>4. preModelNoopRetryCounts[f.batch[f.current].target] \in 0..NoopRetryCap
  BY <1>3 DEF Types
<1>5. <<>> \in Seq(Wakes) /\ DistinctTargets(<<>>)
  BY DEF DistinctTargets
<1>6. <<f.batch[f.current]>> \in Seq(Wakes) /\ DistinctTargets(<<f.batch[f.current]>>)
  BY <1>2 DEF DistinctTargets
<1>7. CASE outcome = "ran"
  BY <1>5, <1>7 DEF Requeued
<1>8. CASE outcome = "busy"
  BY <1>6, <1>8 DEF Requeued
<1>9. CASE outcome = "throws"
  BY <1>2, <1>9 DEF Requeued
<1>10. CASE outcome = "noop"
  <2>1. NoopRetry(preModelNoopRetryCounts[f.batch[f.current].target])[1]
            <=> preModelNoopRetryCounts[f.batch[f.current].target] < NoopRetryCap
    BY <1>4, NoopCounts
  <2>2. Requeued(f, outcome) =
            IF NoopRetry(preModelNoopRetryCounts[f.batch[f.current].target])[1]
            THEN <<f.batch[f.current]>> ELSE <<>>
    BY <1>10 DEF Requeued
  <2> QED
    BY <1>5, <1>6, <1>10, <2>1, <2>2
<1> QED
  BY <1>7, <1>8, <1>9, <1>10 DEF Outcomes

\* No outcome counts a target's noop retries beyond the cap.
LEMMA CountsStayCapped ==
    ASSUME Types, NEW f \in flights, NEW outcome \in Outcomes
    PROVE  CountsAfter(f, outcome) \in [Targets -> 0..NoopRetryCap]
<1> DEFINE t == f.batch[f.current].target
<1>1. ProperFlight(f)
  BY DEF Types
<1>2. t \in Targets
  BY <1>1, CurrentWake, WakeFields
<1>3. preModelNoopRetryCounts \in [Targets -> 0..NoopRetryCap] /\ 0 \in 0..NoopRetryCap
  BY HeartbeatWakeAssumption DEF Types
<1>4. NoopRetry(preModelNoopRetryCounts[t])[2] \in 0..NoopRetryCap
  BY <1>2, <1>3, NoopCounts
<1>5. \/ CountsAfter(f, outcome) = preModelNoopRetryCounts
      \/ CountsAfter(f, outcome) = [preModelNoopRetryCounts EXCEPT ![t] = 0]
      \/ CountsAfter(f, outcome) =
            [preModelNoopRetryCounts EXCEPT ![t] = NoopRetry(preModelNoopRetryCounts[t])[2]]
  BY DEF CountsAfter, Outcomes
<1> HIDE DEF t
<1> QED
  BY <1>2, <1>3, <1>4, <1>5

\* A target is owed what it was, or a wake that was sent back.
LEMMA OwedBack ==
    ASSUME owed \in [Targets -> Priorities \cup {0}], NEW wakes \in Seq(Wakes)
    PROVE  /\ OwedAgain(owed, wakes) \in [Targets -> Priorities \cup {0}]
           /\ \A t \in Targets :
                 \/ OwedAgain(owed, wakes)[t] = owed[t]
                 \/ \E i \in DOMAIN wakes : /\ wakes[i].target = t
                                            /\ wakes[i].priority = OwedAgain(owed, wakes)[t]
<1> DEFINE more(t) == {i \in DOMAIN wakes : wakes[i].target = t /\ wakes[i].priority > owed[t]}
           pick(t) == CHOOSE i \in more(t) : TRUE
           owing == OwedAgain(owed, wakes)
<1>1. \A t \in Targets : owing[t] = IF more(t) = {} THEN owed[t] ELSE wakes[pick(t)].priority
  BY DEF OwedAgain
<1>2. owing = [t \in Targets |-> owing[t]]
  BY DEF OwedAgain
<1>3. \A i \in DOMAIN wakes : wakes[i].priority \in Priorities
  <2>1. \A i \in DOMAIN wakes : wakes[i] \in Wakes
    OBVIOUS
  <2> QED
    BY <2>1 DEF Wakes
<1>4. \A t \in Targets : more(t) # {} => pick(t) \in more(t)
  OBVIOUS
<1>5. \A t \in Targets : more(t) # {} => pick(t) \in DOMAIN wakes /\ wakes[pick(t)].target = t
  BY <1>4
<1> HIDE DEF more, pick, owing
<1>6. \A t \in Targets : owing[t] \in Priorities \cup {0}
  BY <1>1, <1>3, <1>5
<1>7. owing \in [Targets -> Priorities \cup {0}]
  BY <1>2, <1>6
<1> QED
  BY <1>1, <1>5, <1>7 DEF owing

-----------------------------------------------------------------------------
(* The types are kept. *)

\* What HandlerSettles computes.
LEMMA SettleFacts ==
    ASSUME Types, NEW f \in flights, NEW outcome \in Outcomes, HandlerSettles(f, outcome)
    PROVE  /\ WellQueued(pendingWakes')
           /\ TargetsOf(pendingWakes') = TargetsOf(pendingWakes) \cup TargetsOf(Requeued(f, outcome))
           /\ KeepsCover(pendingWakes, pendingWakes')
           /\ \A i \in DOMAIN Requeued(f, outcome) :
                 Covers(pendingWakes', Requeued(f, outcome)[i].target, Requeued(f, outcome)[i].priority)
           /\ Requeued(f, outcome) = <<>> => pendingWakes' = pendingWakes
<1>1. pendingWakes' = QueueAll(pendingWakes, Requeued(f, outcome))
  BY DEF HandlerSettles
<1>2. Requeued(f, outcome) \in Seq(Wakes) /\ WellQueued(pendingWakes)
  BY RequeuedWakes DEF Types
<1>3. Requeued(f, outcome) = <<>> => pendingWakes' = pendingWakes
  BY <1>1, QueueNone
<1> QED
  BY <1>1, <1>2, <1>3, QueueMany

\* The timer after a handler settled.
LEMMA SettleTimer ==
    ASSUME Types, NEW f \in flights, NEW outcome \in Outcomes, HandlerSettles(f, outcome)
    PROVE  /\ timer' \in {"none", "normal", "retry"}
           /\ timer # "none" => timer' # "none"
           /\ Requeued(f, outcome) # <<>> => timer' # "none"
<1> DEFINE back == Requeued(f, outcome)
           retried == IF back = <<>> THEN {timer} ELSE Schedule(timer, "retry")
<1>1. timer \in {"none", "normal", "retry"}
  BY DEF Types
<1>2. \/ timer' \in retried
      \/ timer' \in UNION {Schedule(k, "normal") : k \in retried}
  BY DEF HandlerSettles
<1>3. \A k \in retried : /\ k \in {"none", "normal", "retry"}
                         /\ timer # "none" => k # "none"
                         /\ back # <<>> => k # "none"
  <2> SUFFICES ASSUME NEW k \in retried
               PROVE  /\ k \in {"none", "normal", "retry"}
                      /\ timer # "none" => k # "none"
                      /\ back # <<>> => k # "none"
    OBVIOUS
  <2>1. CASE back = <<>>
    BY <1>1, <2>1
  <2>2. CASE back # <<>>
    <3>1. k \in Schedule(timer, "retry")
      BY <2>2
    <3>2. k \in {"normal", "retry"}
      BY <1>1, <3>1, ScheduleArms
    <3> QED
      BY <3>2
  <2> QED
    BY <2>1, <2>2
<1> HIDE DEF retried
<1>4. ASSUME NEW k \in retried, timer' \in Schedule(k, "normal")
      PROVE  timer' \in {"normal", "retry"}
  BY <1>3, <1>4, ScheduleArms
<1>5. \/ timer' \in retried
      \/ \E k \in retried : timer' \in Schedule(k, "normal")
  BY <1>2
<1> QED
  BY <1>3, <1>4, <1>5

\* A handler that settles ends its batch or moves it to its next wake.
LEMMA SettleFlights ==
    ASSUME Types, NEW f \in flights, NEW outcome \in Outcomes, HandlerSettles(f, outcome)
    PROVE  \/ /\ outcome = "throws" \/ f.current = Len(f.batch)
              /\ flights' = flights \ {f}
           \/ /\ outcome # "throws" /\ f.current # Len(f.batch)
              /\ flights' = (flights \ {f}) \cup {[f EXCEPT !.current = @ + 1, !.hung = FALSE]}
BY DEF HandlerSettles

\* The callback behind an await keeps the types.
LEMMA SettleTypes ==
    ASSUME Types, NEW f \in flights, NEW outcome \in Outcomes, HandlerSettles(f, outcome)
    PROVE  Types'
<1> DEFINE back == Requeued(f, outcome)
           owing == OwedAgain(owed, back)
           next == f.batch[f.current + 1]
           ended == outcome = "throws" \/ f.current = Len(f.batch)
<1>1. ProperFlight(f) /\ back \in Seq(Wakes)
  BY RequeuedWakes DEF Types
<1>2. WellQueued(pendingWakes') /\ timer' \in {"none", "normal", "retry"}
  BY SettleFacts, SettleTimer
<1>3. preModelNoopRetryCounts' \in [Targets -> 0..NoopRetryCap]
  BY CountsStayCapped DEF HandlerSettles
<1>4. \A g \in flights' : ProperFlight(g)
  <2> DEFINE new == [f EXCEPT !.current = @ + 1, !.hung = FALSE]
  <2>1. f.current # Len(f.batch) => ProperFlight(new)
    BY <1>1, Advance
  <2>2. \/ flights' = flights \ {f}
        \/ f.current # Len(f.batch) /\ flights' = (flights \ {f}) \cup {new}
    BY SettleFlights
  <2> HIDE DEF new
  <2> QED
    BY <2>1, <2>2 DEF Types
<1>5. faults' \in Nat
  BY DEF HandlerSettles, Types
<1>6. owing \in [Targets -> Priorities \cup {0}]
  BY <1>1, OwedBack DEF Types
<1>7. owed' \in [Targets -> Priorities \cup {0}]
  <2>1. CASE ended
    BY <1>6, <2>1 DEF HandlerSettles
  <2>2. CASE ~ended
    <3>1. owed' = Called(owing, next)
      BY <2>2 DEF HandlerSettles
    <3> HIDE DEF owing, next
    <3> QED
      BY <1>6, <3>1 DEF Called
  <2> QED
    BY <2>1, <2>2
<1>8. running' \in BOOLEAN /\ overdue' \in BOOLEAN
  <2>1. running \in BOOLEAN /\ overdue \in BOOLEAN
    BY DEF Types
  <2>2. CASE ended
    <3>1. running' = (running /\ ~Owns(f)) /\ overdue' = (overdue /\ ~Owns(f))
      BY <2>2 DEF HandlerSettles
    <3> QED
      BY <3>1
  <2>3. CASE ~ended
    BY <2>1, <2>3 DEF HandlerSettles
  <2> QED
    BY <2>2, <2>3
<1>9. UNCHANGED <<handler, handlerGeneration, scheduled, runningOwnerGeneration,
                  requests, hangs, replacedInFlight>>
  BY DEF HandlerSettles
<1> QED
  BY <1>2, <1>3, <1>4, <1>5, <1>7, <1>8, <1>9 DEF Types

\* A timer that starts a batch keeps the types.
LEMMA DispatchTypes ==
    ASSUME Types, Dispatch
    PROVE  Types'
<1>1. WellQueued(pendingWakes')
  BY DEF Dispatch, WellQueued, DistinctTargets
<1>2. \A g \in flights' : ProperFlight(g)
  <2> DEFINE others == {[f EXCEPT !.orphan = @ \/ running] : f \in flights}
             new == [lifecycle |-> handlerGeneration, generation |-> runningOwnerGeneration + 1,
                     batch |-> pendingWakes, current |-> 1, hung |-> FALSE, orphan |-> FALSE]
  <2>1. \A g \in others : ProperFlight(g)
    <3> SUFFICES ASSUME NEW f \in flights
                 PROVE  ProperFlight([f EXCEPT !.orphan = @ \/ running])
      OBVIOUS
    <3>1. ProperFlight(f)
      BY DEF Types
    <3>2. (f.orphan \/ running) \in BOOLEAN
      OBVIOUS
    <3> QED
      BY <3>1, <3>2, FlagUpdates
  <2>2. pendingWakes # <<>> => ProperFlight(new)
    <3>1. pendingWakes \in Seq(Wakes) /\ DistinctTargets(pendingWakes)
      BY DEF Types, WellQueued
    <3>2. new \in Flights
      BY <3>1 DEF Flights, Types
    <3>3. pendingWakes # <<>> => 1 <= Len(pendingWakes)
      BY <3>1
    <3> QED
      BY <3>1, <3>2, <3>3 DEF ProperFlight
  <2>3. flights' = others \/ (pendingWakes # <<>> /\ flights' = others \cup {new})
    BY DEF Dispatch
  <2> HIDE DEF others, new
  <2> QED
    BY <2>1, <2>2, <2>3
<1>3. owed' \in [Targets -> Priorities \cup {0}]
  BY DEF Dispatch, Types, Called
<1>4. running' \in BOOLEAN /\ overdue' \in BOOLEAN /\ scheduled' \in BOOLEAN
  BY Zenon DEF Dispatch
<1>5. timer' = "none" /\ runningOwnerGeneration' \in Nat
      /\ UNCHANGED <<handler, handlerGeneration, preModelNoopRetryCounts, requests, faults,
                     hangs, replacedInFlight>>
  BY DEF Dispatch, Types
<1> QED
  BY <1>1, <1>2, <1>3, <1>4, <1>5 DEF Types

\* requestHeartbeat keeps the types.
LEMMA RequestTypes ==
    ASSUME Types, NEW t \in Targets, NEW p \in Priorities, RequestHeartbeat(t, p)
    PROVE  Types'
<1> DEFINE wake == [target |-> t, priority |-> p]
<1>1. wake \in Wakes
  BY DEF Wakes
<1>2. WellQueued(pendingWakes')
  BY <1>1, QueueOne DEF RequestHeartbeat, Types
<1>3. timer' \in {"none", "normal", "retry"}
  BY ScheduleArms DEF RequestHeartbeat, Types
<1>4. owed' \in [Targets -> Priorities \cup {0}]
  BY DEF RequestHeartbeat, Types, Higher
<1> QED
  BY <1>2, <1>3, <1>4 DEF RequestHeartbeat, Types

\* setHeartbeatWakeHandler keeps the types.
LEMMA RegisterTypes ==
    ASSUME Types, SetHeartbeatWakeHandler
    PROVE  Types'
<1>1. handler' \in BOOLEAN /\ running' \in BOOLEAN /\ overdue' \in BOOLEAN /\ scheduled' \in BOOLEAN
  BY Zenon DEF SetHeartbeatWakeHandler
<1>2. replacedInFlight' \in BOOLEAN
  BY Zenon DEF SetHeartbeatWakeHandler
<1>3. \A g \in flights' : ProperFlight(g)
  <2>1. \A f \in flights : ProperFlight([f EXCEPT !.orphan = TRUE])
    BY FlagUpdates DEF Types
  <2> QED
    BY <2>1 DEF SetHeartbeatWakeHandler
<1>4. preModelNoopRetryCounts' \in [Targets -> 0..NoopRetryCap]
  BY HeartbeatWakeAssumption DEF SetHeartbeatWakeHandler
<1>5. handlerGeneration' \in Nat /\ runningOwnerGeneration' \in Nat
      /\ timer' \in {"none", "normal", "retry"}
      /\ UNCHANGED <<pendingWakes, requests, faults, hangs, owed>>
  BY DEF SetHeartbeatWakeHandler, Types, TimerOfNewHandler
<1> QED
  BY <1>1, <1>2, <1>3, <1>4, <1>5 DEF Types

\* A handler that hangs keeps the types.
LEMMA HangTypes ==
    ASSUME Types, NEW f \in flights, HandlerHangs(f)
    PROVE  Types'
<1>1. ProperFlight([f EXCEPT !.hung = TRUE])
  BY FlagUpdates DEF Types
<1>2. \A g \in flights' : ProperFlight(g)
  BY <1>1 DEF HandlerHangs, Types
<1> QED
  BY <1>2 DEF HandlerHangs, Types

\* Every step keeps the types.
LEMMA NextTypes == Types /\ [Next]_vars => Types'
<1> SUFFICES ASSUME Types, [Next]_vars PROVE Types'
  OBVIOUS
<1>1. ASSUME NEW t \in Targets, NEW p \in Priorities, RequestHeartbeat(t, p) PROVE Types'
  BY <1>1, RequestTypes
<1>2. CASE SetHeartbeatWakeHandler
  BY <1>2, RegisterTypes
<1>3. CASE Dispose
  <2>1. handler' \in BOOLEAN
    BY <1>3, Zenon DEF Dispose
  <2> QED
    BY <1>3, <2>1 DEF Dispose, Types
<1>4. CASE FiresWithoutHandler
  <2>1. scheduled' \in BOOLEAN
    BY <1>4, Zenon DEF FiresWithoutHandler
  <2> QED
    BY <1>4, <2>1 DEF FiresWithoutHandler, Types
<1>5. CASE FiresWhileRunning
  <2>1. scheduled' \in BOOLEAN
    BY <1>5, Zenon DEF FiresWhileRunning
  <2> QED
    BY <1>5, <2>1 DEF FiresWhileRunning, Types
<1>6. CASE Dispatch
  BY <1>6, DispatchTypes
<1>7. ASSUME NEW f \in flights, NEW outcome \in Outcomes, HandlerSettles(f, outcome) PROVE Types'
  BY <1>7, SettleTypes
<1>8. ASSUME NEW f \in flights, HandlerHangs(f) PROVE Types'
  BY <1>8, HangTypes
<1>9. CASE HangLimitPasses
  <2>1. overdue' \in BOOLEAN
    BY <1>9, Zenon DEF HangLimitPasses
  <2> QED
    BY <1>9, <2>1 DEF HangLimitPasses, Types
<1>10. CASE UNCHANGED vars
  BY <1>10 DEF vars, wakeVars, Types
<1> QED
  BY <1>1, <1>2, <1>3, <1>4, <1>5, <1>6, <1>7, <1>8, <1>9, <1>10 DEF Next, TimerFires, Settles

-----------------------------------------------------------------------------
(* No wake is stranded. *)

\* Every step leaves a timer armed behind pending wakes while there is a handler.
LEMMA NextStrands == Types /\ NoStrandedWake /\ [Next]_vars => NoStrandedWake'
<1> SUFFICES ASSUME Types, NoStrandedWake, [Next]_vars PROVE NoStrandedWake'
  OBVIOUS
<1> USE DEF NoStrandedWake
<1>1. ASSUME NEW t \in Targets, NEW p \in Priorities, RequestHeartbeat(t, p)
      PROVE  NoStrandedWake'
  <2>1. timer' \in {"normal", "retry"}
    BY <1>1, ScheduleArms DEF RequestHeartbeat, Types
  <2> QED
    BY <2>1
<1>2. CASE SetHeartbeatWakeHandler
  BY <1>2 DEF SetHeartbeatWakeHandler, TimerOfNewHandler
<1>3. CASE Dispose
  BY <1>3 DEF Dispose
<1>4. CASE FiresWithoutHandler
  BY <1>4 DEF FiresWithoutHandler
<1>5. CASE FiresWhileRunning
  BY <1>5 DEF FiresWhileRunning
<1>6. CASE Dispatch
  BY <1>6 DEF Dispatch
<1>7. ASSUME NEW f \in flights, NEW outcome \in Outcomes, HandlerSettles(f, outcome)
      PROVE  NoStrandedWake'
  <2>1. handler' = handler
    BY <1>7 DEF HandlerSettles
  <2>2. Requeued(f, outcome) = <<>> => pendingWakes' = pendingWakes
    BY <1>7, SettleFacts
  <2> QED
    BY <1>7, <2>1, <2>2, SettleTimer
<1>8. ASSUME NEW f \in flights, HandlerHangs(f) PROVE NoStrandedWake'
  BY <1>8 DEF HandlerHangs
<1>9. CASE HangLimitPasses
  BY <1>9 DEF HangLimitPasses
<1>10. CASE UNCHANGED vars
  BY <1>10 DEF vars, wakeVars
<1> QED
  BY <1>1, <1>2, <1>3, <1>4, <1>5, <1>6, <1>7, <1>8, <1>9, <1>10 DEF Next, TimerFires, Settles

-----------------------------------------------------------------------------
(* No request is lost. *)

\* The batch has a wake of the target ahead of its await.
HasAhead(f, t, p) ==
    \E i \in f.current + 1 .. Len(f.batch) : f.batch[i].target = t /\ f.batch[i].priority >= p

Safe(t, p) == Covers(pendingWakes, t, p) \/ \E f \in flights : HasAhead(f, t, p)

\* NoRequestLost, target by target.
LEMMA LostIsUnsafe == NoRequestLost <=> \A t \in Targets : owed[t] > 0 => Safe(t, owed[t])
BY DEF NoRequestLost, Safe, Covers, HasAhead

\* The same in the next state.
LEMMA LostIsUnsafeNext ==
    NoRequestLost' <=> \A t \in Targets : owed'[t] > 0 => Safe(t, owed[t])'
BY DEF NoRequestLost, Safe, Covers, HasAhead

\* What a target is owed is a number.
LEMMA OwedIsNat ==
    ASSUME owed \in [Targets -> Priorities \cup {0}], NEW t \in Targets
    PROVE  owed[t] \in Nat
<1>1. Priorities \subseteq Nat
  BY HeartbeatWakeAssumption
<1>2. owed[t] \in Priorities \/ owed[t] = 0
  OBVIOUS
<1>3. CASE owed[t] \in Priorities
  BY <1>1, <1>3, Zenon
<1>4. CASE owed[t] = 0
  BY <1>4
<1> QED
  BY <1>2, <1>3, <1>4

\* A flag does not change what is ahead.
LEMMA FlagsKeepAhead ==
    ASSUME NEW f, ProperFlight(f), NEW b, NEW t, NEW p, HasAhead(f, t, p)
    PROVE  HasAhead([f EXCEPT !.orphan = b], t, p) /\ HasAhead([f EXCEPT !.hung = b], t, p)
<1>1. f \in Flights
  BY DEF ProperFlight
<1>2. [f EXCEPT !.orphan = b].batch = f.batch /\ [f EXCEPT !.orphan = b].current = f.current
  BY <1>1 DEF Flights
<1>3. [f EXCEPT !.hung = b].batch = f.batch /\ [f EXCEPT !.hung = b].current = f.current
  BY <1>1 DEF Flights
<1> QED
  BY <1>2, <1>3 DEF HasAhead

\* A request is queued at its priority or above.
LEMMA RequestSafe ==
    ASSUME Types, NoRequestLost, NEW t \in Targets, NEW p \in Priorities, RequestHeartbeat(t, p)
    PROVE  NoRequestLost'
<1> DEFINE wake == [target |-> t, priority |-> p]
<1>1. wake \in Wakes /\ wake.target = t /\ wake.priority = p
  BY DEF Wakes
<1>2. pendingWakes' = QueuePendingWakeReason(pendingWakes, wake) /\ flights' = flights
      /\ owed' = [owed EXCEPT ![t] = Higher(@, p)]
  BY DEF RequestHeartbeat
<1> HIDE DEF wake
<1>3. KeepsCover(pendingWakes, pendingWakes') /\ Covers(pendingWakes', t, p)
  BY <1>1, <1>2, QueueOne DEF Types
<1>4. owed \in [Targets -> Priorities \cup {0}] /\ \A u \in Targets : owed[u] \in Nat
  BY OwedIsNat DEF Types
<1>5. \A u \in Targets : owed[u] > 0 => Safe(u, owed[u])
  BY LostIsUnsafe
<1> SUFFICES ASSUME NEW u \in Targets, owed'[u] > 0 PROVE Safe(u, owed[u])'
  BY LostIsUnsafeNext
<1>6. CASE owed'[u] = owed[u]
  BY <1>2, <1>3, <1>4, <1>5, <1>6 DEF Safe, KeepsCover
<1>7. CASE u = t /\ owed'[u] = p
  BY <1>3, <1>7 DEF Safe
<1>8. owed'[u] = owed[u] \/ (u = t /\ owed'[u] = p)
  BY <1>2, <1>4 DEF Higher
<1> QED
  BY <1>6, <1>7, <1>8

\* A replaced handler takes no wake from a batch or from the pending ones.
LEMMA RegisterSafe ==
    ASSUME Types, NoRequestLost, SetHeartbeatWakeHandler
    PROVE  NoRequestLost'
<1>1. pendingWakes' = pendingWakes /\ owed' = owed
      /\ flights' = {[f EXCEPT !.orphan = TRUE] : f \in flights}
  BY DEF SetHeartbeatWakeHandler
<1> SUFFICES ASSUME NEW t \in Targets, owed'[t] > 0 PROVE Safe(t, owed[t])'
  BY LostIsUnsafeNext
<1>2. Safe(t, owed[t])
  BY <1>1, LostIsUnsafe
<1>3. CASE Covers(pendingWakes, t, owed[t])
  BY <1>1, <1>3 DEF Safe
<1>4. ASSUME NEW f \in flights, HasAhead(f, t, owed[t]) PROVE Safe(t, owed[t])'
  <2>1. HasAhead([f EXCEPT !.orphan = TRUE], t, owed[t])
    BY <1>4, FlagsKeepAhead DEF Types
  <2> QED
    BY <1>1, <2>1 DEF Safe
<1> QED
  BY <1>2, <1>3, <1>4 DEF Safe

\* A hung batch still has its wakes ahead of it.
LEMMA HangSafe ==
    ASSUME Types, NoRequestLost, NEW f \in flights, HandlerHangs(f)
    PROVE  NoRequestLost'
<1>1. pendingWakes' = pendingWakes /\ owed' = owed
      /\ flights' = (flights \ {f}) \cup {[f EXCEPT !.hung = TRUE]}
  BY DEF HandlerHangs
<1> SUFFICES ASSUME NEW t \in Targets, owed'[t] > 0 PROVE Safe(t, owed[t])'
  BY LostIsUnsafeNext
<1>2. Safe(t, owed[t])
  BY <1>1, LostIsUnsafe
<1>3. CASE Covers(pendingWakes, t, owed[t])
  BY <1>1, <1>3 DEF Safe
<1>4. ASSUME NEW g \in flights, HasAhead(g, t, owed[t]) PROVE Safe(t, owed[t])'
  <2>1. CASE g = f
    <3>1. HasAhead([f EXCEPT !.hung = TRUE], t, owed[t])
      BY <1>4, <2>1, FlagsKeepAhead DEF Types
    <3> QED
      BY <1>1, <3>1 DEF Safe
  <2>2. CASE g # f
    BY <1>1, <1>4, <2>2 DEF Safe
  <2> QED
    BY <2>1, <2>2
<1> QED
  BY <1>2, <1>3, <1>4 DEF Safe

\* A dispatch moves the pending wakes into a batch.
LEMMA DispatchSafe ==
    ASSUME Types, NoRequestLost, Dispatch
    PROVE  NoRequestLost'
<1> DEFINE others == {[f EXCEPT !.orphan = @ \/ running] : f \in flights}
           new == [lifecycle |-> handlerGeneration, generation |-> runningOwnerGeneration + 1,
                   batch |-> pendingWakes, current |-> 1, hung |-> FALSE, orphan |-> FALSE]
<1> SUFFICES ASSUME NEW t \in Targets, owed'[t] > 0 PROVE Safe(t, owed[t])'
  BY LostIsUnsafeNext
<1>1. \A u \in Targets : owed[u] > 0 => Safe(u, owed[u])
  BY LostIsUnsafe
<1>2. pendingWakes \in Seq(Wakes) /\ DistinctTargets(pendingWakes)
      /\ Len(pendingWakes) \in Nat /\ DOMAIN pendingWakes = 1..Len(pendingWakes)
  BY DEF Types, WellQueued
<1>3. owed'[t] = owed[t]
      /\ (pendingWakes # <<>> /\ pendingWakes[1].target = t => ~(pendingWakes[1].priority >= owed[t]))
  <2>1. CASE pendingWakes = <<>>
    BY <2>1 DEF Dispatch
  <2>2. CASE pendingWakes # <<>>
    <3>1. owed' = Called(owed, pendingWakes[1])
      BY <2>2 DEF Dispatch
    <3>2. 1 \in DOMAIN pendingWakes
      BY <1>2, <2>2
    <3>3. pendingWakes[1] \in Wakes
      BY <1>2, <3>2
    <3>4. pendingWakes[1].target \in Targets
      BY <3>3, WakeFields
    <3> QED
      BY <3>1, <3>4 DEF Called, Types
  <2> QED
    BY <2>1, <2>2
<1>4. flights' = others \/ (pendingWakes # <<>> /\ flights' = others \cup {new})
  BY DEF Dispatch
<1>5. pendingWakes # <<>> => flights' = others \cup {new}
  BY DEF Dispatch
<1>6. Safe(t, owed[t])
  BY <1>1, <1>3
<1>7. ASSUME NEW f \in flights, HasAhead(f, t, owed[t]) PROVE Safe(t, owed[t])'
  <2>1. HasAhead([f EXCEPT !.orphan = @ \/ running], t, owed[t])
    BY <1>7, FlagsKeepAhead DEF Types
  <2>2. [f EXCEPT !.orphan = @ \/ running] \in others
    OBVIOUS
  <2> HIDE DEF others, new
  <2> QED
    BY <1>3, <1>4, <2>1, <2>2 DEF Safe
<1>8. CASE Covers(pendingWakes, t, owed[t])
  <2>1. PICK i \in DOMAIN pendingWakes : /\ pendingWakes[i].target = t
                                         /\ pendingWakes[i].priority >= owed[t]
    BY <1>8 DEF Covers
  <2>2. pendingWakes # <<>>
    BY <1>2, <2>1
  <2>3. i # 1
    BY <1>3, <2>1, <2>2
  <2>4. i \in 1 + 1 .. Len(pendingWakes)
    BY <1>2, <2>1, <2>3
  <2>5. new.current = 1 /\ new.batch = pendingWakes
    OBVIOUS
  <2> HIDE DEF others, new
  <2>6. HasAhead(new, t, owed[t])
    BY <2>1, <2>4, <2>5 DEF HasAhead
  <2> QED
    BY <1>3, <1>5, <2>2, <2>6 DEF Safe
<1> QED
  BY <1>6, <1>7, <1>8 DEF Safe

\* What a batch has not handled well is queued again.
LEMMA SettleSafe ==
    ASSUME Types, NoRequestLost, NEW f \in flights, NEW outcome \in Outcomes,
           HandlerSettles(f, outcome)
    PROVE  NoRequestLost'
<1> DEFINE back == Requeued(f, outcome)
           owing == OwedAgain(owed, back)
           next == f.batch[f.current + 1]
           new == [f EXCEPT !.current = @ + 1, !.hung = FALSE]
<1>1. ProperFlight(f) /\ back \in Seq(Wakes)
  BY RequeuedWakes DEF Types
<1>2. /\ f.batch \in Seq(Wakes) /\ Len(f.batch) \in Nat /\ DOMAIN f.batch = 1..Len(f.batch)
      /\ f.current \in 1..Len(f.batch)
      /\ \A i \in 1..Len(f.batch) : f.batch[i] \in Wakes
  BY <1>1, CurrentWake
<1>3. /\ KeepsCover(pendingWakes, pendingWakes')
      /\ \A i \in DOMAIN back : Covers(pendingWakes', back[i].target, back[i].priority)
  BY SettleFacts
<1>4. owing \in [Targets -> Priorities \cup {0}]
      /\ \A t \in Targets : \/ owing[t] = owed[t]
                            \/ \E i \in DOMAIN back : back[i].target = t /\ back[i].priority = owing[t]
  BY <1>1, OwedBack DEF Types
<1>5. \A t \in Targets : owed[t] > 0 => Safe(t, owed[t])
  BY LostIsUnsafe
<1>6. \A t \in Targets : owed[t] \in Nat
  BY OwedIsNat DEF Types
<1>7. new.batch = f.batch /\ new.current = f.current + 1
  BY <1>1 DEF ProperFlight, Flights
<1>8. ASSUME outcome = "throws" \/ f.current = Len(f.batch)
      PROVE  NoRequestLost'
  <2>1. owed' = owing /\ flights' = flights \ {f}
    BY <1>8 DEF HandlerSettles
  <2> SUFFICES ASSUME NEW t \in Targets, owed'[t] > 0 PROVE Safe(t, owed[t])'
    BY LostIsUnsafeNext
  <2> HIDE DEF owing, next, new, back
  <2>2. ASSUME NEW i \in DOMAIN back, back[i].target = t, back[i].priority = owing[t]
        PROVE  Safe(t, owed[t])'
    BY <1>3, <2>1, <2>2 DEF Safe
  <2>3. CASE owing[t] = owed[t]
    <3>1. Safe(t, owed[t])
      BY <1>5, <2>1, <2>3
    <3>2. CASE Covers(pendingWakes, t, owed[t])
      BY <1>3, <1>6, <2>1, <2>3, <3>2 DEF Safe, KeepsCover
    <3>3. ASSUME NEW g \in flights, g # f, HasAhead(g, t, owed[t]) PROVE Safe(t, owed[t])'
      BY <2>1, <2>3, <3>3 DEF Safe
    <3>4. ASSUME HasAhead(f, t, owed[t]) PROVE Safe(t, owed[t])'
      <4>1. PICK i \in f.current + 1 .. Len(f.batch) :
                f.batch[i].target = t /\ f.batch[i].priority >= owed[t]
        BY <3>4 DEF HasAhead
      <4>2. f.current # Len(f.batch) /\ i \in 1..Len(f.batch)
        BY <1>2, <4>1
      <4>3. back = f.batch
        BY <1>8, <4>2, RequeuedWakes DEF back
      <4>4. Covers(pendingWakes', t, f.batch[i].priority)
        BY <1>2, <1>3, <4>1, <4>2, <4>3
      <4>5. f.batch[i].priority \in Nat
        BY <1>2, <4>2, WakeFields
      <4>6. \A j \in DOMAIN pendingWakes' : pendingWakes'[j].priority \in Nat
        <5>1. pendingWakes' \in Seq(Wakes)
          BY SettleFacts DEF WellQueued
        <5>2. \A j \in DOMAIN pendingWakes' : pendingWakes'[j] \in Wakes
          BY <5>1
        <5> QED
          BY <5>2, WakeFields
      <4>7. Covers(pendingWakes', t, owed[t])
        BY <1>6, <4>1, <4>4, <4>5, <4>6 DEF Covers
      <4> QED
        BY <2>1, <2>3, <4>7 DEF Safe
    <3> QED
      BY <3>1, <3>2, <3>3, <3>4 DEF Safe
  <2> QED
    BY <1>4, <2>2, <2>3
<1>9. ASSUME outcome # "throws", f.current # Len(f.batch)
      PROVE  NoRequestLost'
  <2>1. owed' = Called(owing, next) /\ flights' = (flights \ {f}) \cup {new}
    BY <1>9 DEF HandlerSettles
  <2> SUFFICES ASSUME NEW t \in Targets, owed'[t] > 0 PROVE Safe(t, owed[t])'
    BY LostIsUnsafeNext
  <2>2. f.current + 1 \in 1..Len(f.batch)
    BY <1>2, <1>9
  <2>3. next \in Wakes /\ next.target \in Targets
    BY <1>2, <2>2, WakeFields
  <2>n. next = f.batch[f.current + 1]
    OBVIOUS
  <2> HIDE DEF owing, next, new, back
  <2>4. owed'[t] = owing[t] /\ (next.target = t => ~(next.priority >= owing[t]))
    BY <1>4, <2>1, <2>3 DEF Called
  <2>5. ASSUME NEW i \in DOMAIN back, back[i].target = t, back[i].priority = owing[t]
        PROVE  Safe(t, owed[t])'
    BY <1>3, <2>4, <2>5 DEF Safe
  <2>6. CASE owing[t] = owed[t]
    <3>1. Safe(t, owed[t])
      BY <1>5, <2>4, <2>6
    <3>2. CASE Covers(pendingWakes, t, owed[t])
      BY <1>3, <1>6, <2>4, <2>6, <3>2 DEF Safe, KeepsCover
    <3>3. ASSUME NEW g \in flights, g # f, HasAhead(g, t, owed[t]) PROVE Safe(t, owed[t])'
      BY <2>1, <2>4, <2>6, <3>3 DEF Safe
    <3>4. ASSUME HasAhead(f, t, owed[t]) PROVE Safe(t, owed[t])'
      <4>1. PICK i \in f.current + 1 .. Len(f.batch) :
                f.batch[i].target = t /\ f.batch[i].priority >= owed[t]
        BY <3>4 DEF HasAhead
      <4>2. i # f.current + 1
        BY <2>4, <2>6, <2>n, <4>1
      <4>3. i \in new.current + 1 .. Len(new.batch)
        BY <1>2, <1>7, <4>1, <4>2
      <4>4. HasAhead(new, t, owed[t])
        BY <1>7, <4>1, <4>3 DEF HasAhead
      <4> QED
        BY <2>1, <2>4, <2>6, <4>4 DEF Safe
    <3> QED
      BY <3>1, <3>2, <3>3, <3>4 DEF Safe
  <2> QED
    BY <1>4, <2>5, <2>6
<1> QED
  BY <1>8, <1>9

\* Every step keeps the wakes that are owed.
LEMMA NextSafe == Types /\ NoRequestLost /\ [Next]_vars => NoRequestLost'
<1> SUFFICES ASSUME Types, NoRequestLost, [Next]_vars PROVE NoRequestLost'
  OBVIOUS
<1>1. ASSUME NEW t \in Targets, NEW p \in Priorities, RequestHeartbeat(t, p)
      PROVE  NoRequestLost'
  BY <1>1, RequestSafe
<1>2. CASE SetHeartbeatWakeHandler
  BY <1>2, RegisterSafe
<1>3. CASE UNCHANGED <<pendingWakes, flights, owed>>
  BY <1>3 DEF NoRequestLost
<1>4. CASE Dispatch
  BY <1>4, DispatchSafe
<1>5. ASSUME NEW f \in flights, NEW outcome \in Outcomes, HandlerSettles(f, outcome)
      PROVE  NoRequestLost'
  BY <1>5, SettleSafe
<1>6. ASSUME NEW f \in flights, HandlerHangs(f) PROVE NoRequestLost'
  BY <1>6, HangSafe
<1> QED
  BY <1>1, <1>2, <1>3, <1>4, <1>5, <1>6
     DEF Next, TimerFires, Settles, Dispose, FiresWithoutHandler, FiresWhileRunning,
         HangLimitPasses, vars, wakeVars

-----------------------------------------------------------------------------
(* Names, and the newest batch. *)

\* The batches after a step are the ones before, each with its name, and new ones
\* with a new name.
LEMMA FlagsKeepName ==
    ASSUME NEW f, ProperFlight(f), NEW b
    PROVE  /\ [f EXCEPT !.orphan = b].lifecycle = f.lifecycle
           /\ [f EXCEPT !.orphan = b].generation = f.generation
           /\ [f EXCEPT !.orphan = b].orphan = b
           /\ [f EXCEPT !.hung = b].lifecycle = f.lifecycle
           /\ [f EXCEPT !.hung = b].generation = f.generation
           /\ [f EXCEPT !.hung = b].orphan = f.orphan
           /\ f.lifecycle \in Nat /\ f.generation \in Nat /\ f.orphan \in BOOLEAN
BY DEF ProperFlight, Flights

\* A batch that goes on changes its place only.
LEMMA AdvanceKeepsName ==
    ASSUME NEW f, ProperFlight(f), NEW n
    PROVE  /\ [f EXCEPT !.current = n, !.hung = FALSE].lifecycle = f.lifecycle
           /\ [f EXCEPT !.current = n, !.hung = FALSE].generation = f.generation
           /\ [f EXCEPT !.current = n, !.hung = FALSE].orphan = f.orphan
           /\ [f EXCEPT !.current = n, !.hung = FALSE].batch = f.batch
           /\ [f EXCEPT !.current = n, !.hung = FALSE].current = n
BY DEF ProperFlight, Flights

\* One batch is replaced by one with its name, or leaves.
LEMMA ReplaceKeepsNames ==
    ASSUME Types, NameInv, NEW f \in flights, NEW g,
           g.lifecycle = f.lifecycle, g.generation = f.generation,
           flights' = (flights \ {f}) \cup {g} \/ flights' = flights \ {f},
           UNCHANGED <<handlerGeneration, runningOwnerGeneration>>
    PROVE  NameInv'
BY DEF NameInv, Id

\* Every step keeps the names of batches distinct.
LEMMA NextNames == Types /\ NameInv /\ [Next]_vars => NameInv'
<1> SUFFICES ASSUME Types, NameInv, [Next]_vars PROVE NameInv'
  OBVIOUS
<1>0. \A f \in flights : ProperFlight(f) /\ f.lifecycle \in Nat /\ f.generation \in Nat
  BY DEF Types, ProperFlight, Flights
<1>1. CASE UNCHANGED <<flights, handlerGeneration, runningOwnerGeneration>>
  BY <1>1 DEF NameInv, Id
<1>2. CASE SetHeartbeatWakeHandler
  <2>1. handlerGeneration' = handlerGeneration + 1 /\ handlerGeneration \in Nat
        /\ flights' = {[f EXCEPT !.orphan = TRUE] : f \in flights}
    BY <1>2 DEF SetHeartbeatWakeHandler, Types
  <2>2. \A g \in flights' : \E f \in flights : g = [f EXCEPT !.orphan = TRUE]
                               /\ g.lifecycle = f.lifecycle /\ g.generation = f.generation
    <3> SUFFICES ASSUME NEW f \in flights
                 PROVE  /\ [f EXCEPT !.orphan = TRUE].lifecycle = f.lifecycle
                        /\ [f EXCEPT !.orphan = TRUE].generation = f.generation
      BY <2>1
    <3> QED
      BY <1>0, FlagsKeepName
  <2>3. \A g, h \in flights' : Id(g) = Id(h) => g = h
    <3> SUFFICES ASSUME NEW g \in flights', NEW h \in flights', Id(g) = Id(h) PROVE g = h
      OBVIOUS
    <3>1. PICK f1 \in flights : g = [f1 EXCEPT !.orphan = TRUE]
                               /\ g.lifecycle = f1.lifecycle /\ g.generation = f1.generation
      BY <2>2
    <3>2. PICK f2 \in flights : h = [f2 EXCEPT !.orphan = TRUE]
                               /\ h.lifecycle = f2.lifecycle /\ h.generation = f2.generation
      BY <2>2
    <3>3. Id(f1) = Id(f2)
      BY <3>1, <3>2 DEF Id
    <3>4. f1 = f2
      BY <3>3 DEF NameInv
    <3> QED
      BY <3>1, <3>2, <3>4
  <2>4. \A g \in flights' : g.lifecycle < handlerGeneration' /\ g.lifecycle \in Nat
    BY <1>0, <2>1, <2>2 DEF NameInv
  <2> QED
    BY <2>1, <2>3, <2>4 DEF NameInv
<1>3. CASE Dispose
  <2>1. handlerGeneration' = handlerGeneration + 1 /\ handlerGeneration \in Nat
        /\ flights' = flights
    BY <1>3 DEF Dispose, Types
  <2> QED
    BY <1>0, <2>1 DEF NameInv, Id
<1>4. CASE Dispatch
  <2> DEFINE others == {[f EXCEPT !.orphan = @ \/ running] : f \in flights}
             new == [lifecycle |-> handlerGeneration, generation |-> runningOwnerGeneration + 1,
                     batch |-> pendingWakes, current |-> 1, hung |-> FALSE, orphan |-> FALSE]
  <2>1. \A g \in others : \E f \in flights : g = [f EXCEPT !.orphan = @ \/ running]
                             /\ g.lifecycle = f.lifecycle /\ g.generation = f.generation
    <3> SUFFICES ASSUME NEW f \in flights
                 PROVE  /\ [f EXCEPT !.orphan = @ \/ running].lifecycle = f.lifecycle
                        /\ [f EXCEPT !.orphan = @ \/ running].generation = f.generation
      OBVIOUS
    <3> QED
      BY <1>0, FlagsKeepName
  <2>2. new.lifecycle = handlerGeneration /\ new.generation = runningOwnerGeneration + 1
    OBVIOUS
  <2>3. flights' = others \/ flights' = others \cup {new}
    BY <1>4 DEF Dispatch
  <2>4. /\ handlerGeneration' = handlerGeneration /\ handlerGeneration \in Nat
        /\ runningOwnerGeneration' = runningOwnerGeneration + 1 /\ runningOwnerGeneration \in Nat
    BY <1>4 DEF Dispatch, Types
  <2> HIDE DEF others, new
  <2>5. \A g, h \in others : Id(g) = Id(h) => g = h
    <3> SUFFICES ASSUME NEW g \in others, NEW h \in others, Id(g) = Id(h) PROVE g = h
      OBVIOUS
    <3>1. PICK f1 \in flights : g = [f1 EXCEPT !.orphan = @ \/ running]
                               /\ g.lifecycle = f1.lifecycle /\ g.generation = f1.generation
      BY <2>1
    <3>2. PICK f2 \in flights : h = [f2 EXCEPT !.orphan = @ \/ running]
                               /\ h.lifecycle = f2.lifecycle /\ h.generation = f2.generation
      BY <2>1
    <3>3. Id(f1) = Id(f2)
      BY <3>1, <3>2 DEF Id
    <3>4. f1 = f2
      BY <3>3 DEF NameInv
    <3> QED
      BY <3>1, <3>2, <3>4
  <2>6. \A g \in others : /\ g.lifecycle <= handlerGeneration
                          /\ g.lifecycle = handlerGeneration => g.generation <= runningOwnerGeneration
                          /\ g.generation \in Nat
    BY <1>0, <2>1 DEF NameInv
  <2>7. \A g \in others : Id(g) # Id(new)
    <3> SUFFICES ASSUME NEW g \in others, Id(g) = Id(new) PROVE FALSE
      OBVIOUS
    <3>1. g.lifecycle = handlerGeneration /\ g.generation = runningOwnerGeneration + 1
      BY <2>2 DEF Id
    <3> QED
      BY <2>4, <2>6, <3>1
  <2>8. \A g, h \in flights' : Id(g) = Id(h) => g = h
    BY <2>3, <2>5, <2>7
  <2>9. \A g \in flights' : /\ g.lifecycle <= handlerGeneration
                            /\ g.lifecycle = handlerGeneration => g.generation <= runningOwnerGeneration'
    BY <2>2, <2>3, <2>4, <2>6
  <2> QED
    BY <2>4, <2>8, <2>9 DEF NameInv
<1>5. ASSUME NEW f \in flights, NEW outcome \in Outcomes, HandlerSettles(f, outcome)
      PROVE  NameInv'
  <2> DEFINE g == [f EXCEPT !.current = @ + 1, !.hung = FALSE]
  <2>1. g.lifecycle = f.lifecycle /\ g.generation = f.generation
    BY <1>0, AdvanceKeepsName
  <2>2. flights' = (flights \ {f}) \cup {g} \/ flights' = flights \ {f}
    BY <1>5, SettleFlights
  <2>3. UNCHANGED <<handlerGeneration, runningOwnerGeneration>>
    BY <1>5 DEF HandlerSettles
  <2> HIDE DEF g
  <2> QED
    BY <2>1, <2>2, <2>3, ReplaceKeepsNames
<1>6. ASSUME NEW f \in flights, HandlerHangs(f) PROVE NameInv'
  <2> DEFINE g == [f EXCEPT !.hung = TRUE]
  <2>1. g.lifecycle = f.lifecycle /\ g.generation = f.generation
    BY <1>0, FlagsKeepName
  <2>2. flights' = (flights \ {f}) \cup {g}
    BY <1>6 DEF HandlerHangs
  <2>3. UNCHANGED <<handlerGeneration, runningOwnerGeneration>>
    BY <1>6 DEF HandlerHangs
  <2> HIDE DEF g
  <2> QED
    BY <2>1, <2>2, <2>3, ReplaceKeepsNames
<1> QED
  BY <1>1, <1>2, <1>3, <1>4, <1>5, <1>6
     DEF Next, TimerFires, Settles, RequestHeartbeat, FiresWithoutHandler, FiresWhileRunning,
         HangLimitPasses, vars, wakeVars

\* While no handler is replaced in flight, the newest batch alone holds the flag.
LEMMA NextSerial == Types /\ SerialInv /\ [Next]_vars => SerialInv'
<1> SUFFICES ASSUME Types, SerialInv, [Next]_vars, ~replacedInFlight' PROVE SerialInv'
  BY DEF SerialInv
<1>0. \A f \in flights : ProperFlight(f) /\ f.generation \in Nat /\ f.orphan \in BOOLEAN
  BY DEF Types, ProperFlight, Flights
<1>1. CASE UNCHANGED <<flights, running, runningOwnerGeneration, replacedInFlight>>
  BY <1>1 DEF SerialInv
<1>2. CASE SetHeartbeatWakeHandler
  <2>1. flights = {}
    BY <1>2 DEF SetHeartbeatWakeHandler
  <2>2. flights' = {}
    BY <1>2, <2>1 DEF SetHeartbeatWakeHandler
  <2> QED
    BY <2>2 DEF SerialInv
<1>3. CASE Dispatch
  <2> DEFINE others == {[f EXCEPT !.orphan = @ \/ running] : f \in flights}
             new == [lifecycle |-> handlerGeneration, generation |-> runningOwnerGeneration + 1,
                     batch |-> pendingWakes, current |-> 1, hung |-> FALSE, orphan |-> FALSE]
  <2>1. ~replacedInFlight /\ runningOwnerGeneration' = runningOwnerGeneration + 1
        /\ runningOwnerGeneration \in Nat
    BY <1>3 DEF Dispatch, Types
  <2>2. \A f \in flights : f.orphan \/ running
    BY <2>1 DEF SerialInv
  <2>3. \A g \in others : \E f \in flights : g = [f EXCEPT !.orphan = TRUE]
                             /\ g.generation = f.generation /\ g.orphan = TRUE
    <3>1. \A f \in flights : (f.orphan \/ running) = TRUE
      BY <2>2
    <3>2. \A f \in flights : /\ [f EXCEPT !.orphan = TRUE].generation = f.generation
                             /\ [f EXCEPT !.orphan = TRUE].orphan = TRUE
      BY <1>0, FlagsKeepName
    <3>3. others = {[f EXCEPT !.orphan = TRUE] : f \in flights}
      BY <3>1
    <3> HIDE DEF others
    <3> QED
      BY <3>2, <3>3
  <2>4. \A g \in others : g.orphan /\ g.generation <= runningOwnerGeneration /\ g.generation \in Nat
    BY <1>0, <2>1, <2>3 DEF SerialInv
  <2>5. \A g, h \in others : g.generation = h.generation => g = h
    BY <2>1, <2>3 DEF SerialInv
  <2>6. new.generation = runningOwnerGeneration + 1 /\ ~new.orphan
    OBVIOUS
  <2>7. \/ flights' = others
        \/ flights' = others \cup {new} /\ running'
    BY <1>3 DEF Dispatch
  <2> HIDE DEF others, new
  <2>8. \A g, h \in flights' : g.generation = h.generation => g = h
    BY <2>1, <2>4, <2>5, <2>6, <2>7
  <2>9. \A g \in flights' : /\ g.generation <= runningOwnerGeneration'
                            /\ g.orphan => g.generation < runningOwnerGeneration'
                            /\ ~g.orphan => running' /\ g.generation = runningOwnerGeneration'
    BY <2>1, <2>4, <2>6, <2>7
  <2> QED
    BY <2>8, <2>9 DEF SerialInv
<1>4. ASSUME NEW f \in flights, NEW outcome \in Outcomes, HandlerSettles(f, outcome)
      PROVE  SerialInv'
  <2> DEFINE g == [f EXCEPT !.current = @ + 1, !.hung = FALSE]
  <2>1. g.generation = f.generation /\ g.orphan = f.orphan
    BY <1>0, AdvanceKeepsName
  <2>2. UNCHANGED <<runningOwnerGeneration, replacedInFlight>>
    BY <1>4 DEF HandlerSettles
  <2>3. \/ flights' = flights \ {f} /\ running' = (running /\ ~Owns(f))
        \/ flights' = (flights \ {f}) \cup {g} /\ running' = running
    BY <1>4 DEF HandlerSettles
  <2> HIDE DEF g
  <2>4. CASE flights' = flights \ {f} /\ running' = (running /\ ~Owns(f))
    <3>1. \A h \in flights' : ~h.orphan => running /\ h.generation # f.generation
                                           /\ h.generation = runningOwnerGeneration
      BY <2>2, <2>4 DEF SerialInv
    <3>2. \A h \in flights' : ~h.orphan => running'
      BY <2>4, <3>1 DEF Owns
    <3> QED
      BY <2>2, <2>4, <3>2 DEF SerialInv
  <2>5. CASE flights' = (flights \ {f}) \cup {g} /\ running' = running
    BY <2>1, <2>2, <2>5 DEF SerialInv
  <2> QED
    BY <2>3, <2>4, <2>5
<1>5. ASSUME NEW f \in flights, HandlerHangs(f) PROVE SerialInv'
  <2> DEFINE g == [f EXCEPT !.hung = TRUE]
  <2>1. g.generation = f.generation /\ g.orphan = f.orphan
    BY <1>0, FlagsKeepName
  <2>2. flights' = (flights \ {f}) \cup {g}
    BY <1>5 DEF HandlerHangs
  <2>3. UNCHANGED <<running, runningOwnerGeneration, replacedInFlight>>
    BY <1>5 DEF HandlerHangs
  <2> HIDE DEF g
  <2> QED
    BY <2>1, <2>2, <2>3 DEF SerialInv
<1> QED
  BY <1>1, <1>2, <1>3, <1>4, <1>5
     DEF Next, TimerFires, Settles, RequestHeartbeat, Dispose, FiresWithoutHandler,
         FiresWhileRunning, HangLimitPasses, vars, wakeVars

\* SerialInv says more than BatchesSerialized.
LEMMA SerialMeansAlone ==
    ASSUME SerialInv
    PROVE  BatchesSerialized
<1> SUFFICES ASSUME ~replacedInFlight PROVE Cardinality(LiveBatches) <= 1
  BY DEF BatchesSerialized, NewestBatchAlone
<1>1. \A f, g \in LiveBatches : f = g
  BY DEF SerialInv, LiveBatches
<1>2. CASE LiveBatches = {}
  BY <1>2, FS_EmptySet
<1>3. CASE LiveBatches # {}
  <2>1. PICK f \in LiveBatches : TRUE
    BY <1>3
  <2>2. LiveBatches = {f}
    BY <1>1, <2>1
  <2>3. Cardinality({f}) = 1
    BY FS_Singleton
  <2> QED
    BY <2>2, <2>3
<1> QED
  BY <1>2, <1>3

-----------------------------------------------------------------------------
(* Retries are paid for. *)

\* Arithmetic of the debt.
LEMMA DebtSteps ==
    ASSUME NEW w \in 0..1, NEW b \in Nat, NEW a \in Nat, NEW c \in 0..NoopRetryCap
    PROVE  /\ DebtOf(w, b, a, c) \in Int
           /\ DebtOf(1, b, a, c) <= DebtOf(w, b, a, c) + CallsPerRequest
           /\ DebtOf(w, b, a, 0) = DebtOf(w, b, a, c) + c
           /\ DebtOf(w, b, a + 1, c) = DebtOf(w, b, a, c) - 1
           /\ DebtOf(w, b + 1, a, c) = DebtOf(w, b, a, c) + CallsPerRequest
           /\ DebtOf(0, b + 1, a, c) = DebtOf(1, b, a, c)
           /\ c < NoopRetryCap => DebtOf(w, b, a, c + 1) = DebtOf(w, b, a, c) - 1
           /\ CallsPerRequest = NoopRetryCap + 1 /\ NoopRetryCap \in Nat
           /\ w + b >= 1 /\ a <= b => DebtOf(w, b, a, c) >= 0
<1>1. CallsPerRequest = NoopRetryCap + 1 /\ NoopRetryCap \in Nat
  BY HeartbeatWakeAssumption DEF CallsPerRequest
<1> DEFINE K == CallsPerRequest
<1>2. \A n \in Nat : K * (n + 1) = K * n + K /\ K * n \in Int
  BY <1>1
<1>3. \A n \in Nat : K * n = NoopRetryCap * n + n
  BY <1>1
<1>4. \A n \in Nat : n >= 1 => NoopRetryCap * n >= NoopRetryCap
  BY <1>1
<1>5. w + b \in Nat /\ b \in Nat /\ (w = 0 \/ w = 1) /\ c \in Int /\ c <= NoopRetryCap /\ c >= 0
  BY <1>1
<1>6. w = 1 => K * (1 + b) = K * (w + b)
  OBVIOUS
<1>7. w = 0 => w + b = b
  OBVIOUS
<1>8. K * (1 + b) = K * b + K /\ K * (0 + (b + 1)) = K * b + K /\ K * (w + (b + 1)) = K * (w + b) + K
  <2>1. 1 + b = b + 1 /\ 0 + (b + 1) = b + 1 /\ w + (b + 1) = (w + b) + 1
    OBVIOUS
  <2> QED
    BY <1>2, <1>5, <2>1
<1>9. K * (w + b) \in Int /\ K * b \in Int
  BY <1>2, <1>5
<1>10. w + b >= 1 => K * (w + b) >= NoopRetryCap + (w + b)
  <2> DEFINE m == w + b
             P == NoopRetryCap * m
  <2>1. m \in Nat /\ K * m = P + m /\ (m >= 1 => P >= NoopRetryCap) /\ P \in Int
    BY <1>1, <1>3, <1>4, <1>5
  <2>2. m >= 1 => P + m >= NoopRetryCap + m
    <3> HIDE DEF m, P
    <3> QED
      BY <1>1, <2>1
  <2> QED
    BY <2>1, <2>2
<1>11. K * (w + b) = K * b \/ K * (w + b) = K * b + K
  BY <1>5, <1>7, <1>8
<1> HIDE DEF K
<1>12. K = NoopRetryCap + 1
  BY <1>1 DEF K
<1>13. /\ DebtOf(w, b, a, c) = K * (w + b) - a - c
       /\ DebtOf(1, b, a, c) = K * (1 + b) - a - c
       /\ DebtOf(w, b, a, 0) = K * (w + b) - a - 0
       /\ DebtOf(w, b, a + 1, c) = K * (w + b) - (a + 1) - c
       /\ DebtOf(w, b + 1, a, c) = K * (w + (b + 1)) - a - c
       /\ DebtOf(0, b + 1, a, c) = K * (0 + (b + 1)) - a - c
       /\ DebtOf(w, b, a, c + 1) = K * (w + b) - a - (c + 1)
  BY DEF DebtOf, K
<1> DEFINE X == K * (w + b)
           Y == K * (1 + b)
           Z == K * (w + (b + 1))
           V == K * (0 + (b + 1))
           U == K * b
<1>14. X \in Int /\ U \in Int /\ (X = U \/ X = U + K) /\ Y = U + K /\ V = U + K /\ Z = X + K
       /\ (w + b >= 1 => X >= NoopRetryCap + (w + b))
  BY <1>8, <1>9, <1>10, <1>11
<1>15. /\ DebtOf(w, b, a, c) = X - a - c
       /\ DebtOf(1, b, a, c) = Y - a - c
       /\ DebtOf(w, b, a, 0) = X - a - 0
       /\ DebtOf(w, b, a + 1, c) = X - (a + 1) - c
       /\ DebtOf(w, b + 1, a, c) = Z - a - c
       /\ DebtOf(0, b + 1, a, c) = V - a - c
       /\ DebtOf(w, b, a, c + 1) = X - a - (c + 1)
  BY <1>13
<1> HIDE DEF X, Y, Z, V, U
<1> QED
  BY <1>1, <1>5, <1>12, <1>14, <1>15 DEF K

\* The names of the batches of a target are finite sets, and what is at its await is
\* still to be handled.
LEMMA FiniteNames ==
    ASSUME Types, IsFiniteSet(Names), NEW t \in Targets
    PROVE  /\ IsFiniteSet(Ahead(t)) /\ IsFiniteSet(AtAwait(t))
           /\ Cardinality(Ahead(t)) \in Nat /\ Cardinality(AtAwait(t)) \in Nat
           /\ Cardinality(AtAwait(t)) <= Cardinality(Ahead(t))
           /\ Waiting(t) \in 0..1
           /\ preModelNoopRetryCounts[t] \in 0..NoopRetryCap
<1>1. AtAwait(t) \subseteq Ahead(t)
  <2>1. \A f \in flights : AtEntry(f, t) => Handles(f, t)
    BY CurrentWake DEF Types, AtEntry, Handles
  <2> QED
    BY <2>1 DEF AtAwait, Ahead
<1>2. Ahead(t) \subseteq Names
  BY DEF Ahead, Names
<1>3. IsFiniteSet(Ahead(t))
  BY <1>2, FS_Subset
<1>4. IsFiniteSet(AtAwait(t)) /\ Cardinality(AtAwait(t)) <= Cardinality(Ahead(t))
  BY <1>1, <1>3, FS_Subset
<1>5. Cardinality(Ahead(t)) \in Nat /\ Cardinality(AtAwait(t)) \in Nat
  BY <1>3, <1>4, FS_CardinalityType
<1> QED
  BY <1>3, <1>4, <1>5 DEF Waiting, Types

\* The next state counts finitely many batches, too.
LEMMA FiniteNamesNext ==
    ASSUME Types', IsFiniteSet(Names)', NEW t \in Targets
    PROVE  Cardinality(AtAwait(t)') <= Cardinality(Ahead(t)')
<1>1. AtAwait(t)' \subseteq Ahead(t)'
  <2>1. \A f \in flights' : AtEntry(f, t) => Handles(f, t)
    BY CurrentWake DEF Types, AtEntry, Handles
  <2> QED
    BY <2>1 DEF AtAwait, Ahead
<1>2. Ahead(t)' \subseteq Names'
  BY DEF Ahead, Names
<1>3. IsFiniteSet(Ahead(t)')
  BY <1>2, FS_Subset
<1> QED
  BY <1>1, <1>3, FS_Subset

\* A step that changes no batch but its flags changes no set of names.
LEMMA SameNames ==
    ASSUME Types, NEW t,
           \A g \in flights' : \E f \in flights : Id(g) = Id(f) /\ g.batch = f.batch /\ g.current = f.current,
           \A f \in flights : \E g \in flights' : Id(g) = Id(f) /\ g.batch = f.batch /\ g.current = f.current
    PROVE  Names' = Names /\ Ahead(t)' = Ahead(t) /\ AtAwait(t)' = AtAwait(t)
BY DEF Names, Ahead, AtAwait, Handles, AtEntry

\* The credit of a target stays sufficient when nothing about it changes.
LEMMA SameDebt ==
    ASSUME NEW t, Ahead(t)' = Ahead(t), AtAwait(t)' = AtAwait(t), Waiting(t)' = Waiting(t),
           preModelNoopRetryCounts'[t] = preModelNoopRetryCounts[t]
    PROVE  Debt(t)' = Debt(t)
BY DEF Debt

\* Requests pay for what they queue.
LEMMA RequestPays ==
    ASSUME Types, CreditInv, NEW u \in Targets, NEW p \in Priorities, RequestHeartbeat(u, p)
    PROVE  CreditInv'
<1> DEFINE wake == [target |-> u, priority |-> p]
<1>1. wake \in Wakes /\ wake.target = u
  BY DEF Wakes
<1>2. /\ pendingWakes' = QueuePendingWakeReason(pendingWakes, wake)
      /\ credit' = [credit EXCEPT ![u] = @ + CallsPerRequest]
      /\ UNCHANGED <<flights, preModelNoopRetryCounts>>
  BY DEF RequestHeartbeat
<1> HIDE DEF wake
<1>3. TargetsOf(pendingWakes') = TargetsOf(pendingWakes) \cup {u}
  BY <1>1, <1>2, QueueOne DEF Types
<1>4. Names' = Names /\ \A t : Ahead(t)' = Ahead(t) /\ AtAwait(t)' = AtAwait(t)
  BY <1>2 DEF Names, Ahead, AtAwait
<1>5. CallsPerRequest \in Nat /\ credit' \in [Targets -> Int]
  BY <1>2, HeartbeatWakeAssumption DEF CallsPerRequest, CreditInv
<1>6. ASSUME NEW t \in Targets PROVE credit'[t] >= 0 /\ credit'[t] >= Debt(t)'
  <2>1. credit[t] \in Int /\ credit[t] >= 0 /\ credit[t] >= Debt(t)
    BY DEF CreditInv
  <2>2. CASE t # u
    <3>1. Waiting(t)' = Waiting(t)
      BY <1>3, <2>2 DEF Waiting
    <3>2. Debt(t)' = Debt(t)
      BY <1>2, <1>4, <3>1, SameDebt
    <3> QED
      BY <1>2, <2>1, <2>2, <3>2 DEF CreditInv
  <2>3. CASE t = u
    <3>1. Waiting(t)' = 1
      BY <1>3, <2>3 DEF Waiting
    <3> DEFINE w == Waiting(t)
               b == Cardinality(Ahead(t))
               a == Cardinality(AtAwait(t))
               c == preModelNoopRetryCounts[t]
    <3>2. Debt(t) = DebtOf(w, b, a, c) /\ Debt(t)' = DebtOf(1, b, a, c)
      BY <1>2, <1>4, <3>1 DEF Debt
    <3>3. w \in 0..1 /\ b \in Nat /\ a \in Nat /\ c \in 0..NoopRetryCap
      BY FiniteNames DEF CreditInv
    <3> HIDE DEF w, b, a, c
    <3>4. Debt(t)' <= Debt(t) + CallsPerRequest /\ Debt(t) \in Int /\ DebtOf(1, b, a, c) \in Int
      <4>1. 1 \in 0..1
        OBVIOUS
      <4>2. DebtOf(1, b, a, c) <= DebtOf(w, b, a, c) + CallsPerRequest /\ DebtOf(w, b, a, c) \in Int
        BY <3>3, DebtSteps
      <4>3. DebtOf(1, b, a, c) \in Int
        BY <3>3, <4>1, DebtSteps
      <4> QED
        BY <3>2, <4>2, <4>3
    <3>5. credit'[t] = credit[t] + CallsPerRequest
      BY <1>2, <2>3 DEF CreditInv
    <3>6. Debt(t)' \in Int
      BY <3>2, <3>4
    <3> QED
      BY <1>5, <2>1, <3>4, <3>5, <3>6
  <2> QED
    BY <2>2, <2>3
<1> QED
  BY <1>4, <1>5, <1>6 DEF CreditInv

\* A registration forgets the counted retries and pays for them.
LEMMA RegisterPays ==
    ASSUME Types, CreditInv, SetHeartbeatWakeHandler
    PROVE  CreditInv'
<1>1. /\ flights' = {[f EXCEPT !.orphan = TRUE] : f \in flights}
      /\ preModelNoopRetryCounts' = [t \in Targets |-> 0]
      /\ credit' = [t \in Targets |-> credit[t] + CallsPerRequest]
      /\ pendingWakes' = pendingWakes
  BY DEF SetHeartbeatWakeHandler
<1>2. \A f \in flights : /\ Id([f EXCEPT !.orphan = TRUE]) = Id(f)
                         /\ [f EXCEPT !.orphan = TRUE].batch = f.batch
                         /\ [f EXCEPT !.orphan = TRUE].current = f.current
  BY DEF Types, ProperFlight, Flights, Id
<1>3. Names' = Names /\ \A t : Ahead(t)' = Ahead(t) /\ AtAwait(t)' = AtAwait(t)
  <2>1. \A g \in flights' : \E f \in flights : Id(g) = Id(f) /\ g.batch = f.batch /\ g.current = f.current
    BY <1>1, <1>2
  <2>2. \A f \in flights : \E g \in flights' : Id(g) = Id(f) /\ g.batch = f.batch /\ g.current = f.current
    BY <1>1, <1>2
  <2> QED
    BY <2>1, <2>2, SameNames
<1>4. CallsPerRequest \in Nat /\ credit' \in [Targets -> Int]
  BY <1>1, HeartbeatWakeAssumption DEF CallsPerRequest, CreditInv
<1>5. ASSUME NEW t \in Targets PROVE credit'[t] >= 0 /\ credit'[t] >= Debt(t)'
  <2> DEFINE w == Waiting(t)
             b == Cardinality(Ahead(t))
             a == Cardinality(AtAwait(t))
             c == preModelNoopRetryCounts[t]
  <2>1. credit[t] \in Int /\ credit[t] >= 0 /\ credit[t] >= Debt(t)
        /\ credit'[t] = credit[t] + CallsPerRequest
    BY <1>1 DEF CreditInv
  <2>2. Debt(t) = DebtOf(w, b, a, c) /\ Debt(t)' = DebtOf(w, b, a, 0)
    BY <1>1, <1>3 DEF Debt, Waiting
  <2>3. w \in 0..1 /\ b \in Nat /\ a \in Nat /\ c \in 0..NoopRetryCap
    BY FiniteNames DEF CreditInv
  <2> HIDE DEF w, b, a, c
  <2>4. Debt(t)' = Debt(t) + c /\ Debt(t) \in Int /\ c \in Int /\ c <= CallsPerRequest
    <3>1. /\ DebtOf(w, b, a, 0) = DebtOf(w, b, a, c) + c /\ DebtOf(w, b, a, c) \in Int
          /\ CallsPerRequest = NoopRetryCap + 1 /\ NoopRetryCap \in Nat
      BY <2>3, DebtSteps
    <3> QED
      BY <2>2, <2>3, <3>1
  <2> QED
    BY <1>4, <2>1, <2>4
<1> QED
  BY <1>3, <1>4, <1>5 DEF CreditInv

\* A handler that hangs has its call counted already.
LEMMA HangPays ==
    ASSUME Types, CreditInv, NEW f \in flights, HandlerHangs(f)
    PROVE  CreditInv'
<1> DEFINE new == [f EXCEPT !.hung = TRUE]
<1>1. /\ flights' = (flights \ {f}) \cup {new}
      /\ UNCHANGED <<preModelNoopRetryCounts, credit, pendingWakes>>
  BY DEF HandlerHangs
<1>2. Id(new) = Id(f) /\ new.batch = f.batch /\ new.current = f.current
  BY DEF Types, ProperFlight, Flights, Id
<1> HIDE DEF new
<1>3. Names' = Names /\ \A t : Ahead(t)' = Ahead(t) /\ AtAwait(t)' = AtAwait(t)
  <2>1. \A g \in flights' : \E h \in flights : Id(g) = Id(h) /\ g.batch = h.batch /\ g.current = h.current
    BY <1>1, <1>2
  <2>2. \A h \in flights : \E g \in flights' : Id(g) = Id(h) /\ g.batch = h.batch /\ g.current = h.current
    BY <1>1, <1>2
  <2> QED
    BY <2>1, <2>2, SameNames
<1>4. \A t : Waiting(t)' = Waiting(t)
  BY <1>1 DEF Waiting
<1>5. \A t : Debt(t)' = Debt(t)
  BY <1>1, <1>3, <1>4 DEF Debt
<1> QED
  BY <1>1, <1>3, <1>5 DEF CreditInv

\* A dispatch moves the pending wakes into a new batch and calls for the first.
LEMMA DispatchPays ==
    ASSUME Types, Types', NameInv, CreditInv, Dispatch
    PROVE  CreditInv'
<1> DEFINE others == {[f EXCEPT !.orphan = @ \/ running] : f \in flights}
           new == [lifecycle |-> handlerGeneration, generation |-> runningOwnerGeneration + 1,
                   batch |-> pendingWakes, current |-> 1, hung |-> FALSE, orphan |-> FALSE]
<1>1. \A f \in flights : /\ Id([f EXCEPT !.orphan = @ \/ running]) = Id(f)
                         /\ [f EXCEPT !.orphan = @ \/ running].batch = f.batch
                         /\ [f EXCEPT !.orphan = @ \/ running].current = f.current
  BY DEF Types, ProperFlight, Flights, Id
<1>2. \A g \in others : \E f \in flights : Id(g) = Id(f) /\ g.batch = f.batch /\ g.current = f.current
  BY <1>1
<1>3. \A f \in flights : \E g \in others : Id(g) = Id(f) /\ g.batch = f.batch /\ g.current = f.current
  BY <1>1
<1>4. preModelNoopRetryCounts' = preModelNoopRetryCounts /\ pendingWakes' = <<>>
  BY DEF Dispatch
<1>5. \A t : Waiting(t)' = 0
  BY <1>4 DEF Waiting, TargetsOf
<1>6. CASE pendingWakes = <<>>
  <2>1. flights' = others /\ credit' = credit
    BY <1>6 DEF Dispatch
  <2>2. Names' = Names /\ \A t : Ahead(t)' = Ahead(t) /\ AtAwait(t)' = AtAwait(t)
    <3> HIDE DEF others
    <3> QED
      BY <1>2, <1>3, <2>1, SameNames
  <2>3. \A t : Waiting(t) = 0
    BY <1>6 DEF Waiting, TargetsOf
  <2>4. \A t : Debt(t)' = Debt(t)
    BY <1>4, <1>5, <2>2, <2>3 DEF Debt
  <2> QED
    BY <2>1, <2>2, <2>4 DEF CreditInv
<1>7. CASE pendingWakes # <<>>
  <2> DEFINE u == pendingWakes[1].target
  <2>1. flights' = others \cup {new} /\ credit' = [credit EXCEPT ![u] = @ - 1]
    BY <1>7 DEF Dispatch
  <2>2. new.batch = pendingWakes /\ new.current = 1
        /\ Id(new) = <<handlerGeneration, runningOwnerGeneration + 1>>
    BY DEF Id
  <2>3. pendingWakes \in Seq(Wakes) /\ Len(pendingWakes) \in Nat /\ Len(pendingWakes) >= 1
        /\ DOMAIN pendingWakes = 1..Len(pendingWakes)
    BY <1>7 DEF Types, WellQueued
  <2>4. pendingWakes[1] \in Wakes
    BY <2>3
  <2>5. u \in Targets
    BY <2>4, WakeFields
  <2>6. Id(new) \notin Names
    <3> SUFFICES ASSUME NEW f \in flights, Id(f) = Id(new) PROVE FALSE
      BY DEF Names
    <3>1. f.lifecycle = handlerGeneration /\ f.generation = runningOwnerGeneration + 1
      BY <2>2 DEF Id
    <3> QED
      BY <3>1 DEF NameInv, Types
  <2>7. \A t : Handles(new, t) <=> t \in TargetsOf(pendingWakes)
    BY <2>2, <2>3 DEF Handles, TargetsOf
  <2>8. \A t : AtEntry(new, t) <=> t = u
    BY <2>2 DEF AtEntry
  <2> HIDE DEF others, new, u
  <2>9. Names' = Names \cup {Id(new)}
    BY <1>2, <1>3, <2>1 DEF Names
  <2>10. \A t : Ahead(t)' = IF t \in TargetsOf(pendingWakes) THEN Ahead(t) \cup {Id(new)} ELSE Ahead(t)
    BY <1>2, <1>3, <2>1, <2>7 DEF Ahead, Handles
  <2>11. \A t : AtAwait(t)' = IF t = u THEN AtAwait(t) \cup {Id(new)} ELSE AtAwait(t)
    <3> SUFFICES ASSUME NEW t
                 PROVE  AtAwait(t)' = IF t = u THEN AtAwait(t) \cup {Id(new)} ELSE AtAwait(t)
      OBVIOUS
    <3>1. \A g \in others : \E f \in flights : Id(g) = Id(f) /\ (AtEntry(g, t) <=> AtEntry(f, t))
      BY <1>2 DEF AtEntry
    <3>2. \A f \in flights : \E g \in others : Id(g) = Id(f) /\ (AtEntry(g, t) <=> AtEntry(f, t))
      BY <1>3 DEF AtEntry
    <3> QED
      BY <2>1, <2>8, <3>1, <3>2 DEF AtAwait
  <2>12. IsFiniteSet(Names')
    BY <2>9, FS_AddElement DEF CreditInv
  <2>13. credit' \in [Targets -> Int]
    BY <2>1, <2>5 DEF CreditInv
  <2>14. ASSUME NEW t \in Targets PROVE credit'[t] >= 0 /\ credit'[t] >= Debt(t)'
    <3> DEFINE w == Waiting(t)
               b == Cardinality(Ahead(t))
               a == Cardinality(AtAwait(t))
               c == preModelNoopRetryCounts[t]
               x == Cardinality(Ahead(t)')
               y == Cardinality(AtAwait(t)')
    <3>1. credit[t] \in Int /\ credit[t] >= 0 /\ credit[t] >= Debt(t)
      BY DEF CreditInv
    <3>2. /\ w \in 0..1 /\ b \in Nat /\ a \in Nat /\ c \in 0..NoopRetryCap /\ a <= b
          /\ IsFiniteSet(Ahead(t)) /\ IsFiniteSet(AtAwait(t))
      BY FiniteNames DEF CreditInv
    <3>3. Id(new) \notin Ahead(t) /\ Id(new) \notin AtAwait(t)
      BY <2>6 DEF Ahead, AtAwait, Names
    <3>4. Debt(t) = DebtOf(w, b, a, c) /\ Debt(t)' = DebtOf(0, x, y, c)
      BY <1>4, <1>5 DEF Debt
    <3>5. (t \in TargetsOf(pendingWakes) => w = 1 /\ x = b + 1)
          /\ (t \notin TargetsOf(pendingWakes) => w = 0 /\ x = b)
      BY <2>10, <3>2, <3>3, FS_AddElement DEF Waiting
    <3>6. (t = u => y = a + 1) /\ (t # u => y = a)
      BY <2>11, <3>2, <3>3, FS_AddElement
    <3> HIDE DEF w, b, a, c, x, y
    <3>7. CASE t # u
      <4>1. DebtOf(0, x, y, c) = DebtOf(w, b, a, c)
        <5>1. CASE t \in TargetsOf(pendingWakes)
          <6>1. w = 1 /\ x = b + 1 /\ y = a
            BY <3>5, <3>6, <3>7, <5>1
          <6>2. DebtOf(0, b + 1, a, c) = DebtOf(1, b, a, c)
            BY <3>2, DebtSteps
          <6> QED
            BY <6>1, <6>2
        <5>2. CASE t \notin TargetsOf(pendingWakes)
          BY <3>5, <3>6, <3>7, <5>2
        <5> QED
          BY <5>1, <5>2
      <4>2. credit'[t] = credit[t]
        BY <2>1, <2>5, <3>7 DEF CreditInv
      <4> QED
        BY <3>1, <3>4, <4>1, <4>2
    <3>8. CASE t = u
      <4>1. u \in TargetsOf(pendingWakes)
        BY <2>3 DEF TargetsOf, u
      <4>2. w = 1 /\ x = b + 1 /\ y = a + 1
        BY <3>5, <3>6, <3>8, <4>1
      <4>3. DebtOf(0, x, y, c) = DebtOf(0, x, a, c) - 1
        BY <3>2, <4>2, DebtSteps
      <4>4. DebtOf(0, x, a, c) = DebtOf(w, b, a, c) /\ DebtOf(w, b, a, c) \in Int
        BY <3>2, <4>2, DebtSteps, ZenonT(40)
      <4>5. DebtOf(0, x, y, c) >= 0
        <5>1. 0 \in 0..1 /\ x \in Nat /\ y \in Nat /\ 0 + x >= 1 /\ y <= x
          BY <3>2, <4>2
        <5> QED
          BY <3>2, <5>1, DebtSteps
      <4>6. credit'[t] = credit[t] - 1
        BY <2>1, <2>5, <3>8 DEF CreditInv
      <4> QED
        BY <3>1, <3>4, <4>3, <4>4, <4>5, <4>6
    <3> QED
      BY <3>7, <3>8
  <2> QED
    BY <2>12, <2>13, <2>14 DEF CreditInv
<1> QED
  BY <1>6, <1>7

\* The batch that settles leaves the sets of its current target; it stays in the sets
\* of the targets ahead, unless it ends.
LEMMA SettleNames ==
    ASSUME Types, NameInv, IsFiniteSet(Names), NEW f \in flights, NEW outcome \in Outcomes,
           HandlerSettles(f, outcome), NEW t \in Targets,
           NEW u, u = f.batch[f.current].target
    PROVE  /\ IsFiniteSet(Names)'
           /\ t = u => /\ Cardinality(Ahead(t)') = Cardinality(Ahead(t)) - 1
                       /\ Cardinality(AtAwait(t)') = Cardinality(AtAwait(t)) - 1
           /\ t # u /\ (outcome = "throws" \/ f.current = Len(f.batch)) =>
                 /\ Cardinality(AtAwait(t)') = Cardinality(AtAwait(t))
                 /\ \/ Cardinality(Ahead(t)') = Cardinality(Ahead(t))
                    \/ /\ Cardinality(Ahead(t)') = Cardinality(Ahead(t)) - 1
                       /\ outcome = "throws" /\ t \in TargetsOf(f.batch)
           /\ t # u /\ outcome # "throws" /\ f.current # Len(f.batch) =>
                 /\ Cardinality(Ahead(t)') = Cardinality(Ahead(t))
                 /\ IF t = f.batch[f.current + 1].target
                    THEN /\ Cardinality(AtAwait(t)') = Cardinality(AtAwait(t)) + 1
                         /\ Cardinality(Ahead(t)) >= 1
                    ELSE Cardinality(AtAwait(t)') = Cardinality(AtAwait(t))
<1> DEFINE n == Id(f)
           new == [f EXCEPT !.current = @ + 1, !.hung = FALSE]
           v == f.batch[f.current + 1].target
<1>1. ProperFlight(f) /\ DistinctTargets(f.batch)
  BY DEF Types, ProperFlight
<1>2. /\ Len(f.batch) \in Nat /\ DOMAIN f.batch = 1..Len(f.batch)
      /\ f.current \in 1..Len(f.batch)
  BY <1>1, CurrentWake
<1>3. new.batch = f.batch /\ new.current = f.current + 1 /\ Id(new) = n
  BY <1>1, AdvanceKeepsName DEF Id
<1>4. IsFiniteSet(Ahead(t)) /\ IsFiniteSet(AtAwait(t))
      /\ Cardinality(Ahead(t)) \in Nat /\ Cardinality(AtAwait(t)) \in Nat
  BY FiniteNames
<1>5. \A g \in flights : Id(g) = n => g = f
  BY DEF NameInv
<1>6. n \in AtAwait(t) <=> t = u
  BY <1>5 DEF AtAwait, AtEntry
<1>7. n \in Ahead(t) <=> Handles(f, t)
  BY <1>5 DEF Ahead
<1>8. t = u => Handles(f, t)
  BY <1>2 DEF Handles
<1>9. Handles(f, t) => t \in TargetsOf(f.batch)
  <2> SUFFICES ASSUME NEW i \in f.current..Len(f.batch), f.batch[i].target = t
               PROVE  t \in TargetsOf(f.batch)
    BY DEF Handles
  <2>1. i \in DOMAIN f.batch
    BY <1>2
  <2> QED
    BY <2>1 DEF TargetsOf
<1>10. f.current = Len(f.batch) /\ Handles(f, t) => t = u
  <2> SUFFICES ASSUME f.current = Len(f.batch), NEW i \in f.current..Len(f.batch),
                      f.batch[i].target = t
               PROVE  t = u
    BY DEF Handles
  <2>1. i = f.current
    BY <1>2
  <2> QED
    BY <2>1
<1>11. CASE outcome = "throws" \/ f.current = Len(f.batch)
  <2>1. flights' = flights \ {f}
    BY <1>11, SettleFlights
  <2> HIDE DEF n, new, v
  <2>2. Names' = Names \ {n} /\ Ahead(t)' = Ahead(t) \ {n} /\ AtAwait(t)' = AtAwait(t) \ {n}
    BY <1>5, <2>1 DEF Names, Ahead, AtAwait, n
  <2>3. IsFiniteSet(Names \ {n})
    BY FS_RemoveElement
  <2>4. /\ Cardinality(Ahead(t) \ {n}) =
              IF n \in Ahead(t) THEN Cardinality(Ahead(t)) - 1 ELSE Cardinality(Ahead(t))
        /\ Cardinality(AtAwait(t) \ {n}) =
              IF n \in AtAwait(t) THEN Cardinality(AtAwait(t)) - 1 ELSE Cardinality(AtAwait(t))
    BY <1>4, FS_RemoveElement
  <2> QED
    BY <1>6, <1>7, <1>8, <1>9, <1>10, <1>11, <2>2, <2>3, <2>4
<1>12. CASE outcome # "throws" /\ f.current # Len(f.batch)
  <2>1. flights' = (flights \ {f}) \cup {new}
    BY <1>12, SettleFlights
  <2>2. f.current + 1 \in f.current..Len(f.batch) /\ f.current + 1 \in DOMAIN f.batch
        /\ f.current \in DOMAIN f.batch /\ f.current + 1 # f.current
    BY <1>2, <1>12
  <2>3. v # u
    BY <1>1, <2>2 DEF DistinctTargets
  <2>4. t = v => Handles(f, t)
    BY <2>2 DEF Handles
  <2>5. AtEntry(new, t) <=> t = v
    BY <1>3 DEF AtEntry
  <2>6. Handles(new, t) <=> Handles(f, t) /\ t # u
    <3>1. ASSUME Handles(new, t) PROVE Handles(f, t) /\ t # u
      <4>1. PICK i \in (f.current + 1)..Len(f.batch) : f.batch[i].target = t
        BY <1>3, <3>1 DEF Handles
      <4>2. i \in f.current..Len(f.batch) /\ i \in DOMAIN f.batch /\ i # f.current
        BY <1>2, <4>1
      <4> QED
        BY <1>1, <2>2, <4>1, <4>2 DEF Handles, DistinctTargets
    <3>2. ASSUME Handles(f, t), t # u PROVE Handles(new, t)
      <4>1. PICK i \in f.current..Len(f.batch) : f.batch[i].target = t
        BY <3>2 DEF Handles
      <4>2. i # f.current
        BY <3>2, <4>1
      <4>3. i \in (f.current + 1)..Len(f.batch)
        BY <1>2, <4>1, <4>2
      <4> QED
        BY <1>3, <4>1, <4>3 DEF Handles
    <3> QED
      BY <3>1, <3>2
  <2>f. u = f.batch[f.current].target /\ v = f.batch[f.current + 1].target
    OBVIOUS
  <2> HIDE DEF n, new, v
  <2>7. Names' = Names
    BY <1>3, <2>1 DEF Names, n
  <2>8. Ahead(t)' = IF t = u THEN Ahead(t) \ {n} ELSE Ahead(t)
    <3>1. Ahead(t)' = IF Handles(new, t) THEN (Ahead(t) \ {n}) \cup {n} ELSE Ahead(t) \ {n}
      BY <1>3, <1>5, <2>1 DEF Ahead, n
    <3> QED
      BY <1>7, <2>6, <3>1
  <2>9. AtAwait(t)' = IF t = v THEN AtAwait(t) \cup {n} ELSE AtAwait(t) \ {n}
    <3>1. AtAwait(t)' = IF AtEntry(new, t) THEN (AtAwait(t) \ {n}) \cup {n} ELSE AtAwait(t) \ {n}
      BY <1>3, <1>5, <2>1 DEF AtAwait, n
    <3> QED
      BY <2>5, <3>1
  <2>10. /\ Cardinality(Ahead(t) \ {n}) =
              IF n \in Ahead(t) THEN Cardinality(Ahead(t)) - 1 ELSE Cardinality(Ahead(t))
         /\ Cardinality(AtAwait(t) \ {n}) =
              IF n \in AtAwait(t) THEN Cardinality(AtAwait(t)) - 1 ELSE Cardinality(AtAwait(t))
         /\ Cardinality(AtAwait(t) \cup {n}) =
              IF n \in AtAwait(t) THEN Cardinality(AtAwait(t)) ELSE Cardinality(AtAwait(t)) + 1
    BY <1>4, FS_RemoveElement, FS_AddElement
  <2>11. t = v => Cardinality(Ahead(t)) >= 1
    <3> SUFFICES ASSUME t = v PROVE Cardinality(Ahead(t)) >= 1
      OBVIOUS
    <3>1. Ahead(t) # {}
      BY <1>7, <2>4
    <3>2. Cardinality(Ahead(t)) # 0
      BY <1>4, <3>1, FS_EmptySet
    <3> QED
      BY <1>4, <3>2
  <2>12. CASE t = u
    BY <1>6, <1>7, <1>8, <1>12, <2>3, <2>7, <2>8, <2>9, <2>10, <2>12
  <2>13. CASE t # u /\ t = v
    BY <1>6, <1>12, <2>f, <2>7, <2>8, <2>9, <2>10, <2>11, <2>13
  <2>14. CASE t # u /\ t # v
    BY <1>6, <1>12, <2>f, <2>7, <2>8, <2>9, <2>10, <2>14
  <2> QED
    BY <2>12, <2>13, <2>14
<1> QED
  BY <1>11, <1>12

\* What the outcomes make of the debt of the target that was called for.
LEMMA SettledDebts ==
    ASSUME NEW w \in 0..1, NEW b \in Nat, NEW a \in Nat, NEW c \in 0..NoopRetryCap
    PROVE  /\ DebtOf(w, b, a, 0) <= DebtOf(w, b + 1, a + 1, c)
           /\ c < NoopRetryCap => DebtOf(1, b, a, c + 1) <= DebtOf(w, b + 1, a + 1, c)
           /\ DebtOf(1, b, a, 0) <= DebtOf(w, b + 1, a + 1, c) + CallsPerRequest
           /\ DebtOf(1, b, a, c) <= DebtOf(w, b + 1, a + 1, c) + CallsPerRequest
           /\ DebtOf(1, b, a, c) <= DebtOf(w, b + 1, a, c) + CallsPerRequest
           /\ {DebtOf(w, b, a, 0), DebtOf(w, b + 1, a + 1, c), DebtOf(w, b + 1, a, c),
               DebtOf(1, b, a, c), DebtOf(1, b, a, 0), CallsPerRequest} \subseteq Int
           /\ c < NoopRetryCap => DebtOf(1, b, a, c + 1) \in Int
<1>1. b + 1 \in Nat /\ a + 1 \in Nat /\ 1 \in 0..1 /\ c \in Int /\ c >= 0 /\ c <= NoopRetryCap
      /\ NoopRetryCap \in Nat /\ 0 \in 0..NoopRetryCap
  BY HeartbeatWakeAssumption
<1>2. /\ DebtOf(w, b, a, c) \in Int
      /\ DebtOf(1, b, a, c) <= DebtOf(w, b, a, c) + CallsPerRequest
      /\ DebtOf(w, b, a, 0) = DebtOf(w, b, a, c) + c
      /\ DebtOf(w, b + 1, a, c) = DebtOf(w, b, a, c) + CallsPerRequest
      /\ CallsPerRequest = NoopRetryCap + 1
  BY DebtSteps, ZenonT(40)
<1>3. DebtOf(w, b + 1, a + 1, c) = DebtOf(w, b + 1, a, c) - 1
  BY <1>1, DebtSteps, ZenonT(40)
<1>4. /\ DebtOf(1, b, a, c) \in Int
      /\ DebtOf(1, b, a, 0) = DebtOf(1, b, a, c) + c
      /\ c < NoopRetryCap => DebtOf(1, b, a, c + 1) = DebtOf(1, b, a, c) - 1
  BY <1>1, DebtSteps
<1> QED
  BY <1>1, <1>2, <1>3, <1>4

\* An outcome is paid for by the call it settles, or pays for what it sends back.
LEMMA SettlePays ==
    ASSUME Types, Types', NameInv, CreditInv, NEW f \in flights, NEW outcome \in Outcomes,
           HandlerSettles(f, outcome)
    PROVE  CreditInv'
<1> DEFINE u == f.batch[f.current].target
           v == f.batch[f.current + 1].target
           back == Requeued(f, outcome)
           ended == outcome = "throws" \/ f.current = Len(f.batch)
           fault == outcome \in {"busy", "throws"}
           paid == [t \in Targets |->
                        IF fault /\ \E i \in DOMAIN back : back[i].target = t
                        THEN credit[t] + CallsPerRequest ELSE credit[t]]
<1>1. ProperFlight(f) /\ DistinctTargets(f.batch)
  BY DEF Types, ProperFlight
<1>2. /\ Len(f.batch) \in Nat /\ DOMAIN f.batch = 1..Len(f.batch)
      /\ f.current \in 1..Len(f.batch) /\ f.batch[f.current] \in Wakes
      /\ \A i \in 1..Len(f.batch) : f.batch[i] \in Wakes
  BY <1>1, CurrentWake
<1>3. u \in Targets
  BY <1>2, WakeFields
<1>4. ~ended => v \in Targets /\ v # u
  <2> SUFFICES ASSUME ~ended PROVE v \in Targets /\ v # u
    OBVIOUS
  <2>1. f.current + 1 \in 1..Len(f.batch) /\ f.current + 1 # f.current
    BY <1>2
  <2> QED
    BY <1>1, <1>2, <2>1, WakeFields DEF DistinctTargets
<1>5. u \in TargetsOf(f.batch)
  BY <1>2 DEF TargetsOf
<1>6. credit' = IF ended THEN paid ELSE [paid EXCEPT ![v] = @ - 1]
  BY DEF HandlerSettles
<1>7. TargetsOf(pendingWakes') = TargetsOf(pendingWakes) \cup TargetsOf(back)
  BY SettleFacts
<1>8. preModelNoopRetryCounts' = CountsAfter(f, outcome)
  BY DEF HandlerSettles
<1>9. /\ \A x : TargetsOf(<<x>>) = {x.target}
      /\ TargetsOf(<<>>) = {}
  BY DEF TargetsOf
<1>10. /\ outcome = "throws" => TargetsOf(back) = TargetsOf(f.batch)
       /\ outcome = "ran" => TargetsOf(back) = {}
       /\ outcome = "busy" => TargetsOf(back) = {u}
       /\ outcome = "noop" =>
             TargetsOf(back) = IF preModelNoopRetryCounts[u] < NoopRetryCap THEN {u} ELSE {}
  BY <1>9, RequeuedWakes
<1>11. \A t \in Targets :
          paid[t] = IF fault /\ t \in TargetsOf(back) THEN credit[t] + CallsPerRequest ELSE credit[t]
  BY DEF TargetsOf
<1>12. CallsPerRequest \in Nat
  BY HeartbeatWakeAssumption DEF CallsPerRequest
<1>13. paid \in [Targets -> Int]
  <2>1. \A t \in Targets : credit[t] \in Int
    BY DEF CreditInv
  <2>2. \A t \in Targets : paid[t] \in Int
    BY <1>11, <1>12, <2>1
  <2>3. paid = [t \in Targets |-> paid[t]]
    OBVIOUS
  <2> HIDE DEF paid
  <2> QED
    BY <2>2, <2>3
<1> HIDE DEF paid
<1>14. /\ credit' \in [Targets -> Int]
       /\ \A t \in Targets : credit'[t] = IF ~ended /\ t = v THEN paid[t] - 1 ELSE paid[t]
  BY <1>4, <1>6, <1>13
<1>15. \A t \in Targets : t # u => preModelNoopRetryCounts'[t] = preModelNoopRetryCounts[t]
  BY <1>8 DEF CountsAfter, Types
<1>16. /\ outcome \in {"ran", "busy"} => preModelNoopRetryCounts'[u] = 0
       /\ outcome = "throws" => preModelNoopRetryCounts'[u] = preModelNoopRetryCounts[u]
       /\ outcome = "noop" => preModelNoopRetryCounts'[u] = NoopRetry(preModelNoopRetryCounts[u])[2]
  BY <1>3, <1>8 DEF CountsAfter, Types
<1>17. ended <=> (outcome = "throws" \/ f.current = Len(f.batch))
  OBVIOUS
<1>18. IsFiniteSet(Names)'
  BY <1>3, SettleNames DEF CreditInv
<1>19. u = f.batch[f.current].target /\ v = f.batch[f.current + 1].target
  OBVIOUS
<1> HIDE DEF u, v, back
<1>20. ASSUME NEW t \in Targets PROVE credit'[t] >= 0 /\ credit'[t] >= Debt(t)'
  <2> DEFINE w == Waiting(t)
             b == Cardinality(Ahead(t))
             a == Cardinality(AtAwait(t))
             c == preModelNoopRetryCounts[t]
             w1 == Waiting(t)'
             b1 == Cardinality(Ahead(t)')
             a1 == Cardinality(AtAwait(t)')
             c1 == preModelNoopRetryCounts'[t]
  <2>1. credit[t] \in Int /\ credit[t] >= 0 /\ credit[t] >= Debt(t)
    BY DEF CreditInv
  <2>2. w \in 0..1 /\ b \in Nat /\ a \in Nat /\ c \in 0..NoopRetryCap /\ a <= b
    BY FiniteNames DEF CreditInv
  <2>3. Debt(t) = DebtOf(w, b, a, c) /\ Debt(t)' = DebtOf(w1, b1, a1, c1)
    BY DEF Debt
  <2>4. (t \in TargetsOf(back) => w1 = 1) /\ (t \notin TargetsOf(back) => w1 = w)
    BY <1>7 DEF Waiting
  <2>5. b1 \in Nat /\ a1 \in Nat /\ a1 <= b1
    <3>1. AtAwait(t)' \subseteq Names' /\ Ahead(t)' \subseteq Names'
      BY DEF AtAwait, Ahead, Names
    <3>2. IsFiniteSet(AtAwait(t)') /\ IsFiniteSet(Ahead(t)')
      BY <1>18, <3>1, FS_Subset
    <3>3. b1 \in Nat /\ a1 \in Nat
      BY <3>2, FS_CardinalityType
    <3> QED
      BY <1>18, <3>3, FiniteNamesNext
  <2>6. /\ t = u => b1 = b - 1 /\ a1 = a - 1
        /\ t # u /\ ended =>
              a1 = a /\ (b1 = b \/ (b1 = b - 1 /\ outcome = "throws" /\ t \in TargetsOf(f.batch)))
        /\ t # u /\ ~ended =>
              b1 = b /\ IF t = v THEN a1 = a + 1 /\ b >= 1 ELSE a1 = a
    BY <1>3, <1>19, SettleNames DEF CreditInv
  <2>7. t # u => c1 = c
    BY <1>15
  <2> HIDE DEF w, b, a, c, w1, b1, a1, c1, ended, fault
  <2>8. CASE t = u
    <3>1. credit'[t] = paid[t]
      BY <1>4, <1>14, <2>8
    <3>2. b = b1 + 1 /\ a = a1 + 1
      BY <2>2, <2>5, <2>6, <2>8
    <3>3. /\ DebtOf(w, b1, a1, 0) <= DebtOf(w, b, a, c)
          /\ c < NoopRetryCap => DebtOf(1, b1, a1, c + 1) <= DebtOf(w, b, a, c)
          /\ DebtOf(1, b1, a1, 0) <= DebtOf(w, b, a, c) + CallsPerRequest
          /\ DebtOf(1, b1, a1, c) <= DebtOf(w, b, a, c) + CallsPerRequest
          /\ DebtOf(w, b, a, c) \in Int /\ DebtOf(w, b1, a1, 0) \in Int
          /\ DebtOf(1, b1, a1, c) \in Int /\ DebtOf(1, b1, a1, 0) \in Int
          /\ c < NoopRetryCap => DebtOf(1, b1, a1, c + 1) \in Int
      BY <2>2, <2>5, <3>2, SettledDebts
    <3>4. CASE outcome = "ran"
      <4>1. w1 = w /\ c1 = 0 /\ paid[t] = credit[t]
        BY <1>10, <1>11, <1>16, <2>4, <2>8, <3>4 DEF c1, fault
      <4> QED
        BY <2>1, <2>3, <3>1, <3>3, <4>1
    <3>5. CASE outcome = "busy"
      <4>1. w1 = 1 /\ c1 = 0 /\ paid[t] = credit[t] + CallsPerRequest
        BY <1>10, <1>11, <1>16, <2>4, <2>8, <3>5 DEF c1, fault
      <4> QED
        BY <1>12, <2>1, <2>3, <3>1, <3>3, <4>1
    <3>6. CASE outcome = "throws"
      <4>1. w1 = 1 /\ c1 = c /\ paid[t] = credit[t] + CallsPerRequest
        BY <1>5, <1>10, <1>11, <1>16, <2>4, <2>8, <3>6 DEF c1, c, fault
      <4> QED
        BY <1>12, <2>1, <2>3, <3>1, <3>3, <4>1
    <3>7. CASE outcome = "noop"
      <4>1. paid[t] = credit[t]
        BY <1>11, <3>7 DEF fault
      <4>2. c1 = NoopRetry(c)[2]
        BY <1>16, <2>8, <3>7 DEF c1, c
      <4>3. CASE c < NoopRetryCap
        <5>1. w1 = 1 /\ c1 = c + 1
          <6>1. t \in TargetsOf(back)
            BY <1>10, <2>8, <3>7, <4>3 DEF c
          <6>2. c1 = c + 1
            BY <2>2, <4>2, <4>3, NoopCounts
          <6> QED
            BY <2>4, <6>1, <6>2
        <5> QED
          BY <2>1, <2>3, <3>1, <3>3, <4>1, <4>3, <5>1
      <4>4. CASE ~(c < NoopRetryCap)
        <5>1. w1 = w /\ c1 = 0
          <6>1. t \notin TargetsOf(back)
            BY <1>10, <2>8, <3>7, <4>4 DEF c
          <6>2. c = NoopRetryCap
            BY <2>2, <4>4, HeartbeatWakeAssumption
          <6>3. c1 = 0
            BY <2>2, <4>2, <6>2, NoopCounts
          <6> QED
            BY <2>4, <6>1, <6>3
        <5> QED
          BY <2>1, <2>3, <3>1, <3>3, <4>1, <5>1
      <4> QED
        BY <4>3, <4>4
    <3> QED
      BY <3>4, <3>5, <3>6, <3>7 DEF Outcomes
  <2>9. CASE t # u /\ ended
    <3>1. credit'[t] = paid[t] /\ a1 = a /\ c1 = c
      BY <1>14, <2>6, <2>7, <2>9
    <3>2. CASE outcome = "throws" /\ t \in TargetsOf(f.batch)
      <4>1. w1 = 1 /\ paid[t] = credit[t] + CallsPerRequest
        BY <1>10, <1>11, <2>4, <3>2 DEF fault
      <4>2. b1 = b \/ b = b1 + 1
        BY <2>2, <2>5, <2>6, <2>9
      <4>3. /\ DebtOf(1, b1, a, c) <= DebtOf(w, b, a, c) + CallsPerRequest
            /\ DebtOf(1, b1, a, c) \in Int /\ DebtOf(w, b, a, c) \in Int
        <5>1. CASE b1 = b
          <6>1. DebtOf(1, b, a, c) <= DebtOf(w, b, a, c) + CallsPerRequest
                /\ DebtOf(w, b, a, c) \in Int
            BY <2>2, DebtSteps
          <6>2. 1 \in 0..1
            OBVIOUS
          <6>3. DebtOf(1, b, a, c) \in Int
            BY <2>2, <6>2, DebtSteps
          <6> QED
            BY <5>1, <6>1, <6>3
        <5>2. CASE b = b1 + 1
          BY <2>2, <2>5, <5>2, SettledDebts
        <5> QED
          BY <4>2, <5>1, <5>2
      <4> QED
        BY <1>12, <2>1, <2>3, <3>1, <4>1, <4>3
    <3>3. CASE ~(outcome = "throws" /\ t \in TargetsOf(f.batch))
      <4>1. t \notin TargetsOf(back)
        BY <1>10, <2>9, <3>3 DEF Outcomes
      <4>2. w1 = w /\ b1 = b /\ paid[t] = credit[t]
        BY <1>11, <2>4, <2>6, <2>9, <3>3, <4>1
      <4> QED
        BY <2>1, <2>3, <3>1, <4>2
    <3> QED
      BY <3>2, <3>3
  <2>10. CASE t # u /\ ~ended
    <3>1. outcome # "throws"
      BY <1>17, <2>10
    <3>2. t \notin TargetsOf(back)
      BY <1>10, <2>10, <3>1 DEF Outcomes
    <3>3. w1 = w /\ b1 = b /\ c1 = c /\ paid[t] = credit[t]
      BY <1>11, <2>4, <2>6, <2>7, <2>10, <3>2
    <3>4. CASE t = v
      <4>1. a1 = a + 1 /\ b >= 1 /\ credit'[t] = credit[t] - 1
        BY <1>14, <2>6, <2>10, <3>3, <3>4
      <4>2. DebtOf(w, b, a1, c) = DebtOf(w, b, a, c) - 1 /\ DebtOf(w, b, a, c) \in Int
        BY <2>2, <4>1, DebtSteps
      <4>3. DebtOf(w, b, a1, c) >= 0
        <5>1. w + b >= 1 /\ a1 <= b
          BY <2>2, <2>5, <3>3, <4>1
        <5> QED
          BY <2>2, <2>5, <5>1, DebtSteps
      <4> QED
        BY <2>1, <2>3, <3>3, <4>1, <4>2, <4>3
    <3>5. CASE t # v
      <4>1. a1 = a /\ credit'[t] = credit[t]
        BY <1>14, <2>6, <2>10, <3>3, <3>5
      <4> QED
        BY <2>1, <2>3, <3>3, <4>1
    <3> QED
      BY <3>4, <3>5
  <2> QED
    BY <2>8, <2>9, <2>10
<1> QED
  BY <1>14, <1>18, <1>20 DEF CreditInv

\* The credit of every target covers its debt after every step.
LEMMA NextCredit == Types /\ Types' /\ NameInv /\ CreditInv /\ [Next]_vars => CreditInv'
<1> SUFFICES ASSUME Types, Types', NameInv, CreditInv, [Next]_vars PROVE CreditInv'
  OBVIOUS
<1>1. ASSUME NEW t \in Targets, NEW p \in Priorities, RequestHeartbeat(t, p) PROVE CreditInv'
  BY <1>1, RequestPays
<1>2. CASE SetHeartbeatWakeHandler
  BY <1>2, RegisterPays
<1>3. CASE Dispatch
  BY <1>3, DispatchPays
<1>4. ASSUME NEW f \in flights, NEW outcome \in Outcomes, HandlerSettles(f, outcome)
      PROVE  CreditInv'
  BY <1>4, SettlePays
<1>5. ASSUME NEW f \in flights, HandlerHangs(f) PROVE CreditInv'
  BY <1>5, HangPays
<1>6. ASSUME UNCHANGED <<flights, pendingWakes, preModelNoopRetryCounts, credit>>
      PROVE  CreditInv'
  <2>1. Names' = Names /\ \A t : /\ Ahead(t)' = Ahead(t) /\ AtAwait(t)' = AtAwait(t)
                                 /\ Waiting(t)' = Waiting(t)
    BY <1>6 DEF Names, Ahead, AtAwait, Waiting
  <2>2. \A t : Debt(t)' = Debt(t)
    BY <1>6, <2>1 DEF Debt
  <2> QED
    BY <1>6, <2>1, <2>2 DEF CreditInv
<1>7. CASE Dispose \/ FiresWithoutHandler \/ FiresWhileRunning \/ HangLimitPasses \/ UNCHANGED vars
  BY <1>6, <1>7 DEF Dispose, FiresWithoutHandler, FiresWhileRunning, HangLimitPasses, vars, wakeVars
<1> QED
  BY <1>1, <1>2, <1>3, <1>4, <1>5, <1>7 DEF Next, TimerFires, Settles

-----------------------------------------------------------------------------
(* The theorems. *)

\* At first nothing is pending, in flight, owed or paid for.
LEMMA InitHolds == Init => HInv
<1> SUFFICES ASSUME Init PROVE HInv
  OBVIOUS
<1>1. Types
  <2>1. handler \in BOOLEAN /\ scheduled \in BOOLEAN /\ running \in BOOLEAN
        /\ overdue \in BOOLEAN /\ replacedInFlight \in BOOLEAN
    BY Zenon DEF Init
  <2>2. WellQueued(<<>>)
    BY DEF WellQueued, DistinctTargets
  <2>3. [t \in Targets |-> 0] \in [Targets -> 0..NoopRetryCap]
    BY HeartbeatWakeAssumption
  <2>4. [t \in Targets |-> 0] \in [Targets -> Priorities \cup {0}]
    OBVIOUS
  <2> QED
    BY <2>1, <2>2, <2>3, <2>4 DEF Init, Types
<1>2. NoStrandedWake /\ NoRequestLost
  BY DEF Init, NoStrandedWake, NoRequestLost
<1>3. NameInv /\ SerialInv
  BY DEF Init, NameInv, SerialInv
<1>4. CreditInv
  <2>1. Names = {} /\ \A t : Ahead(t) = {} /\ AtAwait(t) = {} /\ Waiting(t) = 0
    BY DEF Init, Names, Ahead, AtAwait, Waiting, TargetsOf
  <2>2. IsFiniteSet({}) /\ Cardinality({}) = 0
    BY FS_EmptySet
  <2>3. \A t \in Targets : Debt(t) = DebtOf(0, 0, 0, 0)
    BY <2>1, <2>2 DEF Debt, Init
  <2>4. DebtOf(0, 0, 0, 0) = 0
    BY HeartbeatWakeAssumption DEF DebtOf, CallsPerRequest
  <2>5. credit \in [Targets -> Int] /\ \A t \in Targets : credit[t] = 0
    BY DEF Init
  <2> QED
    BY <2>1, <2>2, <2>3, <2>4, <2>5 DEF CreditInv
<1> QED
  BY <1>1, <1>2, <1>3, <1>4 DEF HInv

\* The inductive invariant holds in every state.
LEMMA Inductive == Spec => []HInv
<1>1. HInv /\ [Next]_vars => HInv'
  BY NextTypes, NextStrands, NextSafe, NextNames, NextSerial, NextCredit DEF HInv
<1> QED
  BY InitHolds, <1>1, PTL DEF Spec

\* Every state has the declared types: no target is pending twice, a batch in flight has
\* an entry at its await, and a noop count never passes NoopRetryCap
\* (heartbeat-wake.ts, queuePendingWakeReason and the noop retry counter).
THEOREM TypeCorrect == Spec => []TypeOK
<1>1. HInv => TypeOK
  <2> SUFFICES ASSUME Types PROVE TypeOK
    BY DEF HInv
  <2>1. {scheduled, running, overdue, replacedInFlight} \subseteq BOOLEAN
    BY Zenon DEF Types
  <2>2. /\ handler \in BOOLEAN
        /\ {requests, faults, hangs} \subseteq Nat
    BY DEF Types
  <2>3. flights \subseteq Flights /\ \A f \in flights : f.current <= Len(f.batch)
    BY DEF Types, ProperFlight
  <2> QED
    BY <2>1, <2>2, <2>3 DEF Types, TypeOK, WellQueued, DistinctTargets
<1> QED
  BY Inductive, <1>1, PTL

\* A wake never waits without a timer while a handler is registered, whatever came
\* between: retries, a running batch, an abandoned one, a new handler (schedule and
\* setHeartbeatWakeHandler).
THEOREM NoWakeIsStranded == Spec => []NoStrandedWake
<1>1. HInv => NoStrandedWake
  BY DEF HInv
<1> QED
  BY Inductive, <1>1, PTL

\* No request is lost or downgraded before the handler was called for its target with its
\* priority or a higher one, however batches, failures and requests interleave.
THEOREM RequestsAreKept == Spec => []NoRequestLost
<1>1. HInv => NoRequestLost
  BY DEF HInv
<1> QED
  BY Inductive, <1>1, PTL

\* Retries end: the handler is called for a target at most CallsPerRequest times for each
\* request, busy skip, thrown error and registration (the cap of pre-model noop retries).
THEOREM RetriesArePaidFor == Spec => []RetriesPaidFor
<1>1. HInv => RetriesPaidFor
  BY DEF HInv, CreditInv, RetriesPaidFor
<1> QED
  BY Inductive, <1>1, PTL

\* As long as no handler is replaced under a batch, at most one batch in flight has not
\* been abandoned by the hang guard (the owner generation of the running flag).
THEOREM NewestBatchIsAlone == Spec => []BatchesSerialized
<1>1. HInv => BatchesSerialized
  BY SerialMeansAlone DEF HInv
<1> QED
  BY Inductive, <1>1, PTL
=============================================================================
