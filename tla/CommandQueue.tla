---------------------------- MODULE CommandQueue ----------------------------
(***************************************************************************)
(* The in-process command queue of the gateway                             *)
(* (src/src/process/command-queue.ts): one FIFO lane per name, at most     *)
(* maxConcurrent commands of a lane executing, a generation counter that   *)
(* makes completions of an earlier life of a lane harmless, a gateway-wide *)
(* draining flag, and waiters for the commands active at some moment.      *)
(*                                                                         *)
(* The code runs on one event loop: every public function, and every       *)
(* continuation after an await, runs to its end without interruption. Each *)
(* of them is one action here, the pump it ends in included.               *)
(***************************************************************************)
EXTENDS Integers, Sequences, FiniteSets

CONSTANTS
    Lanes,        \* lane names, after normalizeLane
    ProbeLanes,   \* the lanes named auth-probe:... or session:probe-...
    Tasks,        \* queue entries; an entry doubles as its task id, since
                  \* nextTaskId gives every dequeued entry a fresh one
    LaneOf,       \* the lane each entry is enqueued in
    TimedTasks,   \* the entries enqueued with a taskTimeoutMs
    Waiters,      \* callers of waitForActiveTasks
    MaxLimit,     \* largest maxConcurrent a caller asks for
    MaxGeneration \* bound on the number of resets of a lane

ASSUME CommandQueueAssumption ==
    /\ ProbeLanes \subseteq Lanes
    /\ LaneOf \in [Tasks -> Lanes]
    /\ TimedTasks \subseteq Tasks
    /\ IsFiniteSet(Tasks)
    /\ MaxLimit \in Nat
    /\ MaxGeneration \in Nat

VARIABLES
    queue,          \* [Lanes -> Seq(Tasks)]: LaneState.queue
    active,         \* [Lanes -> SUBSET Tasks]: LaneState.activeTaskIds
    maxConcurrent,  \* [Lanes -> Nat]: LaneState.maxConcurrent
    generation,     \* [Lanes -> Nat]: LaneState.generation
    gatewayDraining,\* the draining-for-restart flag
    taskGeneration, \* lane generation captured when the entry was dequeued
    promise,        \* the promise enqueueCommandInLane returned, per entry
    body,           \* the caller's task function, per entry
    waiter          \* ActiveTaskWaiter records

laneVars == <<queue, active, maxConcurrent, generation>>
taskVars == <<taskGeneration, promise, body>>
vars == <<queue, active, maxConcurrent, generation, gatewayDraining,
          taskGeneration, promise, body, waiter>>

\* What the promise of an entry can be: not asked for yet, pending, or settled
\* by the task, by the lane timeout, by clearCommandLane or by a draining gateway.
PromiseStates == {"none", "pending", "resolved", "rejected",
                  "timedOut", "cleared", "refused"}
Settled == PromiseStates \ {"none", "pending"}

WaiterStates == {"none", "waiting", "drained", "notDrained"}

TypeOK ==
    /\ queue \in [Lanes -> Seq(Tasks)]
    /\ active \in [Lanes -> SUBSET Tasks]
    /\ maxConcurrent \in [Lanes -> Nat]
    /\ generation \in [Lanes -> Nat]
    /\ gatewayDraining \in BOOLEAN
    /\ taskGeneration \in [Tasks -> Nat]
    /\ promise \in [Tasks -> PromiseStates]
    /\ body \in [Tasks -> {"idle", "running", "ended"}]
    /\ waiter \in [Waiters -> [status : WaiterStates, ids : SUBSET Tasks]]

Init ==
    /\ queue = [l \in Lanes |-> <<>>]
    /\ active = [l \in Lanes |-> {}]
    /\ maxConcurrent = [l \in Lanes |-> 1]
    /\ generation = [l \in Lanes |-> 0]
    /\ gatewayDraining = FALSE
    /\ taskGeneration = [t \in Tasks |-> 0]
    /\ promise = [t \in Tasks |-> "none"]
    /\ body = [t \in Tasks |-> "idle"]
    /\ waiter = [w \in Waiters |-> [status |-> "none", ids |-> {}]]

\* The entries of a queue, that it holds none twice, and the entries of a lane.
Entries(q) == {q[i] : i \in 1..Len(q)}

Distinct(q) == \A i, j \in 1..Len(q) : q[i] = q[j] => i = j

QueuedIn(l) == Entries(queue[l])

-----------------------------------------------------------------------------
(* drainLane and its pump *)

\* Mutants of PumpCount: the loop tests "active + 1 < max", resp. "active <= max".
PumpCountShort(q, act, limit) ==
    IF limit <= Cardinality(act) + 1 THEN 0
    ELSE IF Len(q) < limit - Cardinality(act) THEN Len(q)
    ELSE limit - Cardinality(act) - 1
PumpCountOver(q, act, limit) ==
    IF limit < Cardinality(act) THEN 0
    ELSE IF Len(q) <= limit + 1 - Cardinality(act) THEN Len(q)
    ELSE limit + 1 - Cardinality(act)

\* How many entries the pump's loop takes from queue q: it runs while fewer
\* than limit tasks are active and the queue is not empty.
PumpCount(q, act, limit) ==
    IF limit <= Cardinality(act) THEN 0
    ELSE IF Len(q) <= limit - Cardinality(act) THEN Len(q)
    ELSE limit - Cardinality(act)

\* Mutant of PumpedQueue: reads the head without shifting it.
PumpedQueueNoShift(q, act, limit) ==
    SubSeq(q, IF PumpCount(q, act, limit) = 0 THEN 1 ELSE PumpCount(q, act, limit), Len(q))

PumpedQueue(q, act, limit) == SubSeq(q, PumpCount(q, act, limit) + 1, Len(q))

PumpedTasks(q, act, limit) == {q[i] : i \in 1..PumpCount(q, act, limit)}

Started(D, q, act, limit) ==
    UNION {PumpedTasks(q[l], act[l], limit[l]) : l \in D}

\* Lanes D are drained. q, act, limit, gen and bodies are what the handler
\* leaves before it drains. An entry taken becomes active, remembers the
\* generation of its lane and begins to execute.
Drain(D, q, act, limit, gen, bodies) ==
    /\ queue' = [l \in Lanes |-> IF l \in D THEN PumpedQueue(q[l], act[l], limit[l])
                                 ELSE q[l]]
    /\ active' = [l \in Lanes |-> IF l \in D
                                  THEN act[l] \cup PumpedTasks(q[l], act[l], limit[l])
                                  ELSE act[l]]
    /\ taskGeneration' = [t \in Tasks |-> IF t \in Started(D, q, act, limit)
                                          THEN gen[LaneOf[t]] ELSE taskGeneration[t]]
    /\ body' = [t \in Tasks |-> IF t \in Started(D, q, act, limit)
                                THEN "running" ELSE bodies[t]]

ActiveIds(act) == UNION {act[l] : l \in Lanes}

\* Mutants of NotifyActiveTaskWaiters: waits until no task at all is active, resp.
\* resolves as soon as one of the captured tasks is released.
NotifyWhenIdle(act) ==
    waiter' = [w \in Waiters |->
        IF waiter[w].status = "waiting" /\ ActiveIds(act) = {}
        THEN [waiter[w] EXCEPT !.status = "drained"]
        ELSE waiter[w]]
NotifyOnAnyRelease(act) ==
    waiter' = [w \in Waiters |->
        IF waiter[w].status = "waiting" /\ ~(waiter[w].ids \subseteq ActiveIds(act))
        THEN [waiter[w] EXCEPT !.status = "drained"]
        ELSE waiter[w]]

\* notifyActiveTaskWaiters: resolve the waiters none of whose tasks is active.
NotifyActiveTaskWaiters(act) ==
    waiter' = [w \in Waiters |->
        IF waiter[w].status = "waiting" /\ waiter[w].ids \cap ActiveIds(act) = {}
        THEN [waiter[w] EXCEPT !.status = "drained"]
        ELSE waiter[w]]

-----------------------------------------------------------------------------
(* Public operations *)

\* enqueueCommandInLane while the gateway accepts work.
EnqueueCommandInLane(t) ==
    /\ promise[t] = "none"
    /\ ~gatewayDraining
    /\ promise' = [promise EXCEPT ![t] = "pending"]
    /\ Drain({LaneOf[t]}, [queue EXCEPT ![LaneOf[t]] = Append(@, t)], active,
             maxConcurrent, generation, body)
    /\ UNCHANGED <<maxConcurrent, generation, gatewayDraining, waiter>>

\* enqueueCommandInLane while the gateway drains for a restart: fail fast.
RefuseCommand(t) ==
    /\ promise[t] = "none"
    /\ gatewayDraining
    /\ promise' = [promise EXCEPT ![t] = "refused"]
    /\ UNCHANGED <<laneVars, gatewayDraining, taskGeneration, body, waiter>>

\* Mutant of CompletedActive: activeTaskIds.delete is forgotten.
CompletedActiveLeak(t) == active

\* The active sets once task t gave its slot back.
CompletedActive(t) == [active EXCEPT ![LaneOf[t]] = @ \ {t}]

\* The continuation after runQueueEntryTask. A completion of the lane's present
\* generation gives its slot back, notifies the waiters and pumps; one of an
\* earlier generation leaves the lane alone (completeTask). The promise settles.
FinishEntry(t, outcome, bodies) ==
    /\ promise' = [promise EXCEPT ![t] = outcome]
    /\ IF taskGeneration[t] = generation[LaneOf[t]]
       THEN /\ Drain({LaneOf[t]}, queue, CompletedActive(t),
                     maxConcurrent, generation, bodies)
            /\ NotifyActiveTaskWaiters(CompletedActive(t))
       ELSE /\ body' = bodies
            /\ UNCHANGED <<queue, active, taskGeneration, waiter>>
    /\ UNCHANGED <<maxConcurrent, generation, gatewayDraining>>

\* The task function settles before any timeout.
TaskSettles(t) ==
    /\ body[t] = "running"
    /\ promise[t] = "pending"
    /\ \E outcome \in {"resolved", "rejected"} :
          FinishEntry(t, outcome, [body EXCEPT ![t] = "ended"])

\* The lane timeout wins the race: the entry fails, its body keeps running.
TaskTimesOut(t) ==
    /\ t \in TimedTasks
    /\ body[t] = "running"
    /\ promise[t] = "pending"
    /\ FinishEntry(t, "timedOut", body)

\* The body of a timed-out entry settles at last; only a warning is logged.
LateSettle(t) ==
    /\ body[t] = "running"
    /\ promise[t] = "timedOut"
    /\ body' = [body EXCEPT ![t] = "ended"]
    /\ UNCHANGED <<laneVars, gatewayDraining, taskGeneration, promise, waiter>>

\* The limit a request for n gives: never negative, and a probe lane keeps one.
MinConcurrent(l) == IF l \in ProbeLanes THEN 1 ELSE 0

\* Mutant of LimitFor: no Math.max.
LimitForUnclamped(l, n) == n

LimitFor(l, n) == IF n < MinConcurrent(l) THEN MinConcurrent(l) ELSE n

SetCommandLaneConcurrency(l, n) ==
    /\ maxConcurrent' = [maxConcurrent EXCEPT ![l] = LimitFor(l, n)]
    /\ Drain(IF LimitFor(l, n) > 0 THEN {l} ELSE {},
             queue, active, maxConcurrent', generation, body)
    /\ UNCHANGED <<generation, gatewayDraining, promise, waiter>>

\* Queued entries are rejected; the active ones are left alone.
ClearCommandLane(l) ==
    /\ queue[l] # <<>>
    /\ queue' = [queue EXCEPT ![l] = <<>>]
    /\ promise' = [t \in Tasks |->
            IF t \in QueuedIn(l) THEN "cleared" ELSE promise[t]]
    /\ UNCHANGED <<active, maxConcurrent, generation, gatewayDraining,
                   taskGeneration, body, waiter>>

\* Mutant of ResetLanes: the lanes that still have queued entries are not pumped.
ResetLanesNoPump(R) ==
    /\ \A l \in R : generation[l] < MaxGeneration
    /\ generation' = [l \in Lanes |-> IF l \in R THEN generation[l] + 1
                                      ELSE generation[l]]
    /\ active' = [l \in Lanes |-> IF l \in R THEN {} ELSE active[l]]
    /\ NotifyActiveTaskWaiters(active')
    /\ UNCHANGED <<queue, taskVars, maxConcurrent>>

\* The lanes of R start a new generation with no active task, and the ones
\* that still have queued entries are pumped.
ResetLanes(R) ==
    /\ \A l \in R : generation[l] < MaxGeneration
    /\ generation' = [l \in Lanes |-> IF l \in R THEN generation[l] + 1
                                      ELSE generation[l]]
    /\ Drain(R, queue, [l \in Lanes |-> IF l \in R THEN {} ELSE active[l]],
             maxConcurrent, generation', body)
    /\ NotifyActiveTaskWaiters(active')
    /\ UNCHANGED <<maxConcurrent, promise>>

ResetCommandLane(l) ==
    /\ ResetLanes({l})
    /\ UNCHANGED gatewayDraining

ResetAllLanes ==
    /\ ResetLanes(Lanes)
    /\ gatewayDraining' = FALSE

MarkGatewayDraining ==
    /\ gatewayDraining' = TRUE
    /\ UNCHANGED <<laneVars, taskVars, waiter>>

\* What waitForActiveTasks does to its waiter: capture the tasks active now. With
\* none it resolves at once; with a non-positive timeout it gives up at once.
CaptureActiveTasks(w, timeoutIsPositive) ==
    waiter' = [waiter EXCEPT ![w] =
            [ids |-> ActiveIds(active),
             status |-> IF ActiveIds(active) = {} THEN "drained"
                        ELSE IF timeoutIsPositive THEN "waiting" ELSE "notDrained"]]

WaitForActiveTasks(w, timeoutIsPositive) ==
    /\ waiter[w].status = "none"
    /\ CaptureActiveTasks(w, timeoutIsPositive)
    /\ UNCHANGED <<laneVars, gatewayDraining, taskVars>>

\* The waiter's own timeout.
WaiterTimesOut(w) ==
    /\ waiter[w].status = "waiting"
    /\ waiter' = [waiter EXCEPT ![w].status = "notDrained"]
    /\ UNCHANGED <<laneVars, gatewayDraining, taskVars>>

Next ==
    \/ \E t \in Tasks : EnqueueCommandInLane(t)
    \/ \E t \in Tasks : RefuseCommand(t)
    \/ \E t \in Tasks : TaskSettles(t)
    \/ \E t \in Tasks : TaskTimesOut(t)
    \/ \E t \in Tasks : LateSettle(t)
    \/ \E l \in Lanes, n \in -1..MaxLimit : SetCommandLaneConcurrency(l, n)
    \/ \E l \in Lanes : ClearCommandLane(l)
    \/ \E l \in Lanes : ResetCommandLane(l)
    \/ ResetAllLanes
    \/ MarkGatewayDraining
    \/ \E w \in Waiters, p \in BOOLEAN : WaitForActiveTasks(w, p)
    \/ \E w \in Waiters : WaiterTimesOut(w)

Spec == Init /\ [][Next]_vars

\* The runtime fires every timer that stays armed: the lane timeout of an entry
\* whose body hangs. A body without a timeout may hang for ever.
FairSpec == Spec /\ \A t \in Tasks : WF_vars(TaskTimesOut(t))

-----------------------------------------------------------------------------
(* Properties *)

\* No entry is lost, duplicated or misfiled between enqueueCommandInLane and
\* the pump: the entries whose promise is pending and whose task has not begun
\* are exactly the queued ones, each once, in its own lane.
EntriesQueuedOnce ==
    /\ \A l \in Lanes :
          QueuedIn(l) = {t \in Tasks : /\ LaneOf[t] = l
                                      /\ promise[t] = "pending"
                                      /\ body[t] = "idle"}
    /\ \A l \in Lanes : Distinct(queue[l])

\* No slot leaks and none is freed twice across completions, lane timeouts and
\* resets: the active ids of a lane are exactly its unsettled running entries
\* that were started in the lane's present generation.
SlotsMatchRunningEntries ==
    \A l \in Lanes :
        active[l] = {t \in Tasks : /\ LaneOf[t] = l
                                   /\ promise[t] = "pending"
                                   /\ body[t] = "running"
                                   /\ taskGeneration[t] = generation[l]}

\* No lost wake-up: whenever the event loop is idle, a lane with queued entries
\* has all the active tasks its limit allows. Every handler that frees a slot,
\* raises a limit, resets or enqueues must have pumped.
WorkConserving ==
    \A l \in Lanes : queue[l] # <<>> => Cardinality(active[l]) >= maxConcurrent[l]

\* A waiter of waitForActiveTasks that still waits has a task to wait for:
\* whichever of completion, lane timeout and lane reset released the last of
\* the captured tasks has resolved it.
NoLostWaiterWakeup ==
    \A w \in Waiters :
        waiter[w].status = "waiting" => waiter[w].ids \cap ActiveIds(active) # {}

\* "drained" can be relied on afterwards: no captured task is, or becomes again,
\* an active task of any lane.
DrainedTasksStayReleased ==
    \A w \in Waiters :
        waiter[w].status = "drained" => waiter[w].ids \cap ActiveIds(active) = {}

\* A step that starts tasks in a lane ends within the lane's limit, although
\* limits are lowered below the number of active tasks at run time.
StartsWithinLimit ==
    [][\A l \in Lanes :
          active'[l] \ active[l] # {} => Cardinality(active'[l]) <= maxConcurrent'[l]]_vars

\* Where an entry stands for its caller: an entry that executes but was started
\* in an earlier generation has been abandoned by its lane.
StatusOf(t) ==
    CASE promise[t] = "none" -> "new"
      [] promise[t] \in Settled -> "settled"
      [] promise[t] = "pending" /\ body[t] = "idle" -> "waiting"
      [] OTHER -> IF taskGeneration[t] = generation[LaneOf[t]] THEN "served"
                  ELSE "abandoned"

LaneView == INSTANCE LaneService WITH
    line <- queue, capacity <- maxConcurrent, status <- [t \in Tasks |-> StatusOf(t)]

\* The queue keeps the contract of LaneService: generations, task ids and pumps
\* give exactly lanes that serve their line in order and within their capacity,
\* and commands that are abandoned by a reset only and settle once.
KeepsLaneService == LaneView!ServiceSpec

\* What the lane timeout is for: a pending entry settles in the end unless its
\* lane is suspended (limit 0), even if every task function hangs.
LaneNeverStuck ==
    \A t \in Tasks :
        (promise[t] = "pending")
            ~> (promise[t] \in Settled \/ maxConcurrent[LaneOf[t]] = 0)
=============================================================================
