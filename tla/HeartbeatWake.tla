--------------------------- MODULE HeartbeatWake ---------------------------
(***************************************************************************)
(* The wake layer (src/src/infra/heartbeat-wake.ts): wake requests are     *)
(* coalesced per target under one timer and handed, batch by batch, to the *)
(* registered handler, which is awaited entry by entry.                    *)
(*                                                                         *)
(* An action runs from one await to the next. Between them the timer may   *)
(* fire again, a handler may be replaced, and a handler that hangs is      *)
(* abandoned after ten minutes while its invocation stays in flight and    *)
(* may still settle.                                                       *)
(***************************************************************************)
EXTENDS Integers, Sequences, FiniteSets

CONSTANTS
    Targets,            \* agent and session a wake is for
    Priorities,         \* REASON_PRIORITY values requests have
    NoopRetryCap,       \* HEARTBEAT_PRE_MODEL_NOOP_RETRY_CAP
    MaxRequests,        \* bound: requestHeartbeat calls
    MaxFaults,          \* bound: busy skips and thrown errors
    MaxHung,            \* bound: handler invocations that hang
    MaxRegistrations    \* bound: setHeartbeatWakeHandler calls

ASSUME HeartbeatWakeAssumption ==
    /\ Priorities \subseteq 1..3
    /\ {NoopRetryCap, MaxRequests, MaxFaults, MaxHung, MaxRegistrations} \subseteq Nat

VARIABLES
    handler,                \* a handler is registered
    handlerGeneration,
    pendingWakes,           \* the map, in insertion order
    scheduled,
    running,
    overdue,                \* the running batch is older than RUNNING_HANG_LIMIT_MS
    runningOwnerGeneration,
    timer,                  \* "none", or the kind of the armed timer
    preModelNoopRetryCounts,
    flights,                \* batches whose callback is at its await
    \* budgets of the environment
    requests, faults, hangs,
    \* history variables
    owed,                   \* the priority a target still has to be called with
    credit,                 \* handler calls a target's requests still pay for
    replacedInFlight        \* a handler was registered while a batch was in flight

wakeVars == <<handler, handlerGeneration, pendingWakes, scheduled, running, overdue,
              runningOwnerGeneration, timer, preModelNoopRetryCounts, flights>>
vars == <<wakeVars, requests, faults, hangs, owed, credit, replacedInFlight>>

Wakes == [target : Targets, priority : Priorities]
Outcomes == {"ran", "busy", "noop", "throws"}

\* An in-flight batch: the handler it was started with, its entries, the one being
\* handled, and whether it hangs or has lost the layer to the hang guard or to a
\* new handler.
Flights == [lifecycle : Nat, generation : Nat, batch : Seq(Wakes),
            current : Nat \ {0}, hung : BOOLEAN, orphan : BOOLEAN]

\* The types; a batch in flight has an entry at its await, no target is pending
\* twice and a noop count never passes the cap.
TypeOK ==
    /\ handler \in BOOLEAN
    /\ handlerGeneration \in Nat
    /\ pendingWakes \in Seq(Wakes)
    /\ \A i, j \in DOMAIN pendingWakes :
          pendingWakes[i].target = pendingWakes[j].target => i = j
    /\ {scheduled, running, overdue, replacedInFlight} \subseteq BOOLEAN
    /\ runningOwnerGeneration \in Nat
    /\ timer \in {"none", "normal", "retry"}
    /\ preModelNoopRetryCounts \in [Targets -> 0..NoopRetryCap]
    /\ flights \subseteq Flights
    /\ \A f \in flights : f.current <= Len(f.batch)
    /\ {requests, faults, hangs} \subseteq Nat
    /\ owed \in [Targets -> Priorities \cup {0}]

Init ==
    /\ handler = FALSE
    /\ handlerGeneration = 0
    /\ pendingWakes = <<>>
    /\ scheduled = FALSE
    /\ running = FALSE
    /\ overdue = FALSE
    /\ runningOwnerGeneration = 0
    /\ timer = "none"
    /\ preModelNoopRetryCounts = [t \in Targets |-> 0]
    /\ flights = {}
    /\ requests = 0 /\ faults = 0 /\ hangs = 0
    /\ owed = [t \in Targets |-> 0]
    /\ credit = [t \in Targets |-> 0]
    /\ replacedInFlight = FALSE

-----------------------------------------------------------------------------
(* Operators *)

Higher(a, b) == IF a > b THEN a ELSE b

\* Mutant of QueuePendingWakeReason: the newest reason wins.
QueueNewestReason(pending, wake) ==
    IF \E i \in DOMAIN pending : pending[i].target = wake.target
    THEN [i \in DOMAIN pending |->
            IF pending[i].target = wake.target THEN wake ELSE pending[i]]
    ELSE Append(pending, wake)

\* queuePendingWakeReason: a pending wake of the target keeps its place and is
\* replaced by one of the same or a higher priority (requestedAt never decreases).
QueuePendingWakeReason(pending, wake) ==
    IF \E i \in DOMAIN pending : pending[i].target = wake.target
    THEN [i \in DOMAIN pending |->
            IF pending[i].target = wake.target /\ wake.priority >= pending[i].priority
            THEN wake ELSE pending[i]]
    ELSE Append(pending, wake)

\* The map after the wakes of a sequence were queued one after the other.
QueueAll(pending, wakes) ==
    LET after[n \in 0..Len(wakes)] ==
            IF n = 0 THEN pending ELSE QueuePendingWakeReason(after[n - 1], wakes[n])
    IN  after[Len(wakes)]

\* schedule: a retry timer stays; a normal one stays or, when it would fire later
\* than the new one, gives way to it.
Schedule(armed, kind) ==
    CASE armed = "none" -> {kind}
      [] armed = "retry" -> {"retry"}
      [] armed = "normal" -> {"normal", kind}

\* The handler is called with the wake: this settles what its target was owed.
Called(owing, wake) ==
    IF wake.priority >= owing[wake.target] THEN [owing EXCEPT ![wake.target] = 0] ELSE owing

\* The wakes, of different targets, are owed again.
OwedAgain(owing, wakes) ==
    [t \in Targets |->
        LET more == {i \in DOMAIN wakes : wakes[i].target = t /\ wakes[i].priority > owing[t]}
        IN  IF more = {} THEN owing[t] ELSE wakes[CHOOSE i \in more : TRUE].priority]

\* One more chain of noop retries is paid for.
CallsPerRequest == NoopRetryCap + 1

-----------------------------------------------------------------------------
(* requestHeartbeat, setHeartbeatWakeHandler and its disposer *)

RequestHeartbeat(t, p) ==
    /\ requests < MaxRequests
    /\ requests' = requests + 1
    /\ pendingWakes' = QueuePendingWakeReason(pendingWakes, [target |-> t, priority |-> p])
    /\ timer' \in Schedule(timer, "normal")
    /\ owed' = [owed EXCEPT ![t] = Higher(@, p)]
    /\ credit' = [credit EXCEPT ![t] = @ + CallsPerRequest]
    /\ UNCHANGED <<handler, handlerGeneration, scheduled, running, overdue,
                   runningOwnerGeneration, preModelNoopRetryCounts, flights,
                   faults, hangs, replacedInFlight>>

\* Mutant of TimerOfNewHandler: the timer is cleared and the new handler waits
\* for the next request.
TimerOfNewHandlerCleared == "none"

\* A new handler's timer: the old one is cleared, pending wakes arm another.
TimerOfNewHandler == IF pendingWakes = <<>> THEN "none" ELSE "normal"

\* A runner starts and registers its handler: the state an interrupted run may
\* have left behind is reset, what is in flight stays in flight.
SetHeartbeatWakeHandler ==
    /\ handlerGeneration < MaxRegistrations
    /\ handlerGeneration' = handlerGeneration + 1
    /\ handler' = TRUE
    /\ timer' = TimerOfNewHandler
    /\ running' = FALSE
    /\ overdue' = FALSE
    /\ scheduled' = FALSE
    /\ runningOwnerGeneration' = 0
    /\ preModelNoopRetryCounts' = [t \in Targets |-> 0]
    /\ flights' = {[f EXCEPT !.orphan = TRUE] : f \in flights}
    /\ credit' = [t \in Targets |-> credit[t] + CallsPerRequest]
    /\ replacedInFlight' = (replacedInFlight \/ flights # {})
    /\ UNCHANGED <<pendingWakes, requests, faults, hangs, owed>>

\* The runner that registered last stops. (An older disposer does nothing.)
Dispose ==
    /\ handler
    /\ handlerGeneration < MaxRegistrations
    /\ handler' = FALSE
    /\ handlerGeneration' = handlerGeneration + 1
    /\ UNCHANGED <<pendingWakes, scheduled, running, overdue, runningOwnerGeneration, timer,
                   preModelNoopRetryCounts, flights, requests, faults, hangs, owed, credit,
                   replacedInFlight>>

-----------------------------------------------------------------------------
(* The timer's callback, up to its first await *)

FiresWithoutHandler ==
    /\ timer # "none"
    /\ ~handler
    /\ timer' = "none"
    /\ scheduled' = FALSE
    /\ UNCHANGED <<handler, handlerGeneration, pendingWakes, running, overdue,
                   runningOwnerGeneration, preModelNoopRetryCounts, flights,
                   requests, faults, hangs, owed, credit, replacedInFlight>>

\* A batch is running: the timer is armed again as it was.
FiresWhileRunning ==
    /\ timer # "none"
    /\ handler
    /\ running
    /\ ~overdue
    /\ scheduled' = TRUE
    /\ UNCHANGED <<handler, handlerGeneration, pendingWakes, running, overdue,
                   runningOwnerGeneration, timer, preModelNoopRetryCounts, flights,
                   requests, faults, hangs, owed, credit, replacedInFlight>>

\* Mutant of MayDispatch: a hung handler is waited for.
MayDispatchIdle == ~running

\* The hang guard abandons a batch that is overdue.
MayDispatch == ~running \/ overdue

\* Everything pending becomes a batch and its first entry is handed to the
\* handler; an empty batch is over at once.
Dispatch ==
    /\ timer # "none"
    /\ handler
    /\ MayDispatch
    /\ timer' = "none"
    /\ scheduled' = FALSE
    /\ overdue' = FALSE
    /\ runningOwnerGeneration' = runningOwnerGeneration + 1
    /\ pendingWakes' = <<>>
    /\ LET others == {[f EXCEPT !.orphan = @ \/ running] : f \in flights}
       IN  IF pendingWakes = <<>>
           THEN /\ running' = FALSE
                /\ flights' = others
                /\ UNCHANGED <<owed, credit>>
           ELSE /\ running' = TRUE
                /\ flights' = others \cup {[lifecycle |-> handlerGeneration,
                                            generation |-> runningOwnerGeneration + 1,
                                            batch |-> pendingWakes, current |-> 1,
                                            hung |-> FALSE, orphan |-> FALSE]}
                /\ owed' = Called(owed, pendingWakes[1])
                /\ credit' = [credit EXCEPT ![pendingWakes[1].target] = @ - 1]
    /\ UNCHANGED <<handler, handlerGeneration, preModelNoopRetryCounts, requests, faults,
                   hangs, replacedInFlight>>

TimerFires == FiresWithoutHandler \/ FiresWhileRunning \/ Dispatch

-----------------------------------------------------------------------------
(* A handler invocation settles: the callback up to its next await or its end *)

\* Mutants of NoopRetry: retries are not counted; one too many is allowed.
NoopRetryUncounted(count) == <<TRUE, count>>
NoopRetryOneMore(count) ==
    IF count > NoopRetryCap THEN <<FALSE, 0>> ELSE <<TRUE, count + 1>>

\* Whether a pre-model noop is retried, and the target's count after it.
NoopRetry(count) ==
    IF count + 1 > NoopRetryCap THEN <<FALSE, 0>> ELSE <<TRUE, count + 1>>

\* The wakes an outcome sends back: the entry, or the whole batch when the
\* handler throws.
Requeued(f, outcome) ==
    LET wake == f.batch[f.current]
    IN  CASE outcome = "ran" -> <<>>
          [] outcome = "busy" -> <<wake>>
          [] outcome = "throws" -> f.batch
          [] outcome = "noop" ->
                IF NoopRetry(preModelNoopRetryCounts[wake.target])[1] THEN <<wake>> ELSE <<>>

\* The noop counts after an outcome; a thrown error leaves them alone.
CountsAfter(f, outcome) ==
    LET t == f.batch[f.current].target
    IN  CASE outcome = "noop" ->
                [preModelNoopRetryCounts EXCEPT ![t] = NoopRetry(@)[2]]
          [] outcome = "throws" -> preModelNoopRetryCounts
          [] OTHER -> [preModelNoopRetryCounts EXCEPT ![t] = 0]

\* Mutant of Owns: every batch clears the flag when it ends.
OwnsAlways(f) == TRUE

\* The finally block's guard.
Owns(f) == f.generation = runningOwnerGeneration

HandlerSettles(f, outcome) ==
    LET back == Requeued(f, outcome)
        waiting == QueueAll(pendingWakes, back)
        owing == OwedAgain(owed, back)
        retried == IF back = <<>> THEN {timer} ELSE Schedule(timer, "retry")
        ended == outcome = "throws" \/ f.current = Len(f.batch)
        fault == outcome \in {"busy", "throws"}
        paid == [t \in Targets |->
                    IF fault /\ \E i \in DOMAIN back : back[i].target = t
                    THEN credit[t] + CallsPerRequest ELSE credit[t]]
        next == f.batch[f.current + 1]
    IN  /\ fault => faults < MaxFaults
        /\ faults' = IF fault THEN faults + 1 ELSE faults
        /\ pendingWakes' = waiting
        /\ preModelNoopRetryCounts' = CountsAfter(f, outcome)
        /\ IF ended
           THEN /\ flights' = flights \ {f}
                /\ running' = (running /\ ~Owns(f))
                /\ overdue' = (overdue /\ ~Owns(f))
                /\ timer' \in IF Owns(f) /\ (waiting # <<>> \/ scheduled)
                              THEN UNION {Schedule(k, "normal") : k \in retried} ELSE retried
                /\ owed' = owing
                /\ credit' = paid
           ELSE /\ flights' = (flights \ {f}) \cup {[f EXCEPT !.current = @ + 1, !.hung = FALSE]}
                /\ timer' \in retried
                /\ owed' = Called(owing, next)
                /\ credit' = [paid EXCEPT ![next.target] = @ - 1]
                /\ UNCHANGED <<running, overdue>>
        /\ UNCHANGED <<handler, handlerGeneration, scheduled, runningOwnerGeneration,
                       requests, hangs, replacedInFlight>>

\* The handler does not answer, and perhaps never will.
HandlerHangs(f) ==
    /\ hangs < MaxHung
    /\ ~f.hung
    /\ hangs' = hangs + 1
    /\ flights' = (flights \ {f}) \cup {[f EXCEPT !.hung = TRUE]}
    /\ UNCHANGED <<handler, handlerGeneration, pendingWakes, scheduled, running, overdue,
                   runningOwnerGeneration, timer, preModelNoopRetryCounts,
                   requests, faults, owed, credit, replacedInFlight>>

\* Ten minutes pass while the newest batch is stuck.
HangLimitPasses ==
    /\ running
    /\ ~overdue
    /\ \E f \in flights : ~f.orphan /\ f.hung
    /\ overdue' = TRUE
    /\ UNCHANGED <<handler, handlerGeneration, pendingWakes, scheduled, running,
                   runningOwnerGeneration, timer, preModelNoopRetryCounts, flights,
                   requests, faults, hangs, owed, credit, replacedInFlight>>

Settles == \E f \in flights, outcome \in Outcomes : HandlerSettles(f, outcome)

\* What does not hang answers in the end.
AnswersInTime == \E f \in flights, outcome \in Outcomes : ~f.hung /\ HandlerSettles(f, outcome)

Next ==
    \/ \E t \in Targets, p \in Priorities : RequestHeartbeat(t, p)
    \/ SetHeartbeatWakeHandler
    \/ Dispose
    \/ TimerFires
    \/ Settles
    \/ \E f \in flights : HandlerHangs(f)
    \/ HangLimitPasses

Spec == Init /\ [][Next]_vars

\* Timers fire, and time passes.
Fairness == WF_vars(TimerFires) /\ WF_vars(AnswersInTime) /\ WF_vars(HangLimitPasses)

FairSpec == Spec /\ Fairness

-----------------------------------------------------------------------------
(* Properties *)

\* A wake never waits without a timer while a handler is registered, whatever
\* came between: retries, a running batch, an abandoned one, a new handler.
NoStrandedWake ==
    handler /\ pendingWakes # <<>> => timer # "none"

\* No request is lost or downgraded before the handler is called for its target
\* with its priority or a higher one: until then it is pending or ahead in a
\* batch in flight. A busy skip, a noop within the cap and an error owe it again.
\* Ahead does not mean soon: what is behind an invocation that hangs waits until that
\* one ends, also in a batch the hang guard has abandoned.
NoRequestLost ==
    \A t \in Targets :
        owed[t] > 0 =>
            \/ \E i \in DOMAIN pendingWakes :
                  pendingWakes[i].target = t /\ pendingWakes[i].priority >= owed[t]
            \/ \E f \in flights : \E i \in f.current + 1 .. Len(f.batch) :
                  f.batch[i].target = t /\ f.batch[i].priority >= owed[t]

\* Retries end: a request, a busy skip, an error or a new handler is good for at
\* most one call and NoopRetryCap retries of a target.
RetriesPaidFor == \A t \in Targets : credit[t] >= 0

LiveBatches == {f \in flights : ~f.orphan}

\* Two batches are in flight together only when one was abandoned by the hang
\* guard or belongs to a replaced handler (heartbeat-wake.ts, 2026-09-17 race
\* audit: an abandoned invocation must not clear the new batch's running flag).
NewestBatchAlone == Cardinality(LiveBatches) <= 1

\* NewestBatchAlone as long as no handler is registered while a batch is in
\* flight.
BatchesSerialized == ~replacedInFlight => NewestBatchAlone

\* A pending wake is claimed, even when the handler hangs, unless no handler is
\* left.
WakeClaimed ==
    \A t \in Targets :
        (\E i \in DOMAIN pendingWakes : pendingWakes[i].target = t)
            ~> (~handler \/ \A i \in DOMAIN pendingWakes : pendingWakes[i].target # t)
=============================================================================
