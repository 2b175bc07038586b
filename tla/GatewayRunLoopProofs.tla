------------------------ MODULE GatewayRunLoopProofs ------------------------
(***************************************************************************)
(* Proofs about the run loop of a gateway process and the command queue it *)
(* drains and resets, for any lanes, commands and number of signals.       *)
(***************************************************************************)
EXTENDS GatewayRunLoop, LaneServiceProofs

-----------------------------------------------------------------------------
(* The inductive invariant. *)

\* The types of the run loop's own variables, and that a handler serves an accepted
\* signal.
LoopInv ==
    /\ loop \in {"starting", "startFailed", "waiting", "exited"}
    /\ isFirstStart \in BOOLEAN /\ server \in BOOLEAN /\ lock \in BOOLEAN /\ lockFile \in BOOLEAN
    /\ mainReleases \in BOOLEAN /\ shuttingDown \in BOOLEAN /\ hadLock \in BOOLEAN
    /\ forceExitTimer \in BOOLEAN /\ embeddedRun \in BOOLEAN /\ awaitsRuns \in BOOLEAN
    /\ step \in {"idle", "resolving", "draining", "closing", "releasing",
                 "respawning", "reacquiring"}
    /\ request \in Budgets
    /\ requests \in 0..MaxRequests
    /\ atDrain \subseteq Tasks
    /\ exitCode \in {"none", "ok", "error"}
    /\ shuttingDown <=> step # "idle"
    /\ step = "resolving" => request # "stop"
    /\ step = "draining" => request \in {"capped", "indefinite"}
    /\ awaitsRuns => step = "draining"
    /\ step # "idle" => requests \in Waiters

\* What a restart without a drain timeout waits for: the waiter of its signal has
\* captured what was executing and is not given up, and past the drain it is drained.
AwaitsAll ==
    /\ waiter[requests].ids = atDrain
    /\ waiter[requests].status \in {"waiting", "drained"}
    /\ step # "draining" => waiter[requests].status = "drained"

DrainSteps == {"draining", "closing", "releasing", "respawning", "reacquiring"}

DrainInv ==
    request = "indefinite" /\ step \in DrainSteps => atDrain = {} \/ AwaitsAll

LInv == IInv /\ WaiterInv /\ LoopInv /\ DrainInv

\* Without signals during a start, the main loop waits while a handler runs: nothing
\* but the handler touches the server and the lock, and its last step reaches a loop
\* that listens.
HandlerAlone ==
    /\ Alive /\ step # "idle" => loop = "waiting"
    /\ Alive /\ gatewayDraining => step # "idle"
    /\ step \in {"releasing", "respawning", "reacquiring"} => ~server
    /\ lockFile = lock
    /\ Alive /\ step = "releasing" => hadLock = lock
    /\ Alive /\ step = "respawning" => ~lock
    /\ loop = "starting" => ~server
    /\ exitCode = "ok" => ~Alive /\ ~lockFile /\ ~server

-----------------------------------------------------------------------------
(* What the run loop does to the command queue. *)

\* A waiter keeps what it captured, and only a notification resolves it.
KeepsWaiter(w) ==
    /\ waiter'[w].ids = waiter[w].ids
    /\ \/ waiter'[w].status = waiter[w].status
       \/ waiter[w].status = "waiting" /\ waiter'[w].status = "drained"

\* notifyActiveTaskWaiters gives no waiter up.
LEMMA NotifyKeeps ==
    ASSUME TypeOK, NEW act, NotifyActiveTaskWaiters(act), NEW w \in Waiters
    PROVE  KeepsWaiter(w)
BY DEF NotifyActiveTaskWaiters, KeepsWaiter, TypeOK

\* A step of somebody else's is a step of the queue and gives no waiter up.
LEMMA QueueStepEffect ==
    ASSUME TypeOK, QueueStep
    PROVE  [Next]_vars /\ \A w \in Waiters : KeepsWaiter(w)
<1>1. ASSUME NEW t \in Tasks, EnqueueCommandInLane(t)
      PROVE  Next /\ \A w \in Waiters : KeepsWaiter(w)
  BY <1>1 DEF Next, EnqueueCommandInLane, KeepsWaiter
<1>2. ASSUME NEW t \in Tasks, RefuseCommand(t)
      PROVE  Next /\ \A w \in Waiters : KeepsWaiter(w)
  BY <1>2 DEF Next, RefuseCommand, KeepsWaiter
<1>3. ASSUME NEW t \in Tasks, NEW outcome, NEW bodies, FinishEntry(t, outcome, bodies)
      PROVE  \A w \in Waiters : KeepsWaiter(w)
  BY <1>3, NotifyKeeps DEF FinishEntry, KeepsWaiter
<1>4. ASSUME NEW t \in Tasks, TaskSettles(t)
      PROVE  Next /\ \A w \in Waiters : KeepsWaiter(w)
  BY <1>3, <1>4 DEF Next, TaskSettles
<1>5. ASSUME NEW t \in Tasks, TaskTimesOut(t)
      PROVE  Next /\ \A w \in Waiters : KeepsWaiter(w)
  BY <1>3, <1>5 DEF Next, TaskTimesOut
<1>6. ASSUME NEW t \in Tasks, LateSettle(t)
      PROVE  Next /\ \A w \in Waiters : KeepsWaiter(w)
  BY <1>6 DEF Next, LateSettle, KeepsWaiter
<1>7. ASSUME NEW l \in Lanes, NEW n \in 0..MaxLimit, SetCommandLaneConcurrency(l, n)
      PROVE  Next /\ \A w \in Waiters : KeepsWaiter(w)
  <2>1. n \in -1..MaxLimit
    BY CommandQueueAssumption
  <2>2. Next
    BY <1>7, <2>1 DEF Next
  <2> QED
    BY <1>7, <2>2 DEF SetCommandLaneConcurrency, KeepsWaiter
<1>8. ASSUME NEW l \in Lanes, ClearCommandLane(l)
      PROVE  Next /\ \A w \in Waiters : KeepsWaiter(w)
  BY <1>8 DEF Next, ClearCommandLane, KeepsWaiter
<1>9. ASSUME NEW l \in Lanes, ResetCommandLane(l)
      PROVE  Next /\ \A w \in Waiters : KeepsWaiter(w)
  <2>1. Next
    BY <1>9 DEF Next
  <2>2. NotifyActiveTaskWaiters(active')
    BY <1>9 DEF ResetCommandLane, ResetLanes
  <2> QED
    BY <2>1, <2>2, NotifyKeeps
<1> QED
  BY <1>1, <1>2, <1>4, <1>5, <1>6, <1>7, <1>8, <1>9 DEF QueueStep

\* The end of a handler resets the lanes or leaves the queue alone.
LEMMA ResumeEffect ==
    ASSUME TypeOK, ResumeLoop
    PROVE  [Next]_vars /\ \A w \in Waiters : KeepsWaiter(w)
<1>1. CASE ResetAllLanes
  <2>1. NotifyActiveTaskWaiters(active')
    BY <1>1 DEF ResetAllLanes, ResetLanes
  <2> QED
    BY <1>1, <2>1, NotifyKeeps DEF Next
<1>2. CASE UNCHANGED vars
  BY <1>2 DEF vars, KeepsWaiter
<1> QED
  BY <1>1, <1>2 DEF ResumeLoop

\* BeginDrain marks the gateway as draining and captures what is active, at once.
LEMMA BeginDrainQueue ==
    ASSUME LInv, BeginDrain
    PROVE  IInv' /\ WaiterInv'
<1>1. /\ gatewayDraining' = TRUE /\ UNCHANGED <<laneVars, taskVars>>
      /\ UNCHANGED waiter \/ CaptureActiveTasks(requests, TRUE)
  BY DEF BeginDrain
<1>2. requests \in Waiters
  BY DEF BeginDrain, LInv, LoopInv
<1>3. TypeOK
  BY DEF LInv, IInv
<1>4. waiter' \in [Waiters -> [status : WaiterStates, ids : SUBSET Tasks]]
  <2>1. ActiveIds(active) \in SUBSET Tasks
    BY <1>3 DEF ActiveIds, TypeOK
  <2>2. waiter \in [Waiters -> [status : WaiterStates, ids : SUBSET Tasks]]
    BY <1>3 DEF TypeOK
  <2>3. CASE UNCHANGED waiter
    BY <2>2, <2>3
  <2>4. CASE CaptureActiveTasks(requests, TRUE)
    <3> DEFINE rec == [ids |-> ActiveIds(active),
                       status |-> IF ActiveIds(active) = {} THEN "drained" ELSE "waiting"]
    <3>1. rec \in [status : WaiterStates, ids : SUBSET Tasks]
      BY <2>1 DEF WaiterStates
    <3>2. waiter' = [waiter EXCEPT ![requests] = rec]
      BY <2>4 DEF CaptureActiveTasks
    <3> HIDE DEF rec
    <3> QED
      BY <2>2, <3>1, <3>2, <1>2
  <2> QED
    BY <1>1, <2>3, <2>4
<1>5. TypeOK'
  BY <1>1, <1>3, <1>4 DEF TypeOK, laneVars, taskVars
<1>6. IInv'
  <2>1. GenerationsBounded
    BY DEF LInv, IInv, LaneInv
  <2>2. \A u \in Tasks : promise[u] = "none" => body[u] = "idle"
    BY <2>1 DEF GenerationsBounded
  <2> QED
    BY <1>1, <1>5, <2>2, QuietPreserves DEF LInv, laneVars, taskVars
<1>7. UNCHANGED <<active, body>>
  BY <1>1 DEF laneVars, taskVars
<1>8. CASE UNCHANGED waiter
  <2>1. StillBegun /\ NoneReleased
    BY <1>7 DEF StillBegun, NoneReleased, ActiveIds
  <2> QED
    BY <1>6, <1>8, <2>1, QuietForWaiters DEF LInv
<1>9. CASE CaptureActiveTasks(requests, TRUE)
  BY <1>2, <1>6, <1>7, <1>9, CaptureNotifies DEF LInv
<1> QED
  BY <1>1, <1>6, <1>8, <1>9

\* Every other step is a step of the queue or leaves it alone.
LEMMA QueueSteps ==
    ASSUME LInv, [RunLoopNext]_allVars, ~BeginDrain
    PROVE  [Next]_vars
<1>1. TypeOK
  BY DEF LInv, IInv
<1>2. CASE QueueStep
  BY <1>1, <1>2, QueueStepEffect
<1>3. CASE RespawnFallsBack \/ LockReacquired
  BY <1>1, <1>3, ResumeEffect DEF RespawnFallsBack, LockReacquired
<1>4. CASE DrainWaitTimesOut
  <2>1. requests \in Waiters
    BY <1>4 DEF DrainWaitTimesOut, LInv, LoopInv
  <2> QED
    BY <1>4, <2>1 DEF DrainWaitTimesOut, Next
<1>5. CASE UNCHANGED vars
  BY <1>5
<1> QED
  BY <1>2, <1>3, <1>4, <1>5
     DEF RunLoopNext, allVars, StartSucceeds, FirstStartFails, RestartStartFails,
         StartFailureHandled, RequestStop, RequestRestart, RunsDrained, DrainEnds, ServerClosed,
         ForceExit, LockReleased, RespawnTakesOver, ReacquireFails, EmbeddedRunStarts,
         EmbeddedRunEnds

\* Every step of the run loop keeps the invariant of the command queue.
LEMMA QueuePreserved ==
    ASSUME LInv, [RunLoopNext]_allVars
    PROVE  IInv' /\ WaiterInv'
<1>1. CASE BeginDrain
  BY <1>1, BeginDrainQueue
<1>2. CASE ~BeginDrain
  <2>1. [Next]_vars
    BY <1>2, QueueSteps
  <2>2. IInv'
    BY <2>1, NextPreserves DEF LInv
  <2> QED
    BY <2>1, <2>2, NextNotifies DEF LInv
<1> QED
  BY <1>1, <1>2

-----------------------------------------------------------------------------
(* Every step preserves the invariant. *)

\* A handler is where its request lets it be.
LEMMA LoopPreserved ==
    ASSUME LInv, LoopInv, TypeOK, [RunLoopNext]_allVars
    PROVE  LoopInv'
<1> USE RunLoopAssumption DEF LoopInv, Budgets, Alive, loopVars, processVars, handlerVars
<1>1. CASE StartSucceeds
  <2>1. server' = TRUE /\ isFirstStart' = FALSE /\ loop' = "waiting"
    BY <1>1 DEF StartSucceeds
  <2>2. UNCHANGED <<lock, lockFile, mainReleases, handlerVars, embeddedRun, exitCode>>
    BY <1>1 DEF StartSucceeds
  <2>3. server' \in BOOLEAN /\ isFirstStart' \in BOOLEAN
    BY <2>1, Zenon
  <2> QED
    BY <2>1, <2>2, <2>3
<1>2. CASE FirstStartFails
  BY <1>2 DEF FirstStartFails, Exit, ReleaseLock
<1>3. CASE RestartStartFails
  <2>1. server' = FALSE /\ mainReleases' = lock /\ loop' = "startFailed"
    BY <1>3 DEF RestartStartFails
  <2>2. UNCHANGED <<isFirstStart, lock, lockFile, handlerVars, embeddedRun, exitCode>>
    BY <1>3 DEF RestartStartFails
  <2>3. server' \in BOOLEAN
    BY <2>1, Zenon
  <2> QED
    BY <2>1, <2>2, <2>3
<1>4. CASE StartFailureHandled
  <2>1. /\ lock' = (lock /\ ~mainReleases) /\ lockFile' = (lockFile /\ ~mainReleases)
        /\ mainReleases' = FALSE /\ loop' = "waiting"
    BY <1>4 DEF StartFailureHandled, ReleaseLock
  <2>2. UNCHANGED <<isFirstStart, server, handlerVars, embeddedRun, exitCode>>
    BY <1>4 DEF StartFailureHandled
  <2>3. lock' \in BOOLEAN /\ lockFile' \in BOOLEAN /\ mainReleases' \in BOOLEAN
    BY <2>1, Zenon
  <2> QED
    BY <2>1, <2>2, <2>3
<1>5. CASE RequestStop
  BY <1>5 DEF RequestStop, CanRequest
<1>6. ASSUME NEW budget \in Budgets \ {"stop"}, RequestRestart(budget)
      PROVE  LoopInv'
  BY <1>6 DEF RequestRestart, CanRequest
<1>7. CASE BeginDrain
  <2>1. ActiveIds(active) \subseteq Tasks
    BY DEF ActiveIds, TypeOK
  <2>2. /\ atDrain' \subseteq Tasks
        /\ UNCHANGED <<loop, isFirstStart, server, lock, lockFile, mainReleases, shuttingDown,
                       request, requests, hadLock, embeddedRun, exitCode>>
        /\ step = "resolving"
    BY <1>7, <2>1 DEF BeginDrain
  <2>3. CASE DrainNeeded
    <3>1. step' = "draining" /\ awaitsRuns' = embeddedRun /\ forceExitTimer' \in BOOLEAN
      BY <1>7, <2>3 DEF BeginDrain
    <3>2. request \notin {"force", "stop"}
      BY <2>2, <2>3 DEF DrainNeeded
    <3> QED
      <4>1. request' \in {"capped", "indefinite"}
        BY <2>2, <3>1, <3>2
      <4>2. awaitsRuns' \in BOOLEAN
        BY <3>1, Zenon
      <4> QED
        BY <2>2, <3>1, <4>1, <4>2
  <2>4. CASE ~DrainNeeded
    <3>1. step' = "closing" /\ awaitsRuns' = awaitsRuns /\ forceExitTimer' = TRUE
      BY <1>7, <2>4 DEF BeginDrain, ArmForceExitTimer
    <3> QED
      BY <2>2, <3>1
  <2> QED
    BY <2>3, <2>4
<1>8. CASE RunsDrained
  <2>1. awaitsRuns' = FALSE
    BY <1>8 DEF RunsDrained
  <2>2. UNCHANGED <<processVars, shuttingDown, step, request, requests, hadLock,
                    forceExitTimer, atDrain, embeddedRun, exitCode>>
    BY <1>8 DEF RunsDrained
  <2>3. awaitsRuns' \in BOOLEAN
    BY <2>1, Zenon
  <2> QED
    BY <2>1, <2>2, <2>3
<1>9. CASE DrainEnds
  BY <1>9 DEF DrainEnds, ArmForceExitTimer
<1>10. CASE ServerClosed
  BY <1>10, ZenonT(40) DEF ServerClosed
<1>11. CASE ForceExit
  BY <1>11 DEF ForceExit, Exit
<1>12. CASE LockReleased
  BY <1>12 DEF LockReleased, Exit, ReleaseLock, IsRestart
<1>13. CASE RespawnTakesOver
  BY <1>13 DEF RespawnTakesOver, Exit
<1>14. CASE RespawnFallsBack
  <2>1. /\ UNCHANGED <<isFirstStart, server, lock, lockFile, mainReleases, request, requests,
                       hadLock, forceExitTimer, awaitsRuns, atDrain, embeddedRun, exitCode>>
        /\ step = "respawning"
    BY <1>14 DEF RespawnFallsBack
  <2>2. CASE hadLock
    <3>1. step' = "reacquiring" /\ UNCHANGED <<loop, shuttingDown>>
      BY <1>14, <2>2 DEF RespawnFallsBack
    <3> QED
      BY <2>1, <3>1
  <2>3. CASE ~hadLock
    <3>1. step' = "idle" /\ shuttingDown' = FALSE /\ loop' \in {"starting", loop}
      BY <1>14, <2>3 DEF RespawnFallsBack, ResumeLoop
    <3>2. shuttingDown' \in BOOLEAN
      BY <3>1, Zenon
    <3> QED
      BY <2>1, <3>1, <3>2
  <2> QED
    BY <2>2, <2>3
<1>15. CASE LockReacquired
  BY <1>15, ZenonT(40) DEF LockReacquired, ResumeLoop
<1>16. CASE ReacquireFails
  BY <1>16 DEF ReacquireFails, Exit
<1>17. CASE EmbeddedRunStarts
  BY <1>17 DEF EmbeddedRunStarts
<1>18. CASE EmbeddedRunEnds
  <2>1. embeddedRun' = FALSE
    BY <1>18 DEF EmbeddedRunEnds
  <2>2. UNCHANGED <<processVars, handlerVars, exitCode>>
    BY <1>18 DEF EmbeddedRunEnds
  <2>3. embeddedRun' \in BOOLEAN
    BY <2>1, Zenon
  <2> QED
    BY <2>2, <2>3
<1>19. CASE DrainWaitTimesOut
  BY <1>19 DEF DrainWaitTimesOut
<1>20. CASE QueueStep
  BY <1>20 DEF QueueStep
<1>21. CASE UNCHANGED allVars
  BY <1>21 DEF allVars
<1> QED
  BY <1>1, <1>2, <1>3, <1>4, <1>5, <1>6, <1>7, <1>8, <1>9, <1>10,
     <1>11, <1>12, <1>13, <1>14, <1>15, <1>16, <1>17, <1>18, <1>19, <1>20,
     <1>21
     DEF RunLoopNext

\* A step that gives no waiter up, and ends a drain only to end the handler.
LEMMA DrainKept ==
    ASSUME DrainInv, LoopInv, \A w \in Waiters : KeepsWaiter(w),
           UNCHANGED <<request, requests, atDrain>>,
           step' \in DrainSteps => step \in DrainSteps,
           step = "draining" /\ step' \in DrainSteps => step' = "draining"
    PROVE  DrainInv'
<1>1. SUFFICES ASSUME request = "indefinite", step' \in DrainSteps, atDrain # {}
               PROVE  AwaitsAll'
  BY DEF DrainInv
<1>2. AwaitsAll
  BY <1>1 DEF DrainInv
<1>3. requests \in Waiters
  BY <1>1 DEF LoopInv, DrainSteps
<1>4. KeepsWaiter(requests)
  BY <1>3
<1> QED
  BY <1>1, <1>2, <1>4 DEF AwaitsAll, KeepsWaiter

\* Nobody gives up the waiter of a restart without a drain timeout, and what it
\* captured stays released once it is.
LEMMA DrainPreserved ==
    ASSUME LInv, [RunLoopNext]_allVars
    PROVE  DrainInv'
<1>1. IInv /\ TypeOK /\ WaiterInv /\ LoopInv /\ DrainInv
  BY DEF LInv, IInv
<1>2. CASE UNCHANGED <<request, requests, atDrain, step, vars>>
  BY <1>1, <1>2, DrainKept DEF vars, KeepsWaiter
<1>3. CASE RequestStop
  BY <1>3 DEF RequestStop, DrainInv
<1>4. ASSUME NEW budget \in Budgets \ {"stop"}, RequestRestart(budget)
      PROVE  DrainInv'
  BY <1>4 DEF RequestRestart, DrainInv, DrainSteps
<1>5. CASE BeginDrain
  <2>1. CASE ActiveIds(active) = {}
    BY <1>5, <2>1 DEF BeginDrain, DrainInv
  <2>2. CASE ActiveIds(active) # {} /\ request = "indefinite"
    <3>1. DrainNeeded
      BY <2>2 DEF DrainNeeded
    <3>2. step' = "draining" /\ CaptureActiveTasks(requests, TRUE) /\ UNCHANGED requests
      BY <1>5, <2>2, <3>1 DEF BeginDrain
    <3>3. requests \in Waiters /\ requests \in DOMAIN waiter
      BY <1>1, <1>5 DEF BeginDrain, LoopInv, TypeOK
    <3>4. waiter'[requests] = [ids |-> ActiveIds(active), status |-> "waiting"]
      BY <2>2, <3>2, <3>3 DEF CaptureActiveTasks
    <3>5. atDrain' = ActiveIds(active)
      BY <1>5 DEF BeginDrain
    <3> QED
      BY <3>2, <3>4, <3>5 DEF DrainInv, AwaitsAll
  <2>3. CASE request # "indefinite"
    BY <1>5, <2>3 DEF BeginDrain, DrainInv
  <2> QED
    BY <2>1, <2>2, <2>3
<1>6. CASE DrainEnds
  <2>1. UNCHANGED <<request, requests, atDrain, waiter>> /\ step = "draining" /\ step' = "closing"
        /\ waiter[requests].status # "waiting"
    BY <1>6 DEF DrainEnds, vars
  <2> QED
    BY <1>1, <2>1 DEF DrainInv, AwaitsAll, DrainSteps
<1>7. CASE ServerClosed \/ LockReleased
  <2>1. UNCHANGED <<request, requests, atDrain, waiter>>
    BY <1>7 DEF ServerClosed, LockReleased, vars
  <2>2. step \in {"closing", "releasing"} /\ step' # "draining"
    BY <1>7 DEF ServerClosed, LockReleased
  <2> QED
    BY <1>1, <2>1, <2>2, DrainKept DEF KeepsWaiter, DrainSteps
<1>8. CASE RespawnFallsBack
  <2>1. UNCHANGED <<request, requests, atDrain>> /\ step = "respawning" /\ step' # "draining"
    BY <1>8 DEF RespawnFallsBack, ResumeLoop
  <2>2. \A w \in Waiters : KeepsWaiter(w)
    BY <1>1, <1>8, ResumeEffect DEF RespawnFallsBack, vars, KeepsWaiter
  <2> QED
    BY <1>1, <2>1, <2>2, DrainKept DEF DrainSteps
<1>9. CASE LockReacquired
  <2>1. UNCHANGED <<request, requests, atDrain>> /\ step = "reacquiring" /\ step' # "draining"
    BY <1>9 DEF LockReacquired, ResumeLoop
  <2>2. \A w \in Waiters : KeepsWaiter(w)
    BY <1>1, <1>9, ResumeEffect DEF LockReacquired
  <2> QED
    BY <1>1, <2>1, <2>2, DrainKept DEF DrainSteps
<1>10. CASE DrainWaitTimesOut
  BY <1>10 DEF DrainWaitTimesOut, loopVars, handlerVars, DrainInv
<1>11. CASE QueueStep
  <2>1. UNCHANGED <<request, requests, atDrain, step>>
    BY <1>11 DEF QueueStep, loopVars, handlerVars
  <2> QED
    BY <1>1, <1>11, <2>1, QueueStepEffect, DrainKept
<1>12. CASE UNCHANGED allVars
  BY <1>2, <1>12 DEF allVars, loopVars, handlerVars
<1> QED
  BY <1>2, <1>3, <1>4, <1>5, <1>6, <1>7, <1>8, <1>9, <1>10, <1>11, <1>12
     DEF RunLoopNext, handlerVars, StartSucceeds, FirstStartFails, RestartStartFails,
         StartFailureHandled, RunsDrained, ForceExit, RespawnTakesOver, ReacquireFails,
         EmbeddedRunStarts, EmbeddedRunEnds

\* The loop starts with an empty queue and no handler.
LEMMA LoopInit == RunLoopInit => LInv /\ HandlerAlone
<1> SUFFICES ASSUME RunLoopInit PROVE LInv /\ HandlerAlone
  OBVIOUS
<1>1. Init
  BY DEF RunLoopInit
<1>2. IInv
  BY <1>1, InitIInv
<1>3. WaiterInv
  BY <1>1 DEF Init, WaiterInv, CapturedHadBegun, NoLostWaiterWakeup, DrainedTasksStayReleased,
              ActiveIds
<1>4. LoopInv
  <2>1. /\ isFirstStart \in BOOLEAN /\ server \in BOOLEAN /\ lock \in BOOLEAN
        /\ lockFile \in BOOLEAN /\ mainReleases \in BOOLEAN /\ shuttingDown \in BOOLEAN
        /\ hadLock \in BOOLEAN /\ forceExitTimer \in BOOLEAN /\ embeddedRun \in BOOLEAN
        /\ awaitsRuns \in BOOLEAN
    BY Zenon DEF RunLoopInit
  <2>2. requests \in 0..MaxRequests
    BY RunLoopAssumption DEF RunLoopInit
  <2> QED
    BY <2>1, <2>2 DEF RunLoopInit, LoopInv, Budgets
<1>5. DrainInv
  BY DEF RunLoopInit, DrainInv
<1>6. HandlerAlone
  BY DEF RunLoopInit, Init, HandlerAlone, Alive
<1> QED
  BY <1>2, <1>3, <1>4, <1>5, <1>6 DEF LInv

\* Every step keeps the queue's part and the loop's part.
LEMMA LoopNext == LInv /\ [RunLoopNext]_allVars => LInv'
<1> SUFFICES ASSUME LInv, [RunLoopNext]_allVars PROVE LInv'
  OBVIOUS
<1>1. LoopInv /\ TypeOK
  BY DEF LInv, IInv
<1>2. LoopInv'
  BY <1>1, LoopPreserved
<1> QED
  BY <1>2, QueuePreserved, DrainPreserved DEF LInv

\* The inductive invariant holds in every state.
LEMMA LoopInductive == RunLoopSpec => []LInv
<1> QED
  BY LoopInit, LoopNext, PTL DEF RunLoopSpec

\* Nobody but the handler opens or closes the drain window.
LEMMA QueueStepKeepsWindow ==
    ASSUME QueueStep
    PROVE  UNCHANGED gatewayDraining
BY DEF QueueStep, EnqueueCommandInLane, RefuseCommand, TaskSettles, TaskTimesOut, LateSettle,
       FinishEntry, SetCommandLaneConcurrency, ClearCommandLane, ResetCommandLane

\* Without signals during start(), the handler and start() never overlap.
LEMMA AloneNext ==
    ASSUME ~SignalsDuringStart, LInv, HandlerAlone, [RunLoopNext]_allVars
    PROVE  HandlerAlone'
<1>0. LoopInv
  BY DEF LInv
<1> USE <1>0 DEF LoopInv, HandlerAlone, Alive, IsRestart, loopVars, processVars, handlerVars, vars
<1>1. CASE StartSucceeds
  BY <1>1 DEF StartSucceeds
<1>2. CASE FirstStartFails
  BY <1>2 DEF FirstStartFails, Exit, ReleaseLock
<1>3. CASE RestartStartFails
  BY <1>3 DEF RestartStartFails
<1>4. CASE StartFailureHandled
  BY <1>4 DEF StartFailureHandled, ReleaseLock
<1>5. CASE RequestStop
  BY <1>5 DEF RequestStop, CanRequest
<1>6. ASSUME NEW budget \in Budgets \ {"stop"}, RequestRestart(budget)
      PROVE  HandlerAlone'
  BY <1>6 DEF RequestRestart, CanRequest
<1>7. CASE BeginDrain
  BY <1>7 DEF BeginDrain, ArmForceExitTimer
<1>8. CASE RunsDrained
  BY <1>8 DEF RunsDrained
<1>9. CASE DrainEnds
  BY <1>9 DEF DrainEnds, ArmForceExitTimer
<1>10. CASE ServerClosed
  BY <1>10 DEF ServerClosed
<1>11. CASE ForceExit
  BY <1>11 DEF ForceExit, Exit
<1>12. CASE LockReleased
  BY <1>12 DEF LockReleased, Exit, ReleaseLock
<1>13. CASE RespawnTakesOver
  BY <1>13 DEF RespawnTakesOver, Exit
<1>14. CASE RespawnFallsBack
  BY <1>14 DEF RespawnFallsBack, ResumeLoop, ResetAllLanes
<1>15. CASE LockReacquired
  BY <1>15 DEF LockReacquired, ResumeLoop, ResetAllLanes
<1>16. CASE ReacquireFails
  BY <1>16 DEF ReacquireFails, Exit
<1>17. CASE EmbeddedRunStarts
  BY <1>17 DEF EmbeddedRunStarts
<1>18. CASE EmbeddedRunEnds
  BY <1>18 DEF EmbeddedRunEnds
<1>19. CASE DrainWaitTimesOut
  BY <1>19 DEF DrainWaitTimesOut, WaiterTimesOut
<1>20. CASE QueueStep
  BY <1>20, QueueStepKeepsWindow DEF QueueStep
<1>21. CASE UNCHANGED allVars
  BY <1>21 DEF allVars
<1> QED
  BY <1>1, <1>2, <1>3, <1>4, <1>5, <1>6, <1>7, <1>8, <1>9, <1>10,
     <1>11, <1>12, <1>13, <1>14, <1>15, <1>16, <1>17, <1>18, <1>19, <1>20,
     <1>21
     DEF RunLoopNext

\* HandlerAlone holds in every state of such a run.
LEMMA AloneInductive ==
    ASSUME ~SignalsDuringStart
    PROVE  RunLoopSpec => []HandlerAlone
<1>1. LInv /\ HandlerAlone /\ [RunLoopNext]_allVars => HandlerAlone'
  BY AloneNext
<1> QED
  BY <1>1, LoopInit, LoopInductive, PTL DEF RunLoopSpec

\* Every step of the run loop keeps the contract of LaneService: what it does to the
\* queue besides the queue's own steps, the contract does not see.
LEMMA RunLoopServes ==
    ASSUME LInv, PendingNotEnded, [RunLoopNext]_allVars
    PROVE  PendingNotEnded' /\ [LaneView!ServiceNext]_(LaneView!serviceVars)
<1>1. ServiceInv
  BY DEF LInv, ServiceInv
<1>2. CASE BeginDrain
  <2>1. UNCHANGED <<laneVars, taskVars>>
    BY <1>2 DEF BeginDrain
  <2>2. UNCHANGED <<queue, maxConcurrent, generation, taskGeneration, promise, body>>
    BY <2>1 DEF laneVars, taskVars
  <2>3. UNCHANGED LaneView!serviceVars
    BY <2>2, StutterStep DEF StatusOf
  <2> QED
    BY <2>2, <2>3 DEF PendingNotEnded
<1>3. CASE ~BeginDrain
  <2>1. [Next]_vars
    BY <1>3, QueueSteps
  <2>2. PendingNotEnded'
    BY <1>1, <2>1, NextKeepsPending DEF ServiceInv
  <2>3. ServiceInv'
    BY <2>2, QueuePreserved DEF ServiceInv
  <2> QED
    BY <1>1, <2>1, <2>2, <2>3, NextServes
<1> QED
  BY <1>2, <1>3

\* Nor does it start a command beyond a limit.
LEMMA RunLoopWithinLimit ==
    ASSUME LInv, [RunLoopNext]_allVars
    PROVE  WithinLimit
<1>1. CASE BeginDrain
  BY <1>1 DEF BeginDrain, laneVars, WithinLimit
<1>2. CASE ~BeginDrain
  BY <1>2, QueueSteps, NextWithinLimit DEF LInv
<1> QED
  BY <1>1, <1>2

-----------------------------------------------------------------------------
(* The theorems. *)

\* The variables of the run loop keep their types and a handler's position fits its
\* request, for any number of signals at any moment.
THEOREM RunLoopTypeCorrect == RunLoopSpec => []RunLoopTypeOK
<1>1. LInv => RunLoopTypeOK
  <2> SUFFICES ASSUME LInv PROVE RunLoopTypeOK
    OBVIOUS
  <2>1. TypeOK /\ LoopInv
    BY DEF LInv, IInv
  <2> QED
    BY <2>1 DEF LoopInv, RunLoopTypeOK
<1> QED
  BY <1>1, LoopInductive, PTL

\* A restart without a drain timeout never closes the server while a command that was
\* executing when the drain began still has its slot, whatever timeouts, resets and
\* signals do meanwhile.
THEOREM DrainsBeforeClosing == RunLoopSpec => []DrainedBeforeClose
<1>1. LInv => DrainedBeforeClose
  <2> SUFFICES ASSUME LInv, request = "indefinite",
                      step \in {"closing", "releasing", "respawning", "reacquiring"},
                      atDrain # {}
               PROVE  atDrain \cap ActiveIds(active) = {}
    BY DEF DrainedBeforeClose
  <2>1. AwaitsAll /\ requests \in Waiters
    BY DEF LInv, DrainInv, DrainSteps, LoopInv
  <2>2. waiter[requests].ids = atDrain /\ waiter[requests].status = "drained"
    BY <2>1 DEF AwaitsAll
  <2>3. DrainedTasksStayReleased
    BY DEF LInv, WaiterInv
  <2> QED
    BY <2>1, <2>2, <2>3 DEF DrainedTasksStayReleased
<1> QED
  BY <1>1, LoopInductive, PTL

\* If no signal arrives during a start, a live gateway that is not shutting down accepts
\* commands: the drain window a handler opened is closed when the handler is over.
THEOREM WindowIsClosed ==
    ASSUME ~SignalsDuringStart
    PROVE  RunLoopSpec => []OpenUnlessShuttingDown
<1>1. LInv /\ HandlerAlone => OpenUnlessShuttingDown
  BY DEF LInv, LoopInv, HandlerAlone, OpenUnlessShuttingDown
<1> QED
  BY <1>1, LoopInductive, AloneInductive, PTL

\* If no signal arrives during a start, a process that exits cleanly leaves neither its
\* lock file nor a listening server behind.
THEOREM ExitHandsOver ==
    ASSUME ~SignalsDuringStart
    PROVE  RunLoopSpec => []CleanExitHandsOver
<1>1. HandlerAlone => CleanExitHandsOver
  BY DEF HandlerAlone, CleanExitHandsOver
<1> QED
  BY <1>1, AloneInductive, PTL

\* The signal handler and the main loop, which mark the queue as draining, reset its
\* lanes and reopen it (markGatewayDraining, resetAllLanes), leave every promise of the
\* command queue intact: no entry, slot, turn or wake-up is lost across restarts.
THEOREM QueueStaysSound ==
    RunLoopSpec => [](/\ EntriesQueuedOnce
                      /\ SlotsMatchRunningEntries
                      /\ WorkConserving
                      /\ NoLostWaiterWakeup
                      /\ DrainedTasksStayReleased)
<1>1. LInv => /\ EntriesQueuedOnce
              /\ SlotsMatchRunningEntries
              /\ WorkConserving
              /\ NoLostWaiterWakeup
              /\ DrainedTasksStayReleased
  BY DEF LInv, IInv, LaneInv, WaiterInv
<1> QED
  BY <1>1, LoopInductive, PTL

\* The composed system implements the contract of LaneService, too: to those who
\* submit commands, drains and restarts are resets that abandon what is being served.
THEOREM RestartsKeepContract == RunLoopSpec => KeepsLaneService
<1>1. ASSUME Init
      PROVE  LaneView!ServiceInit /\ PendingNotEnded
  <2>1. \A t \in Tasks : promise[t] = "none" /\ StatusOf(t) = "new"
    BY <1>1 DEF Init, StatusOf, Settled, PromiseStates
  <2> QED
    BY <1>1, <2>1 DEF Init, LaneView!ServiceInit, PendingNotEnded
<1>2. RunLoopInit => Init
  BY DEF RunLoopInit
<1>3. LInv /\ PendingNotEnded /\ [RunLoopNext]_allVars
      => PendingNotEnded' /\ [LaneView!ServiceNext]_(LaneView!serviceVars)
  BY RunLoopServes
<1> QED
  BY <1>1, <1>2, <1>3, LoopInductive, PTL
     DEF RunLoopSpec, KeepsLaneService, LaneView!ServiceSpec

\* Between the handler's resets and the pump, no lane starts more than its limit allows.
THEOREM RestartsStayWithinLimit == RunLoopSpec => StartsWithinLimit
<1>1. LInv /\ [RunLoopNext]_allVars => WithinLimit
  BY RunLoopWithinLimit
<1>2. RunLoopSpec => [][WithinLimit]_vars
  BY <1>1, LoopInductive, PTL DEF RunLoopSpec
<1> QED
  BY <1>2 DEF StartsWithinLimit, WithinLimit
=============================================================================
