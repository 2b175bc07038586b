--------------------------- MODULE GatewayRunLoop ---------------------------
(***************************************************************************)
(* The life of a gateway process (src/src/cli/gateway-cli/run-loop.ts),    *)
(* composed with the command queue it drains and resets: the main loop     *)
(* that starts the server and waits to be restarted, and the handler of a  *)
(* stop or restart signal, which drains, closes the server, gives up the   *)
(* gateway lock and exits or restarts in process.                          *)
(*                                                                         *)
(* The two are concurrent: the handler's awaits interleave with the main   *)
(* loop's await of start() and with everything the queue does. A step here *)
(* is what happens between two awaits that can really take time; awaits of *)
(* modules already loaded let no other event in.                           *)
(***************************************************************************)
EXTENDS CommandQueue

CONSTANTS
    MaxRequests,        \* bound on the accepted signals; the n-th one waits
                        \* for active tasks as waiter n
    SignalsDuringStart  \* whether signals also arrive while the server starts

ASSUME RunLoopAssumption ==
    /\ MaxRequests \in Nat
    /\ Waiters = 1..MaxRequests
    /\ MaxGeneration > MaxRequests
    /\ SignalsDuringStart \in BOOLEAN

VARIABLES
    loop,           \* where runGatewayLoop's for(;;) is
    isFirstStart,
    server,         \* server # null: a server is listening
    lock,           \* lock # null
    lockFile,       \* this process's lock file exists
    mainReleases,   \* the main loop is awaiting lock.release()
    shuttingDown,
    step,           \* where the handler of the accepted signal is
    request,        \* what it was asked
    requests,       \* how many signals were accepted
    hadLock,        \* handleRestartAfterServerClose's hadLock
    forceExitTimer, \* the watchdog of the shutdown is armed
    embeddedRun,    \* getActiveEmbeddedRunCount() > 0
    awaitsRuns,     \* the drain is polling in waitForActiveEmbeddedRuns
    atDrain,        \* history: the commands executing when the last drain began
    exitCode

processVars == <<loop, isFirstStart, server, lock, lockFile, mainReleases>>
handlerVars == <<shuttingDown, step, request, requests, hadLock, forceExitTimer,
                 awaitsRuns, atDrain>>
loopVars == <<processVars, handlerVars, embeddedRun, exitCode>>
allVars == <<vars, loopVars>>

\* How long a restart may wait for active work: --force, a drain timeout, or no
\* timeout (resolveRestartDrainTimeoutMs); "stop" is a plain shutdown.
Budgets == {"stop", "force", "capped", "indefinite"}
IsRestart == request # "stop"

\* The types, and that the handler's position fits its request: the guard of
\* request() holds while a handler runs, and a stop or a forced restart does not
\* drain.
RunLoopTypeOK ==
    /\ TypeOK
    /\ loop \in {"starting", "startFailed", "waiting", "exited"}
    /\ {isFirstStart, server, lock, lockFile, mainReleases, shuttingDown,
        hadLock, forceExitTimer, embeddedRun, awaitsRuns} \subseteq BOOLEAN
    /\ step \in {"idle", "resolving", "draining", "closing", "releasing",
                 "respawning", "reacquiring"}
    /\ request \in Budgets
    /\ requests \in 0..MaxRequests
    /\ atDrain \subseteq Tasks
    /\ exitCode \in {"none", "ok", "error"}
    /\ shuttingDown <=> step # "idle"
    /\ step = "draining" => request \in {"capped", "indefinite"}
    /\ awaitsRuns => step = "draining"

\* The lock is acquired before the loop is entered.
RunLoopInit ==
    /\ Init
    /\ loop = "starting" /\ isFirstStart = TRUE
    /\ server = FALSE
    /\ lock = TRUE /\ lockFile = TRUE /\ mainReleases = FALSE
    /\ shuttingDown = FALSE /\ step = "idle" /\ request = "stop" /\ requests = 0
    /\ hadLock = FALSE /\ forceExitTimer = FALSE
    /\ embeddedRun = FALSE /\ awaitsRuns = FALSE /\ atDrain = {}
    /\ exitCode = "none"

Alive == loop # "exited"

\* process.exit: nothing else runs.
Exit(code) ==
    /\ loop' = "exited"
    /\ exitCode' = code

\* Mutant of ReleaseLock: the lock file stays behind.
ReleaseForgetsFile(held) ==
    /\ lock' = (lock /\ ~held)
    /\ UNCHANGED lockFile

\* The end of releaseLockIfHeld, for a caller that found the lock held or not.
ReleaseLock(held) ==
    /\ lock' = (lock /\ ~held)
    /\ lockFile' = (lockFile /\ ~held)

-----------------------------------------------------------------------------
(* The main loop *)

StartSucceeds ==
    /\ loop = "starting"
    /\ server' = TRUE
    /\ isFirstStart' = FALSE
    /\ loop' = "waiting"
    /\ UNCHANGED <<lock, lockFile, mainReleases, handlerVars, embeddedRun, exitCode, vars>>

\* A failure of the first start ends the process, through the finally block.
FirstStartFails ==
    /\ loop = "starting"
    /\ isFirstStart
    /\ Exit("error")
    /\ ReleaseLock(lock)
    /\ UNCHANGED <<isFirstStart, server, mainReleases, handlerVars, embeddedRun, vars>>

\* A later failure begins to release the lock and keeps the process.
RestartStartFails ==
    /\ loop = "starting"
    /\ ~isFirstStart
    /\ server' = FALSE
    /\ mainReleases' = lock
    /\ loop' = "startFailed"
    /\ UNCHANGED <<isFirstStart, lock, lockFile, handlerVars, embeddedRun, exitCode, vars>>

\* The release ends, the stability bundle is written, and the loop waits.
StartFailureHandled ==
    /\ loop = "startFailed"
    /\ ReleaseLock(mainReleases)
    /\ mainReleases' = FALSE
    /\ loop' = "waiting"
    /\ UNCHANGED <<isFirstStart, server, handlerVars, embeddedRun, exitCode, vars>>

-----------------------------------------------------------------------------
(* The handler of a signal *)

CanRequest ==
    /\ Alive
    /\ ~shuttingDown
    /\ requests < MaxRequests
    /\ SignalsDuringStart \/ loop = "waiting"

\* SIGINT, or SIGTERM without a restart intent: no drain, close at once.
RequestStop ==
    /\ CanRequest
    /\ shuttingDown' = TRUE
    /\ request' = "stop"
    /\ requests' = requests + 1
    /\ forceExitTimer' = TRUE
    /\ step' = "closing"
    /\ UNCHANGED <<processVars, hadLock, awaitsRuns, atDrain, embeddedRun, exitCode, vars>>

\* An authorised SIGUSR1, or a signal with a restart intent.
RequestRestart(budget) ==
    /\ CanRequest
    /\ shuttingDown' = TRUE
    /\ request' = budget
    /\ requests' = requests + 1
    /\ step' = "resolving"
    /\ UNCHANGED <<processVars, hadLock, forceExitTimer, awaitsRuns, atDrain, embeddedRun,
                   exitCode, vars>>

\* Mutants of DrainNeeded: the drain is skipped when no embedded run is active,
\* resp. not skipped by --force.
DrainNeededRunsOnly == embeddedRun /\ request # "force"
DrainNeededAlways == ActiveIds(active) # {} \/ embeddedRun

DrainNeeded == (ActiveIds(active) # {} \/ embeddedRun) /\ request # "force"

\* Mutant of ArmForceExitTimer: only the timer of a capped restart is armed.
ArmForceExitTimerCapped == forceExitTimer' = (request = "capped")

\* From here on the watchdog is armed, whatever the request.
ArmForceExitTimer == forceExitTimer' = TRUE

\* The budget is known: arm the watchdog of a capped restart, refuse new work,
\* and wait for what is active now, or go on to close the server.
BeginDrain ==
    /\ Alive
    /\ step = "resolving"
    /\ gatewayDraining' = TRUE
    /\ atDrain' = ActiveIds(active)
    /\ IF DrainNeeded
       THEN /\ step' = "draining"
            /\ forceExitTimer' = (request # "indefinite")
            /\ awaitsRuns' = embeddedRun
            /\ IF ActiveIds(active) # {} THEN CaptureActiveTasks(requests, TRUE)
               ELSE UNCHANGED waiter
       ELSE /\ step' = "closing"
            /\ ArmForceExitTimer
            /\ UNCHANGED <<waiter, awaitsRuns>>
    /\ UNCHANGED <<processVars, shuttingDown, request, requests, hadLock, embeddedRun,
                   exitCode, laneVars, taskVars>>

\* waitForActiveEmbeddedRuns polls: no run at this moment, or its timeout passed.
RunsDrained ==
    /\ Alive
    /\ awaitsRuns
    /\ embeddedRun => request = "capped"
    /\ awaitsRuns' = FALSE
    /\ UNCHANGED <<processVars, shuttingDown, step, request, requests, hadLock,
                   forceExitTimer, atDrain, embeddedRun, exitCode, vars>>

\* Both waits are over: close the server.
DrainEnds ==
    /\ Alive
    /\ step = "draining"
    /\ waiter[requests].status # "waiting"
    /\ ~awaitsRuns
    /\ step' = "closing"
    /\ ArmForceExitTimer
    /\ UNCHANGED <<processVars, shuttingDown, request, requests, hadLock, awaitsRuns,
                   atDrain, embeddedRun, exitCode, vars>>

\* server.close returned or threw; the release of the lock begins.
ServerClosed ==
    /\ Alive
    /\ step = "closing"
    /\ server' = FALSE
    /\ forceExitTimer' = FALSE
    /\ hadLock' = lock
    /\ step' = "releasing"
    /\ UNCHANGED <<loop, isFirstStart, lock, lockFile, mainReleases, shuttingDown,
                   request, requests, awaitsRuns, atDrain, embeddedRun, exitCode, vars>>

\* server.close hangs and the watchdog fires. It outlasts the drain timeout.
ForceExit ==
    /\ Alive
    /\ step = "closing"
    /\ forceExitTimer
    /\ Exit("error")
    /\ UNCHANGED <<isFirstStart, server, lock, lockFile, mainReleases, handlerVars,
                   embeddedRun, vars>>

\* The lock is released; a stop exits, a restart respawns.
LockReleased ==
    /\ Alive
    /\ step = "releasing"
    /\ ReleaseLock(hadLock)
    /\ IF IsRestart
       THEN /\ step' = "respawning"
            /\ UNCHANGED <<loop, exitCode>>
       ELSE /\ Exit("ok")
            /\ UNCHANGED step
    /\ UNCHANGED <<isFirstStart, server, mainReleases, shuttingDown, request, requests,
                   hadLock, forceExitTimer, awaitsRuns, atDrain, embeddedRun, vars>>

\* A child or a supervisor takes over (and an update child became healthy).
RespawnTakesOver ==
    /\ Alive
    /\ step = "respawning"
    /\ Exit("ok")
    /\ UNCHANGED <<isFirstStart, server, lock, lockFile, mainReleases, handlerVars,
                   embeddedRun, vars>>

\* Mutant of ResumeLoop: the lanes are not reset before the next start.
ResumeLoopNoReset ==
    /\ shuttingDown' = FALSE
    /\ step' = "idle"
    /\ loop' = IF loop = "waiting" THEN "starting" ELSE loop
    /\ UNCHANGED vars

\* shuttingDown = false; restartResolver?.(). The resolver means something only
\* while the main loop awaits it; then the next iteration resets the lanes and
\* calls start().
ResumeLoop ==
    /\ shuttingDown' = FALSE
    /\ step' = "idle"
    /\ IF loop = "waiting"
       THEN /\ loop' = "starting"
            /\ ResetAllLanes
       ELSE UNCHANGED <<loop, vars>>

\* Respawning is disabled or failed, or the update child stayed unhealthy.
RespawnFallsBack ==
    /\ Alive
    /\ step = "respawning"
    /\ IF hadLock
       THEN /\ step' = "reacquiring"
            /\ UNCHANGED <<loop, shuttingDown, vars>>
       ELSE ResumeLoop
    /\ UNCHANGED <<isFirstStart, server, lock, lockFile, mainReleases, request, requests,
                   hadLock, forceExitTimer, awaitsRuns, atDrain, embeddedRun, exitCode>>

LockReacquired ==
    /\ Alive
    /\ step = "reacquiring"
    /\ lock' = TRUE
    /\ lockFile' = TRUE
    /\ ResumeLoop
    /\ UNCHANGED <<isFirstStart, server, mainReleases, request, requests, hadLock,
                   forceExitTimer, awaitsRuns, atDrain, embeddedRun, exitCode>>

\* Another process holds the lock.
ReacquireFails ==
    /\ Alive
    /\ step = "reacquiring"
    /\ Exit("error")
    /\ UNCHANGED <<isFirstStart, server, lock, lockFile, mainReleases, handlerVars,
                   embeddedRun, vars>>

-----------------------------------------------------------------------------
(* The rest of the process *)

\* An agent turn begins or ends; a turn runs inside a command of some lane.
EmbeddedRunStarts ==
    /\ Alive
    /\ ~embeddedRun
    /\ \E t \in Tasks : body[t] = "running"
    /\ embeddedRun' = TRUE
    /\ UNCHANGED <<processVars, handlerVars, exitCode, vars>>

EmbeddedRunEnds ==
    /\ Alive
    /\ embeddedRun
    /\ embeddedRun' = FALSE
    /\ UNCHANGED <<processVars, handlerVars, exitCode, vars>>

\* The timeout of the handler's waitForActiveTasks.
DrainWaitTimesOut ==
    /\ Alive
    /\ step = "draining"
    /\ request = "capped"
    /\ WaiterTimesOut(requests)
    /\ UNCHANGED loopVars

\* Everybody else's use of the command queue.
QueueStep ==
    /\ Alive
    /\ \/ \E t \in Tasks : \/ EnqueueCommandInLane(t)
                           \/ RefuseCommand(t)
                           \/ TaskSettles(t)
                           \/ TaskTimesOut(t)
                           \/ LateSettle(t)
       \/ \E l \in Lanes, n \in 0..MaxLimit : SetCommandLaneConcurrency(l, n)
       \/ \E l \in Lanes : ClearCommandLane(l)
       \/ \E l \in Lanes : /\ generation[l] < MaxGeneration - MaxRequests
                           /\ ResetCommandLane(l)
    /\ UNCHANGED loopVars

RunLoopNext ==
    \/ StartSucceeds \/ FirstStartFails \/ RestartStartFails \/ StartFailureHandled
    \/ RequestStop
    \/ \E budget \in Budgets \ {"stop"} : RequestRestart(budget)
    \/ BeginDrain \/ RunsDrained \/ DrainEnds \/ ServerClosed \/ ForceExit \/ LockReleased
    \/ RespawnTakesOver \/ RespawnFallsBack \/ LockReacquired \/ ReacquireFails
    \/ EmbeddedRunStarts \/ EmbeddedRunEnds
    \/ DrainWaitTimesOut
    \/ QueueStep

RunLoopSpec == RunLoopInit /\ [][RunLoopNext]_allVars

\* start() settles, file and process operations complete, and armed timers fire.
\* server.close, agent turns and the bodies of commands may hang.
RunLoopFairSpec ==
    /\ RunLoopSpec
    /\ WF_allVars(StartSucceeds \/ FirstStartFails \/ RestartStartFails)
    /\ WF_allVars(StartFailureHandled)
    /\ WF_allVars(BeginDrain)
    /\ WF_allVars(RunsDrained)
    /\ WF_allVars(DrainEnds)
    /\ WF_allVars(ForceExit)
    /\ WF_allVars(LockReleased)
    /\ WF_allVars(RespawnTakesOver \/ RespawnFallsBack)
    /\ WF_allVars(LockReacquired \/ ReacquireFails)
    /\ WF_allVars(DrainWaitTimesOut)
    /\ \A t \in Tasks : WF_allVars(Alive /\ TaskTimesOut(t) /\ UNCHANGED loopVars)

-----------------------------------------------------------------------------
(* Properties *)

\* The drain window is closed when the shutdown that opened it is over: a live
\* gateway that is not shutting down accepts commands (markGatewayDraining is
\* undone by the resetAllLanes of the next iteration).
OpenUnlessShuttingDown == Alive /\ ~shuttingDown => ~gatewayDraining

\* A clean exit, for a stop or for a replacement process, leaves no lock file of
\* this process and no listening server behind.
CleanExitHandsOver == exitCode = "ok" => ~lockFile /\ ~server

\* A restart without a drain timeout never tears down the server, or anything
\* after it, while a command that was executing when the drain began still has its
\* slot, whatever lane timeouts, resets, and restarted queues did during the drain.
\* (A body whose slot a lane timeout or a reset has given back may still execute:
\* waitForActiveTasks does not know of it any more.)
DrainedBeforeClose ==
    Alive /\ request = "indefinite"
          /\ step \in {"closing", "releasing", "respawning", "reacquiring"}
        => atDrain \cap ActiveIds(active) = {}

\* A shutdown ends, in an exit or in a next iteration, even if server.close and
\* the bodies of commands hang. Only a restart without a drain timeout can be
\* held up, by an agent turn or by a command without a lane timeout.
ShutdownEnds ==
    shuttingDown ~>
        \/ ~Alive
        \/ ~shuttingDown
        \/ /\ request = "indefinite"
           /\ \/ awaitsRuns /\ embeddedRun
              \/ waiter[requests].ids \cap (ActiveIds(active) \ TimedTasks) # {}

\* Work queued before an in-process restart is not stranded by it: an entry
\* settles, or starts again in the next iteration and then settles, unless the
\* process ends or the lane is suspended.
QueuedWorkSurvivesRestart ==
    \A t \in TimedTasks :
        (promise[t] = "pending")
            ~> (promise[t] \in Settled \/ ~Alive \/ maxConcurrent[LaneOf[t]] = 0)
=============================================================================
