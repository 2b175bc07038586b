# GreenchClaw gateway: TLA+ models and proofs

GreenchClaw is a personal-assistant gateway: one long-lived Node process that
receives messages from chat channels, runs agent turns, and sends the answers.
This directory holds TLA+ modules for the parts of the gateway whose correctness
depends on ordering: the queue every command goes through, the life of the
process around it and its lock, the write-ahead queue of outbound messages, the
queue of messages that arrive during a turn, the heartbeat's wake layer and the
approvals of commands. Paths below are relative to the repository;
`PROJECT.json` maps every definition to lines.

## 1. Inventory

| Part | State | Operations | What makes it hard |
| --- | --- | --- | --- |
| Command queue (`src/process/command-queue.ts`) | lanes: FIFO, active task ids, limit, generation; draining flag; waiters | enqueue, pump, complete, lane timeout, set limit, clear, reset one/all, wait for active tasks | completions of an earlier generation, limits changed while tasks run, wake-ups |
| Gateway run loop (`src/cli/gateway-cli/run-loop.ts`) | server, lock, `shuttingDown`, resolver of the main loop, watchdog | start, signals, drain, close, release/reacquire lock, respawn or restart in process | signal handler and main loop interleave at every await and share four variables |
| Outbound delivery queue (`src/infra/outbound/delivery-queue-*.ts`, `deliver.ts`) | one JSON file per message, `.delivered` markers, `failed/`, in-process claims | enqueue, mark, send, ack, fail; startup recovery; reconnect drain | crashes between any two file operations, lost answers, two scans and the live send on one entry |
| Gateway lock (`src/infra/gateway-lock.ts`) | lock file with owner and start time; the port | acquire, judge the owner, reclaim, release | several processes judge a lock stale at once; files are removed by name; crashes leave them behind |
| Restart scheduler (`src/infra/restart.ts`, `restart-coordinator.ts`) | pending timer, deferral poll, authorisations | schedule, coalesce, defer until idle, emit | timers against signals and in-process restarts |
| Session delivery queue (`src/infra/session-delivery-queue-*.ts`) | files as above, idempotency keys | enqueue, recover, drain | as the outbound queue |
| Follow-up queue (`src/auto-reply/reply/queue/`, `src/utils/queue-helpers.ts`) | per-session items, dropped messages, drain flag, remembered message ids | enqueue with cap and drop policy, drain one by one or collected, clear | the queue changes while the drain awaits a run, and may be replaced by another object |
| Heartbeat wake (`src/infra/heartbeat-wake.ts`) | pending wakes, timer, running flag and its owner, handler generation | request, dispatch, retry, abandon, replace handler | coalescing while a handler runs, hangs or is replaced; abandoned batches that end late |
| Session write lock (`src/agents/session-write-lock.ts`) | lock files, re-entrancy counts | acquire, release, watchdog, stale removal | several processes, crashed owners |
| Exec approvals (`src/gateway/exec-approval-manager.ts`, `server-methods/approval-shared.ts`, `node-invoke-system-run-approval.ts`) | approvals with timers and a grace period | request, wait, resolve, expire, consume | decision against expiry, ids used again, single use, repeated answers |
| Cron, task registry, subagents, ACP manager, pairing | stores behind in-process locks | schedule, run, reload, approve | re-entrancy, restarts; large |
| Channels, providers, plugins, config, CLI, UI, native apps | mostly external | I/O, parsing, presentation | out of reach of a model checker |

Interactions: channels and cron enqueue commands into lanes; the run loop drains
and resets the lanes through `markGatewayDraining`, `waitForActiveTasks` and
`resetAllLanes`; agent turns run inside lane commands and send through
`deliver.ts`, which writes the delivery queue; every (re)start of the server runs
`recoverPendingDeliveries`, a reconnecting channel runs `drainPendingDeliveries`.
The run loop takes and gives up the gateway lock around every server. A message
that finds a turn active goes to the session's follow-up queue, which the end of
the turn drains. Timers, cron and tools request heartbeats from the wake layer,
whose handler runs a turn. A turn that wants to run a command on a node asks for an
approval and then passes the gate of `node.invoke`.
`PROJECT.json` lists the hazards of these parts line by line.

## 2. Modules

| Module | Role |
| --- | --- |
| `CommandQueue` | the command queue |
| `LaneService` | what the command queue promises: the specification it implements |
| `GatewayRunLoop` | the run loop, extending `CommandQueue`: the composition of both |
| `DeliveryQueue` | the outbound delivery queue with live sends, scans and crashes |
| `GatewayLock` | the processes that compete for the lock file and the port |
| `HeartbeatWake` | the wake layer with handlers that fail, hang and are replaced |
| `ExecApproval` | the approvals, the gateway methods around them, the gate for `system.run` |
| `FollowupQueue` | the follow-up queue of a session with its drain loop |
| `CommandQueueProofs` | inductive invariant and theorems of the command queue |
| `LaneServiceProofs` | the command queue implements `LaneService` |
| `GatewayRunLoopProofs` | theorems of the composition of run loop and queue |
| `DeliveryQueueProofs`, `GatewayLockProofs`, `HeartbeatWakeProofs`, `ExecApprovalProofs`, `FollowupQueueProofs` | inductive invariant and theorems of each of these modules |
| `MC...` | constants for TLC, one module each |

Operators introduced as "Mutant of ..." are deliberately wrong versions of a
definition. Substituted for it, each must make the named property fail; they show
that the properties depend on the code's details.

### CommandQueue

`command-queue.ts` runs on one event loop, so each public function and each
continuation after an `await` is one atomic action, with the pump it ends in.

- An entry doubles as its task id: `nextTaskId` never repeats and an entry is
  dequeued once. `queue`, `active`, `maxConcurrent`, `generation` are the fields of
  `LaneState`; `LaneState.draining` is TRUE only inside `drainLane`, hence FALSE
  between actions. (An `onWait` callback that re-enters the queue could observe it;
  no caller in the repository passes one.)
- `promise` is what the caller of `enqueueCommandInLane` sees; `body` is the task
  function, which keeps running after a lane timeout or a reset.
- `Drain` is `drainLane` for a set of lanes: `PumpCount` is how often the `while`
  loop runs. `FinishEntry` is the continuation after `runQueueEntryTask`:
  `completeTask`, `notifyActiveTaskWaiters`, pump, settle the promise.
- Lanes are created lazily in the code and exist from the start here. A lane that
  does not exist yet is not reset by the code; its generation only differs by a
  constant from the model's, and only equality of generations matters.
- Left out: logging, size getters, the test-only reset.

Bounds: `MaxLimit` (requested limits, from -1), `MaxGeneration` (resets).

`LaneService` is the contract without task ids, generations, active sets and pumps:
a lane has a line, a capacity and commands that are new, waiting, served, abandoned
or settled. It may serve from the front of its line when a command is submitted or
settles, when it is resized, or when a reset abandons the commands being served; it
starts nobody beyond its capacity. The refinement mapping (`LaneView`) takes the
queue for the line and maps an entry that executes in an earlier generation to
"abandoned" (`StatusOf`). `KeepsLaneService` says that every step of the queue is a
step of the contract or leaves its state alone; that lanes also serve as much as
they can is `WorkConserving`.

### GatewayRunLoop

Main loop and signal handler are two processes of one event loop; `loop` and
`step` are their positions. A step lasts until an await that can take time:
`start()`, the drain, `server.close`, file operations on the lock, the respawn.
Awaits of modules already loaded let no other event in, so resolving
`restartResolver`, `resetAllLanes` and the call of `start()` are one action
(`ResumeLoop`). What the code decides from the environment is nondeterministic:
whether `start()` fails, whether a child or supervisor takes over, whether the lock
can be reacquired. Which respawn path led to the fallback is not distinguished.

- A request is "stop", "force", "capped" (a drain timeout) or "indefinite".
- The n-th accepted signal uses waiter n of the command queue.
- The watchdog (`forceExitTimer`) can fire only while the server is being closed: it
  is armed for the drain timeout plus 25 s.
- Agent turns are one Boolean, `embeddedRun`; `awaitsRuns` is the polling loop of
  `waitForActiveEmbeddedRuns`, which stops at the first poll without a run.
- `atDrain` is a history variable: the commands that were executing when the last
  drain began. It is read by `DrainedBeforeClose` only.
- `mainReleases` is a release of the lock that the main loop has begun after a
  failed restart and that a signal handler can overlap.

Bounds: `MaxRequests` accepted signals; lane resets by others leave one generation
per request. `SignalsDuringStart` separates the two questions of section 3.

### DeliveryQueue

Every file operation is awaited, so a live send and each scan advance one file
operation at a time. A read-modify-write (`failDelivery`, the two marks) is two
steps with the copy kept in `liveCopy` or `scanCopy`. A write renames a temporary
file over the target, so it also recreates a file that is gone.

- `json[e]` is `{id}.json` with its retry count and `recoveryState`
  ("none", "started", "unknown"), or absent.
- `sends[e]` counts how often the platform accepted the message. A failed send, live
  or replayed, may have been accepted (lost answer, partial failure).
- `required` and `bestEffort` are options of the call, chosen per entry for good. A
  live send under `required` stops when its mark cannot be written, the others go on
  unmarked. A replay of a `bestEffort` entry hands payload errors to `onError` and
  returns normally (`ReplaySwallowed`); one whose payloads a hook drops, or that has
  nothing visible, does so too (`ReplaySuppressed`). The scan acks both.
- Marks, acks, moves to `failed/` and the write of `failDelivery` may each fail; what
  the caller does then is an action (`LiveMarkFails`, `ScanAckFails`, ...).
- The startup scan may run out of time at any point and then rewrites the entries it
  has left, which it has not claimed (`BudgetExceeded`, `DefersEntry`). Any scan may
  take an entry between the enqueuer's write and its claim.
- `reconcileUnknownSend` is trusted when it answers "sent" or "not sent", and may
  answer unresolved or not exist.
- A crash keeps files and the platform, loses claims, copies and positions.
- `StartupScan` is `recoverPendingDeliveries`, the other scans are
  `drainPendingDeliveries` with different drain keys. The startup scan may run
  repeatedly without a crash, as it does after in-process restarts.
- Left open: order of a scan and lengths of backoffs (a scan may always skip).
- Left out: the direct send after a failed enqueue, commit hooks, the payload pipeline
  of `deliver.ts`.

History variables: `sentMarked` (accepted in a live send whose attempt was marked),
`swallowed` (a replay failed and returned normally), `clobbered` (a deferral wrote an
older copy over the file), `interrupted` (the process died in a scan's ack of the
entry, which had been accepted once).

Bounds: `MaxRetries`, `MaxCrashes`, `MaxSends`.

### GatewayLock

Each file operation and the probe of the port is a step of its process. `file` is
what the lock path names: creator, whether it still lacks the payload, whether it is
older than `staleMs`. `fs.rm` removes whatever has the name by then. `seen` is the
payload a round has read and judges later. A process is started once and crashes at
any step; a restart in place releases and acquires again. The timeout of five
seconds ends no attempt in its first round (`MinRounds`), since a probe takes at
most one. The probe goes to 127.0.0.1 and counts errors and timeouts as a free port,
whereas a gateway with a tailnet or custom bind listens elsewhere (`gateway/net.ts`): a
listener may answer or not (`ProbeAnswers`), and one that does not is judged dead.
Assumed: Linux, where the start time tells apart processes with one pid, a configured
port, and one bind address for all processes, so that two of them cannot listen at
once. `alone`, `blankSeen`, `upSince` and `evicted` are history variables of the
properties; `upSince` is who has listened since a round read the file, and is forgotten
when that round's probe stays unanswered.

### HeartbeatWake

A batch whose callback is at `await active(...)` is a member of `flights`; the code
has no list of them, each is a closure. `generation` of a flight is its
`batchGeneration`, `orphan` says that the hang guard or a registration has taken the
layer away from it, and `hung` that its handler may never answer. `pendingWakes` keeps
the insertion order of the map; `QueueAll` is the loop that queues a batch again after
a throw. Delays are not modelled: of two normal timers either
may be due first. `overdue` is `runningSince` older than ten minutes. `owed` and
`credit` are history variables: the priority a target has still to be called with,
and how many calls its requests, faults and registrations pay for.

Bounds: `MaxRequests`, `MaxFaults` (busy skips, errors), `MaxHung`,
`MaxRegistrations`; the cap of noop retries is 1 instead of 3.

### ExecApproval

A request names the call of `exec.approval.request` and the map entry it registers,
so an id that is used again has two entries: the one in the map and one that old
timers and waiters still hold. `promise` is what the entry's promise settled with,
`decision` and `consumed` are the record's fields, `deadline` is now relative to
`expiresAtMs`: the gate still accepts an approval at the very millisecond. The gate's
binding checks refuse without changing state and are taken as passed; the operator's
client is taken to have a name, so that `resolvedBy` is null only after a timeout.
Before a request without a decision is answered, `afterDecision` awaits the push that
withdraws it from phones: the requester is "notifying" until `ExpiryPushed`, which may
never come.

Bound: `MaxRuns` runs per approval.

### FollowupQueue

`queues` are queue objects and `entry` is the one the map holds: a clear empties an
object and drops it from the map while its drain goes on. Everything between two
awaits of the drain is a step; `call` is what the drain awaits (the debounce or a
run) with the messages of the prompt and, for a collected batch, the rest of the
snapshot. Positions matter: a finished run removes as many items as it was
given from the front of whatever the queue is by then. `turn` is a run outside the
drain: a "reply" ends in `scheduleFollowupDrain`, an "other" run of the session (a
schedule's, an agent command's) counts as active and ends in nothing. A follow-up run
may throw before its turn completed or after; in the second case the turn counts in
`ran` and in `redone`. A drain that breaks with messages dropped and none queued
is scheduled again on promises that are already resolved: its call is `Spin`, the
process is `Starved`, and no other action is possible. Left out: which of the cached callbacks runs a
follow-up (all run the same turn, and `restartIfIdle` is not used by the callers),
the expiry of remembered ids after five minutes, messages without an id, the wording
of prompts. `lost`, `ran`, `redone`, `overflowed` and `behind` (the queue was filled
behind a run whose end does not drain it) are history variables.

Bounds: `MaxQueues` objects, `MaxFailures` runs that throw (the code retries without a
limit).

## 3. Runs

| Run | Checks | Result |
| --- | --- | --- |
| `queue` | entries kept once and in order, slots, limits, wake-ups, waiters, the refinement of `LaneService`, no lane stuck although bodies hang; one lane, three entries, a reset | holds |
| `loop_safety` | reopened queue, lock and server given up by a clean exit, for two signals once the server is up | holds |
| `loop_liveness` | handler positions, commands of an indefinite drain give up their slots before the close, shutdowns end, queued work survives restarts; a signal at any moment, a probe lane | holds |
| `loop_lost_restart` | the queue is open when no shutdown is in progress, signals during `start()` | violated |
| `delivery` | one owner, no silent loss, no marked send repeated, failed is final, no resurrection; one entry with any options, two scans, lost answers, failing writes, deferrals, two crashes | holds |
| `delivery_replay_crash` | a crash between delivery and cleanup causes no replay | violated |
| `lock` | a dead gateway keeps nobody out, a serving one loses its file to races and unanswered probes only; three processes | holds |
| `heartbeat` | wakes not stranded, lost or downgraded, retries bounded, batches serialized, pending wakes claimed; two targets, two requests, a fault, a hang, three registrations or disposals | holds |
| `heartbeat_replaced` | the newest batch is alone, with a handler replaced under a batch | violated |
| `approvals` | runs only as authorised, one decision, own deadline, everybody answered; two requests on two ids with a common prefix | holds |
| `followup` | no message run again after its run returned, none lost below the cap, none queued for ever; three messages, two senders, two routes, changing settings, a failing run, clears, other runs | holds |
| `followup_overflow` | nothing lost, follow-up mode with a full queue | violated |

The four violations are disagreements between the code and what its comments or
docs say; `findings` in `PROJECT.json` quotes the lines. In short:

1. *Lost restart.* A restart signal during `start()` reaches
   `restartResolver?.()` before the main loop awaits it. The server comes up, nobody
   restarts, and the command queue refuses work until the next restart.
2. *Unmarked replay.* A scan replays with `skipQueue`, hence without the mark. If the
   process dies after the platform accepted and before the ack's rename, the next scan
   sends the message again; the comment of `ackDelivery` says it would not.
3. *Owner generation reset.* A new handler sets `runningOwnerGeneration` to 0 while a
   batch of the old one is in flight. The next batch has the old one's number, and
   the old batch, when it ends, clears `running` under it.
4. *Summary in place of a message.* In follow-up mode the overflow summary is run
   instead of the oldest queued message, which is then removed.

More of what the models reach, seen with formulas that are not part of a run:

- *Second server* (run loop): a `start()` in progress when a restart signal arrives may
  complete while the handler is releasing or reacquiring the lock; the next iteration
  starts a second server beside it.
- *Unlocked server* (run loop): a failed in-process restart releases the lock, and the
  next one reacquires it only if its own handler had released it.
- *Unclaimed deferral* (`delivery-queue-recovery.ts:322`): it rewrites entries it has not
  claimed, so it can undo a mark, an ack or a move to `failed/`; the message is sent
  again, or is failed and pending at once.
- *Overtaken send* (`deliver.ts:1233`): a scan that claims, replays and acks an entry
  before its enqueuer claims it leaves no file, and a send that is not `required` goes on
  without one.
- *Swallowed replay* (`deliver.ts:1775`, `1280`; `delivery-queue-recovery.ts:142`, `448`):
  the errors of a `bestEffort` replay never reach the scan, which acks the message.
- *Starved process* (`drain.ts:287`, `queue-helpers.ts:111`): in follow-up mode a message
  arrives at the cap while the run of the queue's head is awaited; the head is dropped to
  be summarized, and the shift after the run removes the newcomer. With nothing queued and
  one message dropped the loop breaks, is scheduled again, finds its debounce over, and
  breaks again, without ever returning to the event loop.
- *Repeated turn* (`followup-runner.ts:401-468`, `drain.ts:298`): what throws after the
  agent turn completed makes the drain keep the message and run the turn again.

Smaller observations, without a property: clearing a summary after its run also clears
what was dropped during the run (`drain.ts:261`); an approval prefix that was ambiguous
becomes unique when one of the approvals is resolved (`exec-approval-manager.ts:216`); the
fallback for timed-out approvals can be used only in the millisecond of `expiresAtMs`
(`node-invoke-system-run-approval.ts:277`); a lock file whose payload could not be written
stays until it is old (`gateway-lock.ts:284`).

Exceptions that properties state, because the code has them: a lock file without a
payload (`RefusedOnlyByOthers`), a probe that stays unanswered
(`ServingLosesFileOnlyToRace`), a replaced handler (`BatchesSerialized`), an entry a
deferral overwrote (`MarkedSendNotReplayed`, `NoResurrection`, `FailedIsFinal`), a
swallowed replay (`NoSilentLoss`), a request that found no route (`OneDecision`), a
requester whose expiry push is under way (`ApprovalsSettle`), a turn whose own run threw
after it completed (`RunsOnce`), a queue that has overflowed (`NothingLostBelowCap`),
messages that arrive behind the last run of a cleared queue or behind a run that is no
reply, a starved process (`QueueDrains`). Each says that its exception is the only one.

Deadlock is checked for the command queue (limits can always be changed). The run
loop stops when the process exits, processes that compete for the lock end, and the
other systems rest when no input is left within the bounds, so their configurations
switch the check off.

**Why the bounds are enough.** Three entries in a lane of limit at most two give
active, queued and stale entries at once, and a reset gives completions that are a
generation late; the theorems of section 4 hold for any number. Two signals cover a restart after a restart, and a failed
one. Delivery entries meet only in the order in which a scan takes them, and a scan
may pause anywhere, so one entry with all options, faults and two scans shows what
several would; two crashes allow one during the recovery from another. Three
processes are the fewest in which two take a lock from a third and from each other.
Two wake targets make batches with an entry behind the one being handled; three
registrations or disposals cover a replacement, and a stop followed by a start. Two
approval requests are enough for an id used again and for an ambiguous prefix. Three
messages fill a queue of two, and split a batch by sender and by route.

**Fairness.** `FairSpec` assumes that an armed lane timeout fires (Node runs due
timers) and nothing else; bodies may hang. `RunLoopFairSpec` adds that `start()`
settles, that lock-file operations and respawns complete, that waits with a timeout
end, and that the watchdog fires while it is armed. It does not assume that
`server.close`, agent turns or command bodies ever end: `ShutdownEnds` names exactly
what may hold up a restart without a drain timeout. `HeartbeatWake` assumes that timers
fire, that ten minutes pass, and that a handler that does not hang answers;
`ExecApproval` that time passes, timers fire and settled promises are delivered, and
nothing of operators, deliveries or expiry pushes; `FollowupQueue` that replies and
follow-up runs end (agent runs have a timeout) and the debounce passes, and nothing of
other runs; that runs do not throw for ever is the bound `MaxFailures`.

## 4. Proofs

Every invariant and every action property of the passing runs is also a theorem, for
all values of the constants that satisfy the assumption of its module: any number of
lanes, entries, processes, messages, signals, faults, crashes. The assumptions only
say what kind of thing a constant is (`Tasks` finite, `Priorities` within 1..3, model
values different from one another, at least one setting). Two theorems of the
run loop have a hypothesis besides, named below; TLC shows that they fail without it.

The argument is the same everywhere: an inductive invariant (`IInv`, `LInv`, `HInv`),
which conjoins the properties with what makes them inductive, is true initially
(`InitInv`, `InitHolds`), is preserved by every action, one lemma or step per action,
and implies the property.

### Command queue (`CommandQueueProofs`)

| Theorem | Property |
| --- | --- |
| `TypeCorrect` | `TypeOK` |
| `QueueKeepsEntries` | `EntriesQueuedOnce` |
| `SlotsNeverLeak` | `SlotsMatchRunningEntries` |
| `LanesWorkConserving` | `WorkConserving` |
| `WaitersAreWoken` | `NoLostWaiterWakeup` |
| `DrainedIsFinal` | `DrainedTasksStayReleased` |
| `StartsStayWithinLimit` | `StartsWithinLimit` |

None of the invariants but the first is inductive alone. `IInv` conjoins the first four
with `GenerationsBounded`: no entry remembers a generation its lane has not reached, and
an entry nobody asked for has not begun. The bound is what makes a reset safe: the
new generation differs from those of all running entries, so none of them counts as
active again.

The argument has two layers. `PumpPartition`, `PrefixCardinality` and
`PumpFillsLane` say what the pump does to one queue: it moves a prefix, keeps the
rest free of duplicates, and stops at an empty queue or a full lane. `DrainEffect`
lifts this to all lanes, and `DrainEstablishes` concludes: a handler that leaves
queue, active set and promises accounted for, and pumps every lane in which it made
room, re-establishes the invariant. Each action then needs only to show its
accounting (`EnqueuePreserves`, `FinishPreserves`, ...).

`WaiterInv` adds for the waiters that whatever was captured had begun
(`CapturedHadBegun`): an entry that has begun is never started again, so what is
released stays released, and only handlers that notify release anything.

### Refinement (`LaneServiceProofs`)

`ImplementsLaneService` proves `KeepsLaneService`. The number of entries the pump
starts, `PumpCount`, is the witness for the number `Serve` leaves open; with
`PendingNotEnded` (a body ends in the step that settles its promise) the status of an
entry is determined by promise, body and generation, and each handler maps to one
action of the contract or, as the late end of a body that timed out, to a stutter.

### Run loop (`GatewayRunLoopProofs`)

| Theorem | Property | Hypothesis |
| --- | --- | --- |
| `RunLoopTypeCorrect` | `RunLoopTypeOK` | |
| `DrainsBeforeClosing` | `DrainedBeforeClose` | |
| `QueueStaysSound` | the five invariants of the queue and its waiters | |
| `RestartsKeepContract` | `KeepsLaneService` | |
| `RestartsStayWithinLimit` | `StartsWithinLimit` | |
| `WindowIsClosed` | `OpenUnlessShuttingDown` | `~SignalsDuringStart` |
| `ExitHandsOver` | `CleanExitHandsOver` | `~SignalsDuringStart` |

A step of the run loop is a step of the queue, leaves it alone, or is `BeginDrain`,
which marks the queue and captures a waiter at once (`QueueSteps`,
`BeginDrainQueue`). So the queue's theorems, its contract included, carry over to the
composition. `DrainInv` adds that the waiter of an indefinite drain is never given up
and has drained before the handler goes on. The last two theorems rest on
`HandlerAlone`: while a handler is busy the main loop waits, hence nobody else touches
the server and the lock, and the handler's last step finds a listener. Their hypothesis
is that no signal is accepted during `start()`; without it they are false (finding 1
and, for the exit, a server that comes up after the handler found none to close).

### Delivery queue (`DeliveryQueueProofs`)

| Theorem | Property |
| --- | --- |
| `TypeCorrect` | `TypeOK` |
| `OwnersAreExclusive` | `OneOwner` |
| `NothingIsLost` | `NoSilentLoss` |
| `FailedStaysFailed` | `FailedIsFinal` |
| `NoEntryReturns` | `NoResurrection` |
| `MarkedSendsNotReplayed` | `MarkedSendNotReplayed` |

All hold with any number of crashes, scans, entries and failing writes. `IInv` is types,
`OneOwner` and `LossInv`, which says what the owner of an entry knows before it removes
the file: an ack comes after an accepted send, a cancellation or a swallowed replay, and a
move to `failed/` works on an entry that has been read. The other three need more, for the
entries no deferral has overwritten. `OwnInv` (`EntryOwned`) says that whoever has read a
file to write it again owns the entry and that the file is still there, so the write
recreates nothing. `MarkInv` (`EntryMarked`) follows an entry accepted in a marked live
send: until it is acked or failed its file keeps the mark, hence every scan takes it to
reconciliation, and none is at the replay.

### Gateway lock (`GatewayLockProofs`)

| Theorem | Property |
| --- | --- |
| `TypeCorrect` | `TypeOK` |
| `CrashKeepsNobodyOut` | `RefusedOnlyByOthers` |
| `ServingKeepsFile` | `ServingLosesFileOnlyToRace` |

`AttemptInv` follows an attempt that runs alone: it spends one round on a dead
owner's file and finds none in the next, so it is never out of rounds. `RaceInv`
says that a round that read the file while its owner was listening, and got an answer
from it, sees it alive and does not reach the removal; `HolderInv` that a process that created the file has
it, with its payload, or was evicted.

### Heartbeat wake (`HeartbeatWakeProofs`)

| Theorem | Property |
| --- | --- |
| `TypeCorrect` | `TypeOK` |
| `NoWakeIsStranded` | `NoStrandedWake` |
| `RequestsAreKept` | `NoRequestLost` |
| `RetriesArePaidFor` | `RetriesPaidFor` |
| `NewestBatchIsAlone` | `BatchesSerialized` |

`NoStrandedWake` and `NoRequestLost` are inductive over the types (no target is pending
twice, each batch is at one of its wakes). Batches are named by handler and number
(`NameInv`: never two of one name), which allows counting them. `CreditInv`
bounds the calls a target can still cause: `Debt` grants each of its wakes, pending or
ahead in a batch, one call and `NoopRetryCap` retries, less the calls at their await and
the retries counted; the credit covers it at all times. `SerialInv` says that, until a
handler is replaced under a batch, the batch that is not abandoned has the newest
number and holds the running flag. What `QueueAll` does for a whole batch is proved by
a least counterexample (`LeastElement`), as the induction theorems of the library
cannot be used.

### Exec approvals (`ExecApprovalProofs`)

| Theorem | Property |
| --- | --- |
| `TypeCorrect` | `TypeOK` |
| `RunsAreAuthorised` | `RunsAuthorised` |
| `OneDecisionIsTold` | `OneDecision` |
| `TimeoutsAreTheirOwn` | `TimesOutAtOwnDeadline` |

`EntryInv` lists what the record of an approval can be, with the number of commands
let through: pending, unanswered, or decided, where a used allow-once has an empty
decision and one run. `MapInv` says that an entry that is still pending is the one the
map holds under its id: a timer that is armed finds its own entry, although it knows
only the id. `ToldInv` and `HeardInv` tie every answer to the entry's promise.

### Follow-up queue (`FollowupQueueProofs`)

| Theorem | Property |
| --- | --- |
| `TypeCorrect` | `TypeOK` |
| `MessagesRunOnce` | `RunsOnce` |
| `NothingIsLostBelowCap` | `NothingLostBelowCap` |

The drain removes by position what it ran by name, while the queue may have lost
messages at its front. `Shape` is what stays true of the two: a message of the run that
is still queued is at its place in the snapshot or before it, so the removal takes it
with it, and perhaps others. That, and that a message belongs to one queue object and
that no run of it has returned while one holds it (`OnceInv`: `ran` equals `redone`
until then, and exceeds it by one after), gives `RunsOnce`. As long as no queue has
overflowed, `CalmInv` says more: the queue starts with exactly what its drain runs, so
the removal takes nothing else, unless the object was cleared and is out of the map.

### What is only model-checked

- Liveness: `LaneNeverStuck`, `ShutdownEnds`, `QueuedWorkSurvivesRestart`, `WakeClaimed`,
  `ApprovalsSettle`, `QueueDrains`. Fairness and ENABLED are outside the prover.
- The four violations, which are counterexamples.

## 5. Plan

Models: the restart scheduler in front of `RequestRestart`, the session delivery queue
as a second client of the file protocol, the session write lock.

## 6. Not modelled

Cron is mostly date arithmetic around one guarded timer; the task registry, the ACP
manager and pairing are stores behind in-process locks, left for later. The agent
runner, channels, providers and plugins are dialogues with external services, the
configuration, CLI, UI and native apps are parsing, formatting and presentation:
they have little shared state to check, and make up most of the repository's lines.
