---------------------------- MODULE DeliveryQueue ----------------------------
(***************************************************************************)
(* The write-ahead queue of outbound messages: its files                   *)
(* (src/src/infra/outbound/delivery-queue-storage.ts), the live send that  *)
(* enqueues, claims, marks, sends and acks an entry (deliver.ts), and the  *)
(* scans of startup and reconnect that replay what a crash or a failure    *)
(* left (delivery-queue-recovery.ts).                                      *)
(*                                                                         *)
(* Every file operation is awaited, so live sends and scans interleave     *)
(* between any two of them, and a crash may come anywhere. The order in    *)
(* which a scan visits its entries (by enqueuedAt) and the length of the   *)
(* backoff are left open. A read finds a file or finds it gone; a write or *)
(* a rename may fail. The platform is a counter of the times it accepted   *)
(* an entry, any part of it.                                               *)
(***************************************************************************)
EXTENDS Naturals, FiniteSets

CONSTANTS
    Entries,        \* queue ids
    Reconcilable,   \* entries whose channel can reconcile an unknown send
    Scans,          \* the recovery at startup and the drains, one per drain key
    StartupScan,    \* the one of them that is recoverPendingDeliveries
    MaxRetries,     \* MAX_RETRIES
    MaxCrashes,     \* bound on the crashes
    MaxSends        \* bound on the times the platform accepts an entry

ASSUME DeliveryQueueAssumption ==
    /\ Reconcilable \subseteq Entries
    /\ StartupScan \in Scans
    /\ MaxRetries \in Nat
    /\ MaxCrashes \in Nat
    /\ MaxSends \in Nat

VARIABLES
    json,       \* {id}.json: retryCount and recoveryState, or absent
    delivered,  \* {id}.delivered exists
    failed,     \* failed/{id}.json exists
    claims,     \* entriesInProgress
    live,       \* the live send of each entry
    liveCopy,   \* what a live read-modify-write read
    scan,       \* what each scan is doing
    todo,       \* what is left of its snapshot
    current,    \* the entry it claimed, in a set of at most one
    scanCopy,   \* what its read-modify-writes read, per entry
    sends,      \* times the platform accepted the entry
    cancelled,  \* a send was aborted, or dropped by a hook, or had nothing to send
    crashes,
    \* the options of the calls, chosen once and for all
    required,    \* entries sent with queuePolicy "required"
    bestEffort,  \* entries sent with bestEffort: an error of a payload does not throw
    \* history
    sentMarked,  \* entries accepted in a live send that had marked its attempt
    swallowed,   \* entries a replay failed to send and yet returned normally
    clobbered,   \* entries whose file a deferral overwrote with an older copy
    interrupted  \* entries accepted once when the process died in a scan's ack of them

fileVars == <<json, delivered, failed>>
liveVars == <<live, liveCopy, cancelled>>
scanVars == <<scan, todo, current, scanCopy>>
options == <<required, bestEffort>>
history == <<sentMarked, swallowed, clobbered, interrupted>>
vars == <<json, delivered, failed, claims, live, liveCopy, scan, todo, current,
          scanCopy, sends, cancelled, crashes, required, bestEffort, sentMarked,
          swallowed, clobbered, interrupted>>

Marks == {"absent", "none", "started", "unknown"}
Files == [retry : 0..MaxRetries, mark : Marks]
NoFile == [retry |-> 0, mark |-> "absent"]
NewFile == [retry |-> 0, mark |-> "none"]
Exists(e) == json[e].mark # "absent"

LiveSteps == {"none", "writing", "claimed", "marking", "sending", "confirming",
              "acking", "failing", "unlinking", "done"}
ScanSteps == {"idle", "picking", "loading", "reconciling", "replaying", "acking",
              "failing", "unlinking", "deferring"}

\* The types, and that a scan holds one entry exactly while it works on it.
TypeOK ==
    /\ json \in [Entries -> Files]
    /\ delivered \in [Entries -> BOOLEAN]
    /\ failed \in [Entries -> BOOLEAN]
    /\ claims \subseteq Entries
    /\ live \in [Entries -> LiveSteps]
    /\ liveCopy \in [Entries -> Files]
    /\ scan \in [Scans -> ScanSteps]
    /\ todo \in [Scans -> SUBSET Entries]
    /\ current \in [Scans -> SUBSET Entries]
    /\ scanCopy \in [Scans -> [Entries -> Files]]
    /\ sends \in [Entries -> 0..MaxSends]
    /\ cancelled \in [Entries -> BOOLEAN]
    /\ crashes \in 0..MaxCrashes
    /\ required \subseteq Entries
    /\ bestEffort \subseteq Entries
    /\ sentMarked \subseteq Entries
    /\ swallowed \subseteq Entries
    /\ clobbered \subseteq Entries
    /\ interrupted \subseteq Entries
    /\ \A s \in Scans :
          IF scan[s] \in {"idle", "picking", "deferring"}
          THEN current[s] = {}
          ELSE \E e \in Entries : current[s] = {e}

Init ==
    /\ json = [e \in Entries |-> NoFile]
    /\ delivered = [e \in Entries |-> FALSE]
    /\ failed = [e \in Entries |-> FALSE]
    /\ claims = {}
    /\ live = [e \in Entries |-> "none"]
    /\ liveCopy = [e \in Entries |-> NoFile]
    /\ scan = [s \in Scans |-> "idle"]
    /\ todo = [s \in Scans |-> {}]
    /\ current = [s \in Scans |-> {}]
    /\ scanCopy = [s \in Scans |-> [e \in Entries |-> NoFile]]
    /\ sends = [e \in Entries |-> 0]
    /\ cancelled = [e \in Entries |-> FALSE]
    /\ crashes = 0
    /\ required \in SUBSET Entries
    /\ bestEffort \in SUBSET Entries
    /\ sentMarked = {}
    /\ swallowed = {}
    /\ clobbered = {}
    /\ interrupted = {}

-----------------------------------------------------------------------------
(* Files. A write goes to a temporary file that is renamed, so it creates an *)
(* entry that is gone.                                                       *)

\* failDelivery counts a retry; beyond MaxRetries more of them change nothing.
Retried(f) == [f EXCEPT !.retry = IF @ < MaxRetries THEN @ + 1 ELSE @]

Write(e, f) == json' = [json EXCEPT ![e] = f]

\* ackDelivery, phase 1. An entry that is gone is no error.
RenameToDelivered(e) ==
    /\ delivered' = [delivered EXCEPT ![e] = delivered[e] \/ Exists(e)]
    /\ Write(e, NoFile)

\* Mutants of MoveToFailed: the entry is only unlinked, resp. only copied.
MoveToFailedUnlinks(e) ==
    /\ Write(e, NoFile)
    /\ UNCHANGED failed
MoveToFailedCopies(e) ==
    /\ failed' = [failed EXCEPT ![e] = failed[e] \/ Exists(e)]
    /\ UNCHANGED json

\* moveToFailed; an entry that is gone stays gone.
MoveToFailed(e) ==
    /\ failed' = [failed EXCEPT ![e] = failed[e] \/ Exists(e)]
    /\ Write(e, NoFile)

Accepted(e) ==
    /\ sends[e] < MaxSends
    /\ sends' = [sends EXCEPT ![e] = @ + 1]

\* Accepted in the live send; liveCopy is absent when the attempt is not marked.
LiveAccepted(e) ==
    /\ Accepted(e)
    /\ sentMarked' = sentMarked \cup {x \in {e} : liveCopy[e].mark # "absent"}

-----------------------------------------------------------------------------
(* The live send *)

LiveStep(e, from, to) ==
    /\ live[e] = from
    /\ live' = [live EXCEPT ![e] = to]

\* enqueueDelivery: the file is visible, the enqueuer not yet back.
EnqueueDelivery(e) ==
    /\ LiveStep(e, "none", "writing")
    /\ Write(e, NewFile)
    /\ UNCHANGED <<delivered, failed, claims, liveCopy, cancelled, scanVars, sends,
                   crashes, options, history>>

\* Mutant of Claimable: claimRecoveryEntry does not test the set.
AlwaysClaimable(e) == TRUE

\* claimRecoveryEntry would succeed.
Claimable(e) == e \notin claims

\* withActiveDeliveryClaim; a scan that was faster keeps the entry.
LiveClaims(e) ==
    /\ IF Claimable(e)
       THEN /\ LiveStep(e, "writing", "claimed")
            /\ claims' = claims \cup {e}
       ELSE /\ LiveStep(e, "writing", "done")
            /\ UNCHANGED claims
    /\ UNCHANGED <<fileVars, liveCopy, cancelled, scanVars, sends, crashes, options,
                   history>>

\* onPlatformSendStart reads the entry to mark it. When it is gone a required
\* send fails, another one goes on unmarked.
LiveReadsForMark(e) ==
    /\ live[e] = "claimed"
    /\ IF Exists(e) THEN LiveStep(e, "claimed", "marking") /\ UNCHANGED claims
       ELSE IF e \in required
       THEN LiveStep(e, "claimed", "done") /\ claims' = claims \ {e}
       ELSE LiveStep(e, "claimed", "sending") /\ UNCHANGED claims
    /\ liveCopy' = [liveCopy EXCEPT ![e] = json[e]]
    /\ UNCHANGED <<fileVars, cancelled, scanVars, sends, crashes, options, history>>

\* Mutant of StartMark: the attempt is not recorded before the platform is called.
StartMarkMissing(f) == f

StartMark(f) == [f EXCEPT !.mark = "started"]

LiveMarksStarted(e) ==
    /\ LiveStep(e, "marking", "sending")
    /\ Write(e, StartMark(liveCopy[e]))
    /\ UNCHANGED <<delivered, failed, claims, liveCopy, cancelled, scanVars, sends,
                   crashes, options, history>>

\* failDelivery reads the entry, unless it is gone.
LiveReadsForFailure(e) ==
    /\ IF Exists(e)
       THEN live' = [live EXCEPT ![e] = "failing"] /\ UNCHANGED claims
       ELSE live' = [live EXCEPT ![e] = "done"] /\ claims' = claims \ {e}
    /\ liveCopy' = [liveCopy EXCEPT ![e] = json[e]]

\* The mark cannot be written: a required send fails, another one goes on unmarked.
LiveMarkFails(e) ==
    /\ live[e] = "marking"
    /\ IF e \in required THEN LiveReadsForFailure(e)
       ELSE /\ LiveStep(e, "marking", "sending")
            /\ liveCopy' = [liveCopy EXCEPT ![e] = NoFile]
            /\ UNCHANGED claims
    /\ UNCHANGED <<fileVars, cancelled, scanVars, sends, crashes, options, history>>

\* The platform accepted everything. A marked entry is first marked unknown, in
\* a read-modify-write of which this is the read; if its file is gone meanwhile a
\* required send ends in an error and another one goes on to the ack.
LiveSendSucceeds(e) ==
    /\ live[e] = "sending"
    /\ LiveAccepted(e)
    /\ IF liveCopy[e].mark = "absent"
       THEN LiveStep(e, "sending", "acking") /\ UNCHANGED claims
       ELSE IF Exists(e)
       THEN LiveStep(e, "sending", "confirming") /\ UNCHANGED claims
       ELSE IF e \in required
       THEN LiveStep(e, "sending", "done") /\ claims' = claims \ {e}
       ELSE LiveStep(e, "sending", "acking") /\ UNCHANGED claims
    /\ liveCopy' = [liveCopy EXCEPT ![e] = json[e]]
    /\ UNCHANGED <<fileVars, cancelled, scanVars, crashes, options, swallowed,
                   clobbered, interrupted>>

LiveMarksUnknown(e) ==
    /\ LiveStep(e, "confirming", "acking")
    /\ Write(e, [liveCopy[e] EXCEPT !.mark = "unknown"])
    /\ liveCopy' = [liveCopy EXCEPT ![e] = NoFile]
    /\ UNCHANGED <<delivered, failed, claims, cancelled, scanVars, sends, crashes,
                   options, history>>

\* It cannot be written: a required send ends in an error, neither failed nor acked.
LiveUnknownMarkFails(e) ==
    /\ IF e \in required
       THEN LiveStep(e, "confirming", "done") /\ claims' = claims \ {e}
       ELSE LiveStep(e, "confirming", "acking") /\ UNCHANGED claims
    /\ UNCHANGED <<fileVars, liveCopy, cancelled, scanVars, sends, crashes, options,
                   history>>

\* An error before the platform is called, or an error, a partial failure or a
\* lost reply after it: the platform may then have accepted the entry or not.
LiveSendFails(e) ==
    /\ live[e] \in {"claimed", "sending"}
    /\ \/ UNCHANGED <<sends, sentMarked>>
       \/ live[e] = "sending" /\ LiveAccepted(e)
    /\ LiveReadsForFailure(e)
    /\ UNCHANGED <<fileVars, cancelled, scanVars, crashes, options, swallowed,
                   clobbered, interrupted>>

\* A failDelivery that cannot write is ignored.
LiveRecordsFailure(e) ==
    /\ LiveStep(e, "failing", "done")
    /\ Write(e, Retried(liveCopy[e])) \/ UNCHANGED json
    /\ claims' = claims \ {e}
    /\ liveCopy' = [liveCopy EXCEPT ![e] = NoFile]
    /\ UNCHANGED <<delivered, failed, cancelled, scanVars, sends, crashes, options,
                   history>>

\* Dropped by a hook or with nothing to send, or aborted by the caller: acked, sent
\* or not. Once a bestEffort send has begun its abort is the failure of a payload.
LiveSendCancelled(e) ==
    /\ live[e] = "claimed" \/ (live[e] = "sending" /\ e \notin bestEffort)
    /\ \/ UNCHANGED <<sends, sentMarked>>
       \/ live[e] = "sending" /\ LiveAccepted(e)
    /\ live' = [live EXCEPT ![e] = "acking"]
    /\ cancelled' = [cancelled EXCEPT ![e] = TRUE]
    /\ liveCopy' = [liveCopy EXCEPT ![e] = NoFile]
    /\ UNCHANGED <<fileVars, claims, scanVars, crashes, options, swallowed, clobbered,
                   interrupted>>

LiveAcks(e) ==
    /\ LiveStep(e, "acking", "unlinking")
    /\ RenameToDelivered(e)
    /\ UNCHANGED <<failed, claims, liveCopy, cancelled, scanVars, sends, crashes,
                   options, history>>

\* The ack is not retried; the entry stays for the next scan.
LiveAckFails(e) ==
    /\ LiveStep(e, "acking", "done")
    /\ claims' = claims \ {e}
    /\ UNCHANGED <<fileVars, liveCopy, cancelled, scanVars, sends, crashes, options,
                   history>>

LiveUnlinks(e) ==
    /\ LiveStep(e, "unlinking", "done")
    /\ delivered' = [delivered EXCEPT ![e] = FALSE]
    /\ claims' = claims \ {e}
    /\ UNCHANGED <<json, failed, liveCopy, cancelled, scanVars, sends, crashes,
                   options, history>>

-----------------------------------------------------------------------------
(* recoverPendingDeliveries and drainPendingDeliveries *)

ScanStep(s, from, to) ==
    /\ scan[s] = from
    /\ scan' = [scan EXCEPT ![s] = to]

\* Mutant of Release: the scan goes on holding the entry it gave up.
ReleaseClaimOnly(s) ==
    /\ scan' = [scan EXCEPT ![s] = "picking"]
    /\ claims' = claims \ current[s]
    /\ UNCHANGED current

\* The claim of scan s is released and it goes on with its snapshot.
Release(s) ==
    /\ scan' = [scan EXCEPT ![s] = "picking"]
    /\ current' = [current EXCEPT ![s] = {}]
    /\ claims' = claims \ current[s]

\* loadPendingDeliveries: a snapshot of the pending entries, for a drain of those
\* its selectEntry matches; markers of interrupted acks are cleaned up.
ScanLoads(s) ==
    /\ ScanStep(s, "idle", "picking")
    /\ \E M \in SUBSET {e \in Entries : Exists(e)} :
          /\ s = StartupScan => M = {e \in Entries : Exists(e)}
          /\ todo' = [todo EXCEPT ![s] = M]
    /\ delivered' = [e \in Entries |-> FALSE]
    /\ UNCHANGED <<json, failed, claims, liveVars, current, scanCopy, sends, crashes,
                   options, history>>

ScanEnds(s) ==
    /\ todo[s] = {}
    /\ ScanStep(s, "picking", "idle")
    /\ UNCHANGED <<fileVars, claims, liveVars, todo, current, scanCopy, sends, crashes,
                   options, history>>

\* Claim the next entry, or skip it when somebody else owns it.
ScanPicks(s, e) ==
    /\ e \in todo[s]
    /\ todo' = [todo EXCEPT ![s] = @ \ {e}]
    /\ IF Claimable(e)
       THEN /\ ScanStep(s, "picking", "loading")
            /\ claims' = claims \cup {e}
            /\ current' = [current EXCEPT ![s] = {e}]
       ELSE /\ ScanStep(s, "picking", "picking")
            /\ UNCHANGED <<claims, current>>
    /\ UNCHANGED <<fileVars, liveVars, scanCopy, sends, crashes, options, history>>

\* The entry may be replayed without asking the platform.
Blind(f) == f.mark = "none"

\* Re-read after the claim. Gone, no longer selected by the drain, or in backoff:
\* skip it.
ScanSkips(s, e) ==
    /\ e \in current[s]
    /\ scan[s] = "loading"
    /\ s = StartupScan => json[e].retry < MaxRetries
    /\ Release(s)
    /\ UNCHANGED <<fileVars, liveVars, todo, scanCopy, sends, crashes, options, history>>

ScanGivesUp(s, e) ==
    /\ e \in current[s]
    /\ scan[s] = "loading"
    /\ Exists(e)
    /\ json[e].retry >= MaxRetries
    /\ MoveToFailed(e)
    /\ Release(s)
    /\ UNCHANGED <<delivered, liveVars, todo, scanCopy, sends, crashes, options, history>>

ScanLoadsEntry(s, e) ==
    /\ e \in current[s]
    /\ Exists(e)
    /\ json[e].retry < MaxRetries
    /\ ScanStep(s, "loading", IF Blind(json[e]) THEN "replaying" ELSE "reconciling")
    /\ UNCHANGED <<fileVars, claims, liveVars, todo, current, scanCopy, sends, crashes,
                   options, history>>

\* reconcileUnknownSend tells the truth when it says sent or not sent.
ReconciledSent(s, e) ==
    /\ e \in current[s] \cap Reconcilable
    /\ sends[e] > 0
    /\ ScanStep(s, "reconciling", "acking")
    /\ UNCHANGED <<fileVars, claims, liveVars, todo, current, scanCopy, sends, crashes,
                   options, history>>

ReconciledNotSent(s, e) ==
    /\ e \in current[s] \cap Reconcilable
    /\ sends[e] = 0
    /\ ScanStep(s, "reconciling", "replaying")
    /\ UNCHANGED <<fileVars, claims, liveVars, todo, current, scanCopy, sends, crashes,
                   options, history>>

\* No adapter, or an answer that is not retryable: refuse a blind replay.
ReconcileRefused(s, e) ==
    /\ e \in current[s]
    /\ scan[s] = "reconciling"
    /\ MoveToFailed(e)
    /\ Release(s)
    /\ UNCHANGED <<delivered, liveVars, todo, scanCopy, sends, crashes, options, history>>

\* failDelivery of the claimed entry: the read, when it is still there.
ScanReadsForFailure(s, e) ==
    IF Exists(e)
    THEN /\ scan' = [scan EXCEPT ![s] = "failing"]
         /\ scanCopy' = [scanCopy EXCEPT ![s][e] = json[e]]
         /\ UNCHANGED <<claims, current>>
    ELSE /\ Release(s)
         /\ UNCHANGED scanCopy

ReconcileUnresolved(s, e) ==
    /\ e \in current[s] \cap Reconcilable
    /\ scan[s] = "reconciling"
    /\ ScanReadsForFailure(s, e)
    /\ UNCHANGED <<fileVars, liveVars, todo, sends, crashes, options, history>>

\* deliver with skipQueue: no mark is written.
ReplaySucceeds(s, e) ==
    /\ e \in current[s]
    /\ ScanStep(s, "replaying", "acking")
    /\ Accepted(e)
    /\ UNCHANGED <<fileVars, claims, liveVars, todo, current, scanCopy, crashes,
                   options, history>>

\* A hook drops every payload, or none is visible: deliver returns normally, and
\* the entry is acked as if it had been sent.
ReplaySuppressed(s, e) ==
    /\ e \in current[s]
    /\ ScanStep(s, "replaying", "acking")
    /\ cancelled' = [cancelled EXCEPT ![e] = TRUE]
    /\ UNCHANGED <<fileVars, claims, live, liveCopy, todo, current, scanCopy, sends,
                   crashes, options, history>>

\* Payloads of a bestEffort entry fail. Their errors go to onError and deliver
\* returns normally; without a queue id nobody looks at the partial failure, and
\* the entry is acked.
ReplaySwallowed(s, e) ==
    /\ e \in current[s] \cap bestEffort
    /\ ScanStep(s, "replaying", "acking")
    /\ UNCHANGED sends \/ Accepted(e)
    /\ swallowed' = swallowed \cup {e}
    /\ UNCHANGED <<fileVars, claims, liveVars, todo, current, scanCopy, crashes, options,
                   sentMarked, clobbered, interrupted>>

\* An error that is thrown (of a bestEffort entry only outside its payloads); the
\* platform may have accepted the entry, or part of it, all the same.
ReplayFails(s, e) ==
    /\ e \in current[s]
    /\ scan[s] = "replaying"
    /\ UNCHANGED sends \/ Accepted(e)
    /\ ScanReadsForFailure(s, e)
    /\ UNCHANGED <<fileVars, liveVars, todo, crashes, options, history>>

\* A permanent error.
ReplayRejected(s, e) ==
    /\ e \in current[s]
    /\ scan[s] = "replaying"
    /\ UNCHANGED sends \/ Accepted(e)
    /\ MoveToFailed(e)
    /\ Release(s)
    /\ UNCHANGED <<delivered, liveVars, todo, scanCopy, crashes, options, history>>

\* The entry cannot be moved to failed/ and stays. A drain that gives an entry up
\* passes the error on and ends.
ScanMoveFails(s, e) ==
    /\ e \in current[s]
    /\ \/ scan[s] = "loading" /\ Exists(e) /\ json[e].retry >= MaxRetries
       \/ scan[s] \in {"reconciling", "replaying"}
    /\ UNCHANGED sends \/ (scan[s] = "replaying" /\ Accepted(e))
    /\ Release(s)
    /\ todo' = [todo EXCEPT ![s] = IF scan[s] = "loading" /\ s # StartupScan THEN {} ELSE @]
    /\ UNCHANGED <<fileVars, liveVars, scanCopy, crashes, options, history>>

\* A failDelivery that cannot write is ignored.
ScanRecordsFailure(s, e) ==
    /\ e \in current[s]
    /\ scan[s] = "failing"
    /\ Write(e, Retried(scanCopy[s][e])) \/ UNCHANGED json
    /\ Release(s)
    /\ scanCopy' = [scanCopy EXCEPT ![s][e] = NoFile]
    /\ UNCHANGED <<delivered, failed, liveVars, todo, sends, crashes, options, history>>

\* The ack fails: the entry counts as one that could not be sent.
ScanAckFails(s, e) ==
    /\ e \in current[s]
    /\ scan[s] = "acking"
    /\ ScanReadsForFailure(s, e)
    /\ UNCHANGED <<fileVars, liveVars, todo, sends, crashes, options, history>>

ScanAcks(s, e) ==
    /\ e \in current[s]
    /\ ScanStep(s, "acking", "unlinking")
    /\ RenameToDelivered(e)
    /\ UNCHANGED <<failed, claims, liveVars, todo, current, scanCopy, sends, crashes,
                   options, history>>

ScanUnlinks(s, e) ==
    /\ e \in current[s]
    /\ scan[s] = "unlinking"
    /\ delivered' = [delivered EXCEPT ![e] = FALSE]
    /\ Release(s)
    /\ UNCHANGED <<json, failed, liveVars, todo, scanCopy, sends, crashes, options,
                   history>>

\* The time budget is exceeded: failDelivery of all remaining entries, without
\* a claim. Each reads its entry, then writes it.
BudgetExceeded(s) ==
    /\ s = StartupScan
    /\ todo[s] # {}
    /\ ScanStep(s, "picking", "deferring")
    /\ scanCopy' = [scanCopy EXCEPT ![s] = [e \in Entries |->
                        IF e \in todo[s] THEN json[e] ELSE NoFile]]
    /\ UNCHANGED <<fileVars, claims, liveVars, todo, current, sends, crashes, options,
                   history>>

DefersEntry(s, e) ==
    /\ e \in todo[s]
    /\ scan[s] = "deferring"
    /\ todo' = [todo EXCEPT ![s] = @ \ {e}]
    /\ scan' = [scan EXCEPT ![s] = IF todo[s] = {e} THEN "idle" ELSE @]
    /\ \/ UNCHANGED <<json, clobbered>>
       \/ /\ scanCopy[s][e].mark # "absent"
          /\ Write(e, Retried(scanCopy[s][e]))
          /\ clobbered' = clobbered \cup {x \in {e} : json[e] # scanCopy[s][e]}
    /\ scanCopy' = [scanCopy EXCEPT ![s][e] = NoFile]
    /\ UNCHANGED <<delivered, failed, claims, liveVars, current, sends, crashes, options,
                   sentMarked, swallowed, interrupted>>

-----------------------------------------------------------------------------
\* A scan is acking the entry.
BeforeCleanup(e) == \E s \in Scans : e \in current[s] /\ scan[s] \in {"acking", "unlinking"}

\* The process dies and starts again: files and the platform remain.
Crash ==
    /\ crashes < MaxCrashes
    /\ interrupted' = interrupted \cup {e \in Entries : sends[e] = 1 /\ BeforeCleanup(e)}
    /\ crashes' = crashes + 1
    /\ claims' = {}
    /\ live' = [e \in Entries |-> IF live[e] = "none" THEN "none" ELSE "done"]
    /\ liveCopy' = [e \in Entries |-> NoFile]
    /\ scan' = [s \in Scans |-> "idle"]
    /\ todo' = [s \in Scans |-> {}]
    /\ current' = [s \in Scans |-> {}]
    /\ scanCopy' = [s \in Scans |-> [e \in Entries |-> NoFile]]
    /\ UNCHANGED <<fileVars, sends, cancelled, options, sentMarked, swallowed, clobbered>>

LiveNext(e) ==
    \/ EnqueueDelivery(e) \/ LiveClaims(e) \/ LiveReadsForMark(e) \/ LiveMarksStarted(e)
    \/ LiveMarkFails(e) \/ LiveSendSucceeds(e) \/ LiveMarksUnknown(e) \/ LiveUnknownMarkFails(e)
    \/ LiveSendFails(e) \/ LiveRecordsFailure(e) \/ LiveSendCancelled(e)
    \/ LiveAcks(e) \/ LiveAckFails(e) \/ LiveUnlinks(e)

ScanNext(s, e) ==
    \/ ScanPicks(s, e) \/ ScanSkips(s, e) \/ ScanGivesUp(s, e) \/ ScanLoadsEntry(s, e)
    \/ ReconciledSent(s, e) \/ ReconciledNotSent(s, e) \/ ReconcileRefused(s, e)
    \/ ReconcileUnresolved(s, e)
    \/ ReplaySucceeds(s, e) \/ ReplaySuppressed(s, e) \/ ReplaySwallowed(s, e)
    \/ ReplayFails(s, e) \/ ReplayRejected(s, e) \/ ScanMoveFails(s, e)
    \/ ScanRecordsFailure(s, e) \/ ScanAcks(s, e) \/ ScanAckFails(s, e) \/ ScanUnlinks(s, e)
    \/ DefersEntry(s, e)

Next ==
    \/ \E e \in Entries : LiveNext(e)
    \/ \E s \in Scans : ScanLoads(s) \/ ScanEnds(s) \/ BudgetExceeded(s)
    \/ \E s \in Scans, e \in Entries : ScanNext(s, e)
    \/ Crash

Spec == Init /\ [][Next]_vars

-----------------------------------------------------------------------------
(* Properties *)

LiveOwns(e) == live[e] \in LiveSteps \ {"none", "writing", "done"}

\* An entry has one owner at a time: of the live send and the scans, at most one
\* is between its claim and its release, and entriesInProgress says which
\* entries are owned.
OneOwner ==
    \A e \in Entries :
        /\ LiveOwns(e) => \A s \in Scans : e \notin current[s]
        /\ \A s, r \in Scans : e \in current[s] \cap current[r] => s = r
        /\ e \in claims <=> LiveOwns(e) \/ \E s \in Scans : e \in current[s]

\* No message disappears unnoticed: an entry that was enqueued and has no file any
\* more reached the platform, was cancelled (by its sender, by a hook, or because
\* nothing of it was visible), is in failed/, or belongs to a bestEffort send whose
\* replay swallowed its errors: that is the one way to lose a message.
NoSilentLoss ==
    \A e \in Entries :
        live[e] # "none" /\ ~Exists(e) =>
            sends[e] > 0 \/ cancelled[e] \/ failed[e] \/ e \in swallowed

\* What the write-ahead marks are for: once the platform has accepted a live send
\* whose attempt was marked, nobody sends the message again, through crashes, lost
\* replies, failed writes and any number of scans. Only a deferral that wrote an
\* older copy back, the mark undone, can make recovery replay it.
MarkedSendNotReplayed ==
    [][\A e \in sentMarked \ clobbered : sends'[e] = sends[e]]_vars

\* An entry that left the queue, acked or failed, does not come back: no
\* read-modify-write in flight writes its file again, but for the deferrals of a
\* scan out of time, which hold no claim.
NoResurrection ==
    [][\A e \in Entries :
          live[e] # "none" /\ ~Exists(e) => json'[e].mark = "absent" \/ e \in clobbered']_vars

\* A message in failed/ is not also pending, so that nobody sends it behind the
\* operator's back, unless such a deferral wrote it again.
FailedIsFinal == \A e \in Entries : failed[e] => ~Exists(e) \/ e \in clobbered

\* The comment of ackDelivery (delivery-queue-storage.ts:180): "a crash between
\* delivery and cleanup does not cause the message to be replayed on the next recovery
\* scan". A scan replays without a mark, so that until the ack's rename the file looks
\* as if nothing had been sent.
NotReplayedAfterCrash == \A e \in interrupted : sends[e] = 1
=============================================================================
