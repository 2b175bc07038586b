---------------------------- MODULE ExecApproval ----------------------------
(***************************************************************************)
(* Exec approvals: the manager's map of approvals                          *)
(* (src/src/gateway/exec-approval-manager.ts), the gateway methods around  *)
(* it (server-methods/approval-shared.ts and exec-approval.ts) and the     *)
(* gate that lets an approved command through to a node                    *)
(* (node-invoke-system-run-approval.ts).                                   *)
(*                                                                         *)
(* A request is one call of exec.approval.request and also names the map   *)
(* entry that call registers: an id whose entry was cleaned up may be      *)
(* registered again by another request, while calls and timers that knew   *)
(* the old entry are still about. That a caller is bound to the approval   *)
(* it uses (node, device, connection, command) is taken for granted: a     *)
(* mismatch refuses and changes nothing.                                   *)
(***************************************************************************)
EXTENDS Naturals, FiniteSets

CONSTANTS
    Requests,           \* calls of exec.approval.request
    StrictRequests,     \* those whose policy asks every time
    Ids,                \* approval ids
    Prefixes,           \* proper prefixes an operator may type instead of an id
    Matching,           \* the ids that start with a prefix
    Waiters,            \* calls of exec.approval.waitDecision
    Nobody,             \* no request
    MaxRuns             \* bound: runs counted per request

ASSUME ExecApprovalAssumption ==
    /\ StrictRequests \subseteq Requests
    /\ Prefixes \cap Ids = {}
    /\ Matching \in [Prefixes -> SUBSET Ids]
    /\ Nobody \notin Requests
    /\ Requests \cap Waiters = {}
    /\ MaxRuns \in Nat

VARIABLES
    pending,    \* the manager's map
    entry,      \* the entry a request registered
    at,         \* where the request's handler is
    waitsFor,   \* the request whose promise a waiter holds
    heard,      \* the decision a request or a waiter was answered with
    \* history variables
    told,       \* the decisions operators were answered ok for
    runs        \* how often the approval let a command through

vars == <<pending, entry, at, waitsFor, heard, told, runs>>

Decisions == {"allow-once", "allow-always", "deny"}
Answers == Decisions \cup {"null"}

\* A PendingEntry: decision and consumed are the record's fields, promise what the
\* promise was resolved with, timer and cleanup its two timeouts, deadline where
\* now is relative to expiresAtMs.
Entries ==
    [id : Ids, resolved : BOOLEAN,
     decision : Decisions \cup {"none"}, consumed : Decisions \cup {"none"},
     resolvedBy : {"none", "null", "operator", "no-approval-route"},
     promise : Answers \cup {"unsettled"},
     timer : BOOLEAN, cleanup : BOOLEAN, deadline : {"before", "at", "after"}]

NoEntry == [timer |-> FALSE, cleanup |-> FALSE]

\* The types, and that the map, an entry's id and its promise agree.
TypeOK ==
    /\ pending \in [Ids -> Requests \cup {Nobody}]
    /\ \A r \in Requests :
          entry[r] \in Entries \cup {NoEntry}
    /\ at \in [Requests -> {"idle", "delivering", "awaiting", "notifying", "answered",
                            "unrouted", "refused"}]
    /\ waitsFor \in [Waiters -> Requests \cup {Nobody}]
    /\ heard \in [Requests \cup Waiters -> Answers \cup {"none"}]
    /\ told \in [Requests -> SUBSET Decisions]
    /\ runs \in [Requests -> 0..MaxRuns]
    /\ \A i \in Ids : pending[i] # Nobody => entry[pending[i]].id = i
    /\ \A r \in Requests :
          at[r] \notin {"idle", "refused"} =>
              (entry[r].resolved <=> entry[r].promise # "unsettled")

Init ==
    /\ pending = [i \in Ids |-> Nobody]
    /\ entry = [r \in Requests |-> NoEntry]
    /\ at = [r \in Requests |-> "idle"]
    /\ waitsFor = [w \in Waiters |-> Nobody]
    /\ heard = [c \in Requests \cup Waiters |-> "none"]
    /\ told = [r \in Requests |-> {}]
    /\ runs = [r \in Requests |-> 0]

-----------------------------------------------------------------------------
(* ExecApprovalManager *)

\* create and register.
NewEntry(i) ==
    [id |-> i, resolved |-> FALSE, decision |-> "none", consumed |-> "none",
     resolvedBy |-> "none", promise |-> "unsettled",
     timer |-> TRUE, cleanup |-> FALSE, deadline |-> "before"]

\* Mutant of Decided: the timer is not cleared.
DecidedTimerRunning(e, decision) ==
    [e EXCEPT !.resolved = TRUE, !.decision = decision, !.resolvedBy = "operator",
              !.promise = IF @ = "unsettled" THEN decision ELSE @, !.cleanup = TRUE]

\* resolve, on an entry that is not resolved. An operator's client has a name, so
\* resolvedBy is not null. A promise settles once.
Decided(e, decision) ==
    [e EXCEPT !.resolved = TRUE, !.decision = decision, !.resolvedBy = "operator",
              !.promise = IF @ = "unsettled" THEN decision ELSE @,
              !.timer = FALSE, !.cleanup = TRUE]

\* Mutants of Expired: the promise is left unresolved; the entry is never removed.
ExpiredUnanswered(e, by) ==
    IF e.resolved THEN e
    ELSE [e EXCEPT !.resolved = TRUE, !.decision = "none", !.resolvedBy = by,
                   !.timer = FALSE, !.cleanup = TRUE]

ExpiredKept(e, by) ==
    IF e.resolved THEN e
    ELSE [e EXCEPT !.resolved = TRUE, !.decision = "none", !.resolvedBy = by,
                   !.promise = IF @ = "unsettled" THEN "null" ELSE @, !.timer = FALSE]

\* expire, which does nothing to an entry that is resolved.
Expired(e, by) ==
    IF e.resolved THEN e
    ELSE [e EXCEPT !.resolved = TRUE, !.decision = "none", !.resolvedBy = by,
                   !.promise = IF @ = "unsettled" THEN "null" ELSE @,
                   !.timer = FALSE, !.cleanup = TRUE]

\* expire(id): the entry is looked up when the call is made.
ExpireId(entries, i, by) ==
    IF pending[i] = Nobody THEN entries
    ELSE [entries EXCEPT ![pending[i]] = Expired(@, by)]

\* The timeout of an entry, which knows only the id.
ExpiryTimerFires(r) ==
    /\ entry[r].timer
    /\ entry[r].deadline # "before"
    /\ entry' = ExpireId([entry EXCEPT ![r].timer = FALSE], entry[r].id, "null")
    /\ UNCHANGED <<pending, at, waitsFor, heard, told, runs>>

\* RESOLVED_ENTRY_GRACE_MS after an entry was resolved.
CleanupFires(r) ==
    /\ entry[r].cleanup
    /\ entry' = [entry EXCEPT ![r].cleanup = FALSE]
    /\ pending' = [i \in Ids |-> IF pending[i] = r THEN Nobody ELSE pending[i]]
    /\ UNCHANGED <<at, waitsFor, heard, told, runs>>

DeadlineNears(r) ==
    /\ at[r] \notin {"idle", "refused"}
    /\ entry[r].deadline # "after"
    /\ entry' = [entry EXCEPT ![r].deadline = IF @ = "before" THEN "at" ELSE "after"]
    /\ UNCHANGED <<pending, at, waitsFor, heard, told, runs>>

\* lookupApprovalId: an id, or a prefix that only one of the entries considered
\* has. Without includeResolved a resolved entry is not found.
Lookup(input, includeResolved) ==
    LET found == {i \in Ids :
                    /\ pending[i] # Nobody
                    /\ includeResolved \/ ~entry[pending[i]].resolved}
    IN  IF input \in Ids THEN {input} \cap found
        ELSE IF Cardinality(Matching[input] \cap found) = 1
        THEN Matching[input] \cap found ELSE {}

-----------------------------------------------------------------------------
(* exec.approval.request *)

\* The id is taken, by an approval that is pending or in its grace period.
RequestRefused(r, i) ==
    /\ at[r] = "idle"
    /\ pending[i] # Nobody
    /\ at' = [at EXCEPT ![r] = "refused"]
    /\ UNCHANGED <<pending, entry, waitsFor, heard, told, runs>>

\* The entry is registered and announced; its delivery to channels and phones is
\* awaited.
RequestApproval(r, i) ==
    /\ at[r] = "idle"
    /\ pending[i] = Nobody
    /\ entry' = [entry EXCEPT ![r] = NewEntry(i)]
    /\ pending' = [pending EXCEPT ![i] = r]
    /\ at' = [at EXCEPT ![r] = "delivering"]
    /\ UNCHANGED <<waitsFor, heard, told, runs>>

\* Somebody can be reached, if only over the route the turn came from.
DeliverySettles(r) ==
    /\ at[r] = "delivering"
    /\ at' = [at EXCEPT ![r] = "awaiting"]
    /\ UNCHANGED <<pending, entry, waitsFor, heard, told, runs>>

\* Nobody can: whatever has the id now is expired and the answer is null.
NoApprovalRoute(r) ==
    /\ at[r] = "delivering"
    /\ entry' = ExpireId(entry, entry[r].id, "no-approval-route")
    /\ at' = [at EXCEPT ![r] = "unrouted"]
    /\ heard' = [heard EXCEPT ![r] = "null"]
    /\ UNCHANGED <<pending, waitsFor, told, runs>>

\* The promise settles. A decision is answered at once; after an expiry the phones
\* are told first (afterDecision), and their delivery is awaited.
AnswerRequest(r) ==
    /\ at[r] = "awaiting"
    /\ entry[r].promise # "unsettled"
    /\ IF entry[r].promise = "null"
       THEN /\ at' = [at EXCEPT ![r] = "notifying"]
            /\ UNCHANGED heard
       ELSE /\ at' = [at EXCEPT ![r] = "answered"]
            /\ heard' = [heard EXCEPT ![r] = entry[r].promise]
    /\ UNCHANGED <<pending, entry, waitsFor, told, runs>>

\* handleExpired is through or failed: the answer is the null of before.
ExpiryPushed(r) ==
    /\ at[r] = "notifying"
    /\ at' = [at EXCEPT ![r] = "answered"]
    /\ heard' = [heard EXCEPT ![r] = "null"]
    /\ UNCHANGED <<pending, entry, waitsFor, told, runs>>

-----------------------------------------------------------------------------
(* exec.approval.waitDecision *)

WaitDecision(w, i) ==
    /\ waitsFor[w] = Nobody
    /\ pending[i] # Nobody
    /\ waitsFor' = [waitsFor EXCEPT ![w] = pending[i]]
    /\ UNCHANGED <<pending, entry, at, heard, told, runs>>

AnswerWaiter(w) ==
    /\ waitsFor[w] # Nobody
    /\ heard[w] = "none"
    /\ entry[waitsFor[w]].promise # "unsettled"
    /\ heard' = [heard EXCEPT ![w] = entry[waitsFor[w]].promise]
    /\ UNCHANGED <<pending, entry, at, waitsFor, told, runs>>

-----------------------------------------------------------------------------
(* exec.approval.resolve *)

AllowedDecisions(r) == IF r \in StrictRequests THEN Decisions \ {"allow-always"} ELSE Decisions

\* Mutant of MayDecide: an entry in its grace period is decided again.
MayDecideAgain(input) == Lookup(input, TRUE)

\* resolvePendingApprovalRecord.
MayDecide(input) == Lookup(input, FALSE)

\* The decision is recorded, announced and answered with ok.
Resolve(input, decision) ==
    /\ \E i \in MayDecide(input) :
          LET r == pending[i]
          IN  /\ decision \in AllowedDecisions(r)
              /\ entry' = [entry EXCEPT ![r] = Decided(@, decision)]
              /\ told' = [told EXCEPT ![r] = @ \cup {decision}]
    /\ UNCHANGED <<pending, at, waitsFor, heard, runs>>

\* resolveRecordedApprovalDecision.
RecordedDecision(e) == IF e.decision = "none" THEN e.consumed ELSE e.decision

\* Nothing is pending under the input: the decision that was recorded is answered
\* with ok once more, any other call fails and changes nothing.
ResolveRepeated(input, decision) ==
    /\ MayDecide(input) = {}
    /\ \E i \in Lookup(input, TRUE) :
          LET r == pending[i]
          IN  /\ entry[r].resolved
              /\ RecordedDecision(entry[r]) = decision
              /\ told' = [told EXCEPT ![r] = @ \cup {decision}]
    /\ UNCHANGED <<pending, entry, at, waitsFor, heard, runs>>

-----------------------------------------------------------------------------
(* sanitizeSystemRunParamsForForwarding: node.invoke of system.run with an id *)

\* Mutant of TimedOut: who resolved it is not looked at.
TimedOutByAnyone(e) == e.resolved /\ e.decision = "none"

TimedOut(e) == e.resolved /\ e.decision = "none" /\ e.resolvedBy = "null"

\* The command goes through: on an allow-once, which is used up; on an
\* allow-always; or, for a client with the approvals scope, as the fallback of a
\* request that timed out.
Invoke(i) ==
    LET r == pending[i]
    IN  /\ r # Nobody
        /\ runs[r] < MaxRuns
        /\ entry[r].deadline # "after"
        /\ \/ /\ entry[r].decision = "allow-once"
              /\ entry' = [entry EXCEPT ![r].consumed = "allow-once", ![r].decision = "none"]
           \/ /\ entry[r].decision = "allow-always" \/ TimedOut(entry[r])
              /\ UNCHANGED entry
        /\ runs' = [runs EXCEPT ![r] = @ + 1]
        /\ UNCHANGED <<pending, at, waitsFor, heard, told>>

-----------------------------------------------------------------------------

Next ==
    \/ \E r \in Requests :
          \/ \E i \in Ids : RequestRefused(r, i) \/ RequestApproval(r, i)
          \/ DeliverySettles(r) \/ NoApprovalRoute(r)
          \/ AnswerRequest(r) \/ ExpiryPushed(r)
          \/ ExpiryTimerFires(r) \/ CleanupFires(r) \/ DeadlineNears(r)
    \/ \E w \in Waiters :
          \/ \E i \in Ids : WaitDecision(w, i)
          \/ AnswerWaiter(w)
    \/ \E input \in Ids \cup Prefixes, d \in Decisions :
          Resolve(input, d) \/ ResolveRepeated(input, d)
    \/ \E i \in Ids : Invoke(i)

Spec == Init /\ [][Next]_vars

\* Time passes, timers fire and promises are delivered. A delivery may hang, of a
\* request or of its expiry, and nobody need ever decide.
Fairness ==
    /\ \A r \in Requests :
          /\ WF_vars(DeadlineNears(r))
          /\ WF_vars(ExpiryTimerFires(r))
          /\ WF_vars(CleanupFires(r))
          /\ WF_vars(AnswerRequest(r))
    /\ \A w \in Waiters : WF_vars(AnswerWaiter(w))

FairSpec == Spec /\ Fairness

-----------------------------------------------------------------------------
(* Properties *)

\* A command goes through only on its approval: once on an allow-once, even while
\* the entry stays in its grace period, never before a decision, on a denial or
\* where no operator could be reached; and without a decision only as the fallback
\* of an approval that timed out.
RunsAuthorised ==
    \A r \in Requests :
        runs[r] > 0 =>
            CASE entry[r].promise = "allow-once" -> runs[r] = 1
              [] entry[r].promise = "allow-always" -> r \notin StrictRequests
              [] entry[r].promise = "null" -> entry[r].resolvedBy = "null"
              [] OTHER -> FALSE

\* Operators that race or repeat themselves are told ok for one decision only, and
\* it is the one the requester and everyone who waits hears. A request that found
\* no route is answered null without a look at what was decided meanwhile.
OneDecision ==
    \A r \in Requests :
        /\ Cardinality(told[r]) <= 1
        /\ heard[r] # "none" /\ told[r] # {} => heard[r] \in told[r] \/ at[r] = "unrouted"
        /\ \A w \in Waiters :
              waitsFor[w] = r /\ heard[w] # "none" /\ told[r] # {} => heard[w] \in told[r]

\* An approval times out at its own deadline and not at that of an earlier approval
\* with its id.
TimesOutAtOwnDeadline ==
    \A r \in Requests :
        at[r] \notin {"idle", "refused"} /\ entry[r].resolvedBy = "null"
            => entry[r].deadline # "before"

\* When no more requests come, everybody who waits for a decision gets it and every
\* id is free again, with no operator at all and though deliveries hang. Only a
\* requester whose approval expired may be kept from its answer, by the push that
\* tells the phones.
ApprovalsSettle ==
    <>[](/\ \A r \in Requests : at[r] # "awaiting"
         /\ \A i \in Ids : pending[i] = Nobody
         /\ \A w \in Waiters : waitsFor[w] # Nobody => heard[w] # "none")
=============================================================================
