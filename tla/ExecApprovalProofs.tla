------------------------ MODULE ExecApprovalProofs ------------------------
(***************************************************************************)
(* Proofs about exec approvals, for any requests, policies, ids, prefixes, *)
(* waiters and number of runs.                                             *)
(***************************************************************************)
EXTENDS ExecApproval, FiniteSetTheorems, TLAPS

Registered(r) == at[r] \notin {"idle", "refused"}

-----------------------------------------------------------------------------
(* The inductive invariant. *)

\* What can be recorded of an approval of request r that let n commands through: it
\* is pending, it timed out, no route was found, or an operator decided.
Pending(e, n) ==
    /\ ~e.resolved /\ e.timer /\ ~e.cleanup
    /\ e.decision = "none" /\ e.consumed = "none"
    /\ e.promise = "unsettled" /\ e.resolvedBy = "none"
    /\ n = 0

Unanswered(e, n) ==
    /\ e.resolved /\ ~e.timer
    /\ e.decision = "none" /\ e.consumed = "none"
    /\ e.promise = "null"
    /\ \/ e.resolvedBy = "null" /\ e.deadline # "before"
       \/ e.resolvedBy = "no-approval-route" /\ n = 0

DecidedOnce(r, e, n) ==
    /\ e.resolved /\ ~e.timer
    /\ e.resolvedBy = "operator"
    /\ \/ e.promise = "deny" /\ e.decision = "deny" /\ e.consumed = "none" /\ n = 0
       \/ /\ e.promise = "allow-always" /\ e.decision = "allow-always" /\ e.consumed = "none"
          /\ r \notin StrictRequests
       \/ e.promise = "allow-once" /\ e.decision = "allow-once" /\ e.consumed = "none" /\ n = 0
       \/ e.promise = "allow-once" /\ e.decision = "none" /\ e.consumed = "allow-once" /\ n = 1

Recorded(r, e, n) == Pending(e, n) \/ Unanswered(e, n) \/ DecidedOnce(r, e, n)

\* The map holds registered entries under their ids, and every entry that is still
\* pending: a timer that is armed finds its own entry.
MapInv ==
    /\ pending \in [Ids -> Requests \cup {Nobody}]
    /\ \A i \in Ids : pending[i] # Nobody => Registered(pending[i]) /\ entry[pending[i]].id = i
    /\ \A r \in Requests : Registered(r) /\ ~entry[r].resolved => pending[entry[r].id] = r

\* An entry exists when its request is registered, and its record is consistent.
EntryInv ==
    /\ entry \in [Requests -> Entries \cup {NoEntry}]
    /\ at \in [Requests -> {"idle", "delivering", "awaiting", "notifying", "answered",
                            "unrouted", "refused"}]
    /\ runs \in [Requests -> 0..MaxRuns]
    /\ \A r \in Requests :
          IF Registered(r) THEN entry[r] \in Entries /\ Recorded(r, entry[r], runs[r])
          ELSE entry[r] = NoEntry /\ runs[r] = 0

\* Operators are told what the promise was resolved with.
ToldInv ==
    /\ told \in [Requests -> SUBSET Decisions]
    /\ \A r \in Requests :
          told[r] # {} => Registered(r) /\ told[r] = {entry[r].promise}

\* And so are the requester, unless no route was found, and those who wait.
HeardInv ==
    /\ waitsFor \in [Waiters -> Requests \cup {Nobody}]
    /\ heard \in [Requests \cup Waiters -> Answers \cup {"none"}]
    /\ \A r \in Requests :
          heard[r] # "none" =>
              \/ at[r] = "unrouted"
              \/ at[r] = "answered" /\ heard[r] = entry[r].promise
    /\ \A r \in Requests : at[r] = "notifying" => entry[r].promise = "null"
    /\ \A w \in Waiters :
          /\ waitsFor[w] # Nobody => Registered(waitsFor[w])
          /\ heard[w] # "none" => /\ waitsFor[w] # Nobody
                                  /\ heard[w] = entry[waitsFor[w]].promise

IInv == MapInv /\ EntryInv /\ ToldInv /\ HeardInv

-----------------------------------------------------------------------------
(* What the records of the manager become. *)

\* The fields of an entry.
LEMMA EntryFields ==
    ASSUME NEW e \in Entries
    PROVE  /\ e.id \in Ids /\ e.resolved \in BOOLEAN /\ e.timer \in BOOLEAN
           /\ e.cleanup \in BOOLEAN
           /\ e.decision \in Decisions \cup {"none"} /\ e.consumed \in Decisions \cup {"none"}
           /\ e.resolvedBy \in {"none", "null", "operator", "no-approval-route"}
           /\ e.promise \in Answers \cup {"unsettled"}
           /\ e.deadline \in {"before", "at", "after"}
BY DEF Entries

\* expire, with the timer that calls it already off or still running.
LEMMA ExpiredEntry ==
    ASSUME NEW e \in Entries, ~e.resolved, NEW by \in {"null", "no-approval-route"}
    PROVE  /\ Expired(e, by) \in Entries
           /\ Expired(e, by).id = e.id
           /\ Expired(e, by).deadline = e.deadline
           /\ Expired(e, by).consumed = e.consumed
           /\ Expired(e, by).resolved /\ ~Expired(e, by).timer
           /\ Expired(e, by).decision = "none"
           /\ Expired(e, by).resolvedBy = by
           /\ Expired(e, by).promise = IF e.promise = "unsettled" THEN "null" ELSE e.promise
BY ZenonT(40) DEF Expired, Entries, Answers

\* resolve.
LEMMA DecidedEntry ==
    ASSUME NEW e \in Entries, NEW d \in Decisions
    PROVE  /\ Decided(e, d) \in Entries
           /\ Decided(e, d).id = e.id
           /\ Decided(e, d).consumed = e.consumed
           /\ Decided(e, d).resolved /\ ~Decided(e, d).timer
           /\ Decided(e, d).decision = d
           /\ Decided(e, d).resolvedBy = "operator"
           /\ Decided(e, d).promise = IF e.promise = "unsettled" THEN d ELSE e.promise
BY ZenonT(40) DEF Decided, Entries, Decisions, Answers

-----------------------------------------------------------------------------
(* Steps that change the record of one approval, or nobody's answer. *)

\* No approval is forgotten and no promise settles twice.
KeepsAnswers ==
    \A r \in Requests : Registered(r) =>
        /\ Registered(r)'
        /\ entry[r].promise # "unsettled" => entry'[r].promise = entry[r].promise

\* The record of request k becomes e.
LEMMA UpdateEntry ==
    ASSUME MapInv, EntryInv, NEW k \in Requests, Registered(k),
           NEW e \in Entries, e.id = entry[k].id,
           entry' = [entry EXCEPT ![k] = e],
           NEW n \in 0..MaxRuns, runs' = [runs EXCEPT ![k] = n],
           Recorded(k, e, n),
           entry[k].resolved => e.resolved,
           entry[k].promise # "unsettled" => e.promise = entry[k].promise,
           pending' = pending, at' = at
    PROVE  MapInv' /\ EntryInv' /\ KeepsAnswers
<1>1. /\ entry'[k] = e /\ runs'[k] = n
      /\ \A r \in Requests \ {k} : entry'[r] = entry[r] /\ runs'[r] = runs[r]
      /\ entry' \in [Requests -> Entries \cup {NoEntry}] /\ runs' \in [Requests -> 0..MaxRuns]
  BY DEF EntryInv
<1>2. \A r \in Requests : Registered(r)' <=> Registered(r)
  BY DEF Registered
<1>3. EntryInv'
  BY <1>1, <1>2 DEF EntryInv
<1>4. KeepsAnswers
  BY <1>1, <1>2 DEF KeepsAnswers
<1>5. \A r \in Requests : Registered(r) =>
         /\ entry'[r].id = entry[r].id
         /\ ~entry'[r].resolved => ~entry[r].resolved
  BY <1>1
<1>6. \A i \in Ids : pending[i] # Nobody => pending[i] \in Requests
  BY DEF MapInv
<1>7. MapInv'
  BY <1>2, <1>5, <1>6 DEF MapInv
<1> QED
  BY <1>3, <1>4, <1>7

\* Nobody is answered anything.
LEMMA AnswersKept ==
    ASSUME HeardInv, KeepsAnswers,
           UNCHANGED <<waitsFor, heard>>,
           \A r \in Requests : at[r] \in {"answered", "unrouted"} \/ at'[r] = "notifying" =>
                               at'[r] = at[r]
    PROVE  HeardInv'
<1>1. \A c \in Requests \cup Waiters : heard[c] # "unsettled"
  BY DEF HeardInv, Answers, Decisions
<1>2. \A r \in Requests : heard[r] # "none" =>
         \/ at'[r] = "unrouted"
         \/ at'[r] = "answered" /\ heard[r] = entry'[r].promise
  <2> TAKE r \in Requests
  <2>1. at[r] = "answered" => Registered(r)
    BY DEF Registered
  <2> QED
    BY <1>1, <2>1 DEF HeardInv, KeepsAnswers
<1>3. \A w \in Waiters :
         /\ waitsFor[w] # Nobody => Registered(waitsFor[w])'
         /\ heard[w] # "none" => heard[w] = entry'[waitsFor[w]].promise
  <2> TAKE w \in Waiters
  <2>1. waitsFor[w] # Nobody => waitsFor[w] \in Requests /\ Registered(waitsFor[w])
    BY DEF HeardInv
  <2> QED
    BY <1>1, <2>1 DEF HeardInv, KeepsAnswers
<1>4. \A r \in Requests : at'[r] = "notifying" => entry'[r].promise = "null"
  BY DEF HeardInv, KeepsAnswers, Registered
<1> QED
  BY <1>2, <1>3, <1>4 DEF HeardInv, Registered

\* Nor told.
LEMMA QuietForAnswers ==
    ASSUME ToldInv, HeardInv, KeepsAnswers,
           UNCHANGED <<waitsFor, heard, told>>,
           \A r \in Requests : at[r] \in {"answered", "unrouted"} \/ at'[r] = "notifying" =>
                               at'[r] = at[r]
    PROVE  ToldInv' /\ HeardInv'
<1>1. \A r \in Requests : told[r] # {} => entry[r].promise # "unsettled"
  BY DEF ToldInv, Decisions
<1>2. ToldInv'
  BY <1>1 DEF ToldInv, KeepsAnswers
<1> QED
  BY <1>2, AnswersKept

-----------------------------------------------------------------------------
(* Every action preserves the invariant. *)

\* A record is replaced and nobody is told or answered anything.
LEMMA QuietUpdate ==
    ASSUME IInv, NEW k \in Requests, Registered(k),
           NEW e \in Entries, e.id = entry[k].id,
           entry' = [entry EXCEPT ![k] = e],
           NEW n \in 0..MaxRuns, runs' = [runs EXCEPT ![k] = n],
           Recorded(k, e, n),
           entry[k].resolved => e.resolved,
           entry[k].promise # "unsettled" => e.promise = entry[k].promise,
           UNCHANGED <<pending, at, waitsFor, heard, told>>
    PROVE  IInv'
<1>1. MapInv' /\ EntryInv' /\ KeepsAnswers
  BY UpdateEntry DEF IInv
<1>2. ToldInv' /\ HeardInv'
  BY <1>1, QuietForAnswers DEF IInv
<1> QED
  BY <1>1, <1>2 DEF IInv

\* Only where a request's handler is, and what it answers, changes.
LEMMA HandlerMoves ==
    ASSUME IInv, NEW k \in Requests, NEW from, NEW to,
           at[k] = from, at' = [at EXCEPT ![k] = to],
           \/ /\ from = "idle" /\ to = "refused"
              /\ heard' = heard
           \/ /\ from = "delivering" /\ to = "awaiting"
              /\ heard' = heard
           \/ /\ from = "awaiting" /\ to = "notifying"
              /\ entry[k].promise = "null" /\ heard' = heard
           \/ /\ from \in {"awaiting", "notifying"} /\ to = "answered"
              /\ entry[k].promise # "unsettled"
              /\ heard' = [heard EXCEPT ![k] = entry[k].promise],
           UNCHANGED <<pending, entry, waitsFor, told, runs>>
    PROVE  IInv'
<1>1. /\ at'[k] = to /\ \A r \in Requests \ {k} : at'[r] = at[r]
      /\ at' \in [Requests -> {"idle", "delivering", "awaiting", "notifying", "answered",
                               "unrouted", "refused"}]
  BY DEF IInv, EntryInv
<1>2. \A r \in Requests : Registered(r)' <=> Registered(r)
  BY <1>1 DEF Registered
<1>3. MapInv'
  <2>1. \A i \in Ids : pending[i] # Nobody => pending[i] \in Requests
    BY DEF IInv, MapInv
  <2> QED
    BY <1>2, <2>1 DEF IInv, MapInv
<1>4. EntryInv'
  BY <1>1, <1>2 DEF IInv, EntryInv
<1>5. ToldInv'
  BY <1>2 DEF IInv, ToldInv
<1>6. HeardInv'
  <2>0. k \notin Waiters
    BY ExecApprovalAssumption
  <2>1. /\ heard' \in [Requests \cup Waiters -> Answers \cup {"none"}]
        /\ \A c \in (Requests \cup Waiters) \ {k} : heard'[c] = heard[c]
    <3>1. CASE to = "answered"
      <4>1. entry[k] \in Entries
        BY <3>1 DEF IInv, EntryInv, Registered
      <4>2. entry[k].promise \in Answers \cup {"unsettled"}
        BY <4>1, EntryFields
      <4>3. heard' = [heard EXCEPT ![k] = entry[k].promise] /\ entry[k].promise \in Answers
        BY <3>1, <4>2
      <4> QED
        BY <4>3 DEF IInv, HeardInv
    <3>2. CASE to # "answered"
      BY <3>2 DEF IInv, HeardInv
    <3> QED
      BY <3>1, <3>2
  <2>2. heard'[k] # "none" => at'[k] = "answered" /\ heard'[k] = entry[k].promise
    BY <1>1 DEF IInv, HeardInv
  <2>3. \A w \in Waiters : waitsFor[w] # Nobody => Registered(waitsFor[w])'
    BY <1>2 DEF IInv, HeardInv
  <2>4. \A r \in Requests : heard'[r] # "none" =>
           \/ at'[r] = "unrouted"
           \/ at'[r] = "answered" /\ heard'[r] = entry[r].promise
    BY <1>1, <2>1, <2>2 DEF IInv, HeardInv
  <2>5. \A w \in Waiters : heard'[w] # "none" => /\ waitsFor[w] # Nobody
                                                 /\ heard'[w] = entry[waitsFor[w]].promise
    BY <2>0, <2>1 DEF IInv, HeardInv
  <2>6. \A r \in Requests : at'[r] = "notifying" => entry[r].promise = "null"
    BY <1>1 DEF IInv, HeardInv
  <2> QED
    BY <2>1, <2>3, <2>4, <2>5, <2>6 DEF IInv, HeardInv
<1> QED
  BY <1>3, <1>4, <1>5, <1>6 DEF IInv

\* register: a fresh entry under an id that is free.
LEMMA RequestPreserves ==
    ASSUME IInv, NEW r \in Requests, NEW i \in Ids, RequestApproval(r, i)
    PROVE  IInv'
<1> DEFINE e == NewEntry(i)
<1>1. /\ at[r] = "idle" /\ pending[i] = Nobody
      /\ entry' = [entry EXCEPT ![r] = e] /\ pending' = [pending EXCEPT ![i] = r]
      /\ at' = [at EXCEPT ![r] = "delivering"]
      /\ UNCHANGED <<waitsFor, heard, told, runs>>
      /\ r # Nobody
  BY ExecApprovalAssumption DEF RequestApproval
<1>2. /\ e \in Entries /\ e.id = i /\ Pending(e, 0) /\ ~e.resolved
  BY DEF NewEntry, Entries, Pending
<1> HIDE DEF e
<1>3. /\ entry'[r] = e /\ \A q \in Requests \ {r} : entry'[q] = entry[q]
      /\ at'[r] = "delivering" /\ \A q \in Requests \ {r} : at'[q] = at[q]
      /\ pending'[i] = r /\ \A j \in Ids \ {i} : pending'[j] = pending[j]
      /\ entry' \in [Requests -> Entries \cup {NoEntry}]
      /\ at' \in [Requests -> {"idle", "delivering", "awaiting", "notifying", "answered",
                               "unrouted", "refused"}]
      /\ pending' \in [Ids -> Requests \cup {Nobody}]
  BY <1>1, <1>2 DEF IInv, EntryInv, MapInv
<1>4. /\ ~Registered(r) /\ Registered(r)'
      /\ \A q \in Requests \ {r} : Registered(q)' <=> Registered(q)
  BY <1>1, <1>3 DEF Registered
<1>5. MapInv'
  <2>1. \A j \in Ids : pending'[j] # Nobody => Registered(pending[j])' /\ entry'[pending'[j]].id = j
    <3>1. \A j \in Ids \ {i} : pending[j] # Nobody =>
             /\ pending[j] \in Requests \ {r} /\ Registered(pending[j])
             /\ entry[pending[j]].id = j
      BY <1>4 DEF IInv, MapInv
    <3>2. ASSUME NEW j \in Ids \ {i}, pending'[j] # Nobody
          PROVE  Registered(pending[j])' /\ entry'[pending'[j]].id = j
      BY <1>3, <1>4, <3>1, <3>2 DEF Registered
    <3>3. Registered(pending[i])' /\ entry'[pending'[i]].id = i
      BY <1>2, <1>3, <1>4 DEF Registered
    <3> QED
      BY <3>2, <3>3
  <2>2. \A q \in Requests : Registered(q)' /\ ~entry'[q].resolved => pending'[entry'[q].id] = q
    <3>1. ASSUME NEW q \in Requests \ {r}, Registered(q)', ~entry'[q].resolved
          PROVE  pending'[entry'[q].id] = q
      <4>1. pending[entry[q].id] = q /\ entry[q].id \in Ids
        BY <1>3, <1>4, <3>1, EntryFields DEF IInv, MapInv, EntryInv
      <4>2. q # Nobody
        BY ExecApprovalAssumption
      <4> QED
        BY <1>1, <1>3, <3>1, <4>1, <4>2
    <3> QED
      BY <1>2, <1>3, <3>1
  <2> QED
    BY <1>3, <2>1, <2>2 DEF MapInv
<1>6. EntryInv'
  <2>1. runs[r] = 0
    BY <1>4 DEF IInv, EntryInv
  <2>2. Recorded(r, e, runs[r])
    BY <1>2, <2>1 DEF Recorded
  <2> QED
    BY <1>1, <1>2, <1>3, <1>4, <2>2 DEF IInv, EntryInv
<1>7. KeepsAnswers
  BY <1>3, <1>4 DEF KeepsAnswers
<1>8. ToldInv' /\ HeardInv'
  BY <1>1, <1>3, <1>7, QuietForAnswers DEF IInv
<1> QED
  BY <1>5, <1>6, <1>8 DEF IInv

\* A registered request has a well-formed record.
LEMMA RegisteredEntry ==
    ASSUME EntryInv, NEW r \in Requests, Registered(r)
    PROVE  /\ entry[r] \in Entries /\ Recorded(r, entry[r], runs[r])
           /\ runs[r] \in 0..MaxRuns
           /\ runs = [runs EXCEPT ![r] = runs[r]]
BY DEF EntryInv

\* What the map holds is a registered request.
LEMMA MappedEntry ==
    ASSUME MapInv, NEW i \in Ids, pending[i] # Nobody
    PROVE  pending[i] \in Requests /\ Registered(pending[i]) /\ entry[pending[i]].id = i
BY DEF MapInv

\* The timeout expires the entry it was set for: an armed timer's id still leads to
\* its own entry.
LEMMA ExpiryPreserves ==
    ASSUME IInv, NEW r \in Requests, ExpiryTimerFires(r)
    PROVE  IInv'
<1> DEFINE off == [entry[r] EXCEPT !.timer = FALSE]
           e == Expired(off, "null")
<1>1. /\ entry[r].timer /\ entry[r].deadline # "before"
      /\ entry' = ExpireId([entry EXCEPT ![r].timer = FALSE], entry[r].id, "null")
      /\ UNCHANGED <<pending, at, waitsFor, heard, told, runs>>
  BY DEF ExpiryTimerFires
<1>2. Registered(r)
  BY <1>1 DEF IInv, EntryInv, NoEntry
<1>3. entry[r] \in Entries /\ Recorded(r, entry[r], runs[r]) /\ runs[r] \in 0..MaxRuns
      /\ runs' = [runs EXCEPT ![r] = runs[r]]
  BY <1>1, <1>2, RegisteredEntry DEF IInv
<1>4. Pending(entry[r], runs[r])
  BY <1>1, <1>3 DEF Recorded, Pending, Unanswered, DecidedOnce
<1>5. pending[entry[r].id] = r /\ r # Nobody
  BY <1>2, <1>4, ExecApprovalAssumption DEF IInv, MapInv, Pending
<1>6. /\ off \in Entries /\ ~off.resolved /\ off.id = entry[r].id
      /\ off.deadline = entry[r].deadline /\ off.consumed = "none"
      /\ off.promise = "unsettled"
  BY <1>3, <1>4 DEF Entries, Pending
<1>7. [entry EXCEPT ![r].timer = FALSE] = [entry EXCEPT ![r] = off]
  OBVIOUS
<1> HIDE DEF off
<1>8. [entry EXCEPT ![r] = off][r] = off /\ entry \in [Requests -> Entries \cup {NoEntry}]
  BY DEF IInv, EntryInv
<1>9. entry' = [entry EXCEPT ![r] = e]
  BY <1>1, <1>5, <1>7, <1>8 DEF ExpireId
<1>10. /\ e \in Entries /\ e.id = entry[r].id /\ e.resolved
       /\ Unanswered(e, runs[r])
  BY <1>1, <1>4, <1>6, ExpiredEntry DEF Unanswered, Pending
<1>11. /\ Recorded(r, e, runs[r])
       /\ entry[r].promise # "unsettled" => e.promise = entry[r].promise
  BY <1>4, <1>10 DEF Recorded, Pending
<1> HIDE DEF e
<1> QED
  BY <1>1, <1>2, <1>3, <1>9, <1>10, <1>11, QuietUpdate

\* Time passes for an entry; the deadline is not taken back.
LEMMA DeadlinePreserves ==
    ASSUME IInv, NEW r \in Requests, DeadlineNears(r)
    PROVE  IInv'
<1> DEFINE e == [entry[r] EXCEPT !.deadline = IF @ = "before" THEN "at" ELSE "after"]
<1>1. /\ Registered(r)
      /\ entry' = [entry EXCEPT ![r] = e]
      /\ UNCHANGED <<pending, at, waitsFor, heard, told, runs>>
  BY DEF DeadlineNears, Registered
<1>2. entry[r] \in Entries /\ Recorded(r, entry[r], runs[r]) /\ runs[r] \in 0..MaxRuns
      /\ runs' = [runs EXCEPT ![r] = runs[r]]
  BY <1>1, RegisteredEntry DEF IInv
<1>3. /\ e \in Entries /\ e.id = entry[r].id /\ e.resolved = entry[r].resolved
      /\ e.promise = entry[r].promise
      /\ Recorded(r, e, runs[r])
  BY <1>2 DEF Entries, Recorded, Pending, Unanswered, DecidedOnce
<1> HIDE DEF e
<1> QED
  BY <1>1, <1>2, <1>3, QuietUpdate

\* The grace period is over: the entry leaves the map if the map still holds it.
LEMMA CleanupPreserves ==
    ASSUME IInv, NEW r \in Requests, CleanupFires(r)
    PROVE  IInv'
<1> DEFINE e == [entry[r] EXCEPT !.cleanup = FALSE]
<1>1. /\ entry[r].cleanup
      /\ entry' = [entry EXCEPT ![r] = e]
      /\ pending' = [i \in Ids |-> IF pending[i] = r THEN Nobody ELSE pending[i]]
      /\ UNCHANGED <<at, waitsFor, heard, told, runs>>
  BY DEF CleanupFires
<1>2. Registered(r)
  BY <1>1 DEF IInv, EntryInv, NoEntry
<1>3. entry[r] \in Entries /\ Recorded(r, entry[r], runs[r])
  BY <1>2, RegisteredEntry DEF IInv
<1>4. entry[r].resolved
  BY <1>1, <1>3 DEF Recorded, Pending, Unanswered, DecidedOnce
<1>5. /\ e \in Entries /\ e.id = entry[r].id /\ e.resolved
      /\ e.promise = entry[r].promise
      /\ Recorded(r, e, runs[r])
  BY <1>3, <1>4 DEF Entries, Recorded, Pending, Unanswered, DecidedOnce
<1> HIDE DEF e
<1>6. /\ entry'[r] = e /\ \A q \in Requests \ {r} : entry'[q] = entry[q]
      /\ entry' \in [Requests -> Entries \cup {NoEntry}]
  BY <1>1, <1>5 DEF IInv, EntryInv
<1>7. \A q \in Requests : Registered(q)' <=> Registered(q)
  BY <1>1 DEF Registered
<1>8. EntryInv'
  BY <1>1, <1>2, <1>5, <1>6, <1>7 DEF IInv, EntryInv
<1>9. KeepsAnswers
  BY <1>5, <1>6, <1>7 DEF KeepsAnswers
<1>10. MapInv'
  <2>1. pending' \in [Ids -> Requests \cup {Nobody}]
    BY <1>1 DEF IInv, MapInv
  <2>2. ASSUME NEW i \in Ids, pending'[i] # Nobody
        PROVE  Registered(pending[i])' /\ entry'[pending'[i]].id = i
    <3>1. pending'[i] = pending[i] /\ pending[i] # r
      BY <1>1, <2>2
    <3>2. pending[i] \in Requests \ {r} /\ Registered(pending[i]) /\ entry[pending[i]].id = i
      BY <2>2, <3>1, MappedEntry DEF IInv
    <3> QED
      BY <1>6, <1>7, <3>1, <3>2 DEF Registered
  <2>3. ASSUME NEW q \in Requests, Registered(q)', ~entry'[q].resolved
        PROVE  pending'[entry'[q].id] = q
    <3>1. q # r
      BY <1>5, <1>6, <2>3
    <3>2. pending[entry[q].id] = q /\ entry[q].id \in Ids
      BY <1>6, <1>7, <2>3, <3>1, EntryFields DEF IInv, MapInv, EntryInv
    <3> QED
      BY <1>1, <1>6, <3>1, <3>2
  <2> QED
    BY <2>1, <2>2, <2>3 DEF MapInv
<1>11. ToldInv' /\ HeardInv'
  BY <1>1, <1>9, QuietForAnswers DEF IInv
<1> QED
  BY <1>8, <1>10, <1>11 DEF IInv

\* expire(id) for want of a route: whatever has the id now is answered null, and
\* so is the request.
LEMMA NoRoutePreserves ==
    ASSUME IInv, NEW r \in Requests, NoApprovalRoute(r)
    PROVE  IInv'
<1> DEFINE i == entry[r].id
           k == pending[i]
           e == Expired(entry[k], "no-approval-route")
<1>1. /\ at[r] = "delivering"
      /\ entry' = ExpireId(entry, i, "no-approval-route")
      /\ at' = [at EXCEPT ![r] = "unrouted"]
      /\ heard' = [heard EXCEPT ![r] = "null"]
      /\ UNCHANGED <<pending, waitsFor, told, runs>>
  BY DEF NoApprovalRoute
<1>2. /\ Registered(r) /\ entry[r] \in Entries /\ i \in Ids
  BY <1>1, RegisteredEntry, EntryFields DEF IInv, Registered
<1>3. /\ at'[r] = "unrouted" /\ \A q \in Requests \ {r} : at'[q] = at[q]
      /\ at' \in [Requests -> {"idle", "delivering", "awaiting", "notifying", "answered",
                               "unrouted", "refused"}]
      /\ \A q \in Requests : Registered(q)' <=> Registered(q)
  BY <1>1, <1>2 DEF IInv, EntryInv, Registered
<1>4. /\ entry' \in [Requests -> Entries \cup {NoEntry}]
      /\ \A q \in Requests : Registered(q) =>
            /\ entry'[q] \in Entries /\ entry'[q].id = entry[q].id
            /\ entry[q].resolved => entry'[q] = entry[q]
            /\ Recorded(q, entry'[q], runs[q])
            /\ entry[q].promise # "unsettled" => entry'[q].promise = entry[q].promise
      /\ \A q \in Requests : ~Registered(q) => entry'[q] = entry[q]
  <2>1. CASE k = Nobody
    BY <1>1, <2>1 DEF ExpireId, IInv, EntryInv
  <2>2. CASE k # Nobody
    <3>1. k \in Requests /\ Registered(k) /\ entry[k] \in Entries /\ Recorded(k, entry[k], runs[k])
      BY <1>2, <2>2, MappedEntry, RegisteredEntry DEF IInv
    <3>2. entry' = [entry EXCEPT ![k] = e]
      BY <1>1, <2>2 DEF ExpireId
    <3>3. /\ e \in Entries /\ e.id = entry[k].id
          /\ entry[k].resolved => e = entry[k]
          /\ Recorded(k, e, runs[k])
          /\ entry[k].promise # "unsettled" => e.promise = entry[k].promise
      <4>1. CASE entry[k].resolved
        BY <3>1, <4>1 DEF Expired
      <4>2. CASE ~entry[k].resolved
        <5>1. Pending(entry[k], runs[k])
          BY <3>1, <4>2 DEF Recorded, Pending, Unanswered, DecidedOnce
        <5>2. e \in Entries /\ e.id = entry[k].id /\ Unanswered(e, runs[k])
          BY <3>1, <4>2, <5>1, ExpiredEntry DEF Unanswered, Pending
        <5> QED
          BY <4>2, <5>1, <5>2 DEF Recorded, Pending
      <4> QED
        BY <4>1, <4>2
    <3> HIDE DEF e, k
    <3>4. /\ entry'[k] = e /\ \A q \in Requests \ {k} : entry'[q] = entry[q]
          /\ entry' \in [Requests -> Entries \cup {NoEntry}]
      BY <3>1, <3>2, <3>3 DEF IInv, EntryInv
    <3>5. \A q \in Requests : Registered(q) =>
             entry[q] \in Entries /\ Recorded(q, entry[q], runs[q])
      BY DEF IInv, EntryInv
    <3> QED
      BY <3>1, <3>3, <3>4, <3>5
  <2> QED
    BY <2>1, <2>2
<1>5. KeepsAnswers
  BY <1>3, <1>4 DEF KeepsAnswers
<1>6. EntryInv'
  BY <1>1, <1>3, <1>4 DEF IInv, EntryInv
<1>7. MapInv'
  <2>1. \A j \in Ids : pending[j] # Nobody =>
           pending[j] \in Requests /\ Registered(pending[j]) /\ entry[pending[j]].id = j
    BY DEF IInv, MapInv
  <2>2. \A j \in Ids : pending[j] # Nobody => Registered(pending[j])' /\ entry'[pending[j]].id = j
    BY <1>1, <1>3, <1>4, <2>1 DEF Registered
  <2>3. \A q \in Requests : Registered(q)' /\ ~entry'[q].resolved => pending[entry'[q].id] = q
    <3>1. \A q \in Requests : Registered(q) /\ ~entry'[q].resolved => ~entry[q].resolved
      BY <1>4
    <3> QED
      BY <1>3, <1>4, <3>1 DEF IInv, MapInv
  <2> QED
    BY <1>1, <2>2, <2>3 DEF IInv, MapInv, Registered
<1>8. ToldInv'
  <2>1. \A q \in Requests : told[q] # {} => entry[q].promise # "unsettled"
    BY DEF IInv, ToldInv, Decisions
  <2> QED
    BY <1>1, <1>5, <2>1 DEF IInv, ToldInv, KeepsAnswers
<1>9. HeardInv'
  <2>0. r \notin Waiters
    BY ExecApprovalAssumption
  <2>1. /\ heard' \in [Requests \cup Waiters -> Answers \cup {"none"}]
        /\ \A c \in (Requests \cup Waiters) \ {r} : heard'[c] = heard[c]
    BY <1>1 DEF IInv, HeardInv, Answers
  <2>2. \A c \in Requests \cup Waiters : heard[c] # "unsettled"
    BY DEF IInv, HeardInv, Answers, Decisions
  <2>3. ASSUME NEW q \in Requests, heard'[q] # "none"
        PROVE  \/ at'[q] = "unrouted"
               \/ at'[q] = "answered" /\ heard'[q] = entry'[q].promise
    <3>1. CASE q = r
      BY <1>3, <3>1
    <3>2. CASE q # r
      <4>1. at[q] = "answered" => Registered(q)
        BY DEF Registered
      <4>2. heard'[q] = heard[q] /\ at'[q] = at[q] /\ heard[q] # "unsettled"
        BY <1>3, <2>1, <2>2, <3>2
      <4> QED
        BY <1>5, <2>3, <4>1, <4>2 DEF IInv, HeardInv, KeepsAnswers
    <3> QED
      BY <3>1, <3>2
  <2>4. ASSUME NEW w \in Waiters
        PROVE  /\ waitsFor[w] # Nobody => Registered(waitsFor[w])'
               /\ heard'[w] # "none" => /\ waitsFor[w] # Nobody
                                        /\ heard'[w] = entry'[waitsFor[w]].promise
    <3>1. waitsFor[w] # Nobody => waitsFor[w] \in Requests /\ Registered(waitsFor[w])
      BY DEF IInv, HeardInv
    <3>2. heard'[w] = heard[w] /\ heard[w] # "unsettled"
      BY <2>0, <2>1, <2>2
    <3> QED
      BY <1>1, <1>5, <3>1, <3>2 DEF IInv, HeardInv, KeepsAnswers, Registered
  <2>5. \A q \in Requests : at'[q] = "notifying" => entry'[q].promise = "null"
    BY <1>3, <1>5 DEF IInv, HeardInv, KeepsAnswers, Registered
  <2> QED
    BY <1>1, <2>1, <2>3, <2>4, <2>5 DEF IInv, HeardInv, Registered
<1> QED
  BY <1>6, <1>7, <1>8, <1>9 DEF IInv

\* A waiter takes hold of the promise of an entry that is in the map.
LEMMA WaitPreserves ==
    ASSUME IInv, NEW w \in Waiters, NEW i \in Ids, WaitDecision(w, i)
    PROVE  IInv'
<1>1. /\ waitsFor[w] = Nobody /\ pending[i] # Nobody
      /\ waitsFor' = [waitsFor EXCEPT ![w] = pending[i]]
      /\ UNCHANGED <<pending, entry, at, heard, told, runs>>
  BY DEF WaitDecision
<1>2. pending[i] \in Requests /\ Registered(pending[i])
  BY <1>1, MappedEntry DEF IInv
<1>3. /\ waitsFor'[w] = pending[i] /\ \A v \in Waiters \ {w} : waitsFor'[v] = waitsFor[v]
      /\ waitsFor' \in [Waiters -> Requests \cup {Nobody}]
  BY <1>1, <1>2 DEF IInv, HeardInv
<1>4. heard[w] = "none"
  BY <1>1 DEF IInv, HeardInv
<1>5. \A r \in Requests : Registered(r)' <=> Registered(r)
  BY <1>1 DEF Registered
<1>6. HeardInv'
  BY <1>1, <1>2, <1>3, <1>4 DEF IInv, HeardInv, Registered
<1>7. MapInv' /\ EntryInv' /\ ToldInv'
  BY <1>1, <1>5 DEF IInv, MapInv, EntryInv, ToldInv, Registered
<1> QED
  BY <1>6, <1>7 DEF IInv

\* A waiter is answered what the promise it holds was resolved with.
LEMMA AnswerWaiterPreserves ==
    ASSUME IInv, NEW w \in Waiters, AnswerWaiter(w)
    PROVE  IInv'
<1> DEFINE r == waitsFor[w]
<1>1. /\ r # Nobody /\ entry[r].promise # "unsettled"
      /\ heard' = [heard EXCEPT ![w] = entry[r].promise]
      /\ UNCHANGED <<pending, entry, at, waitsFor, told, runs>>
  BY DEF AnswerWaiter
<1>2. r \in Requests /\ Registered(r) /\ w \notin Requests
  BY <1>1, ExecApprovalAssumption DEF IInv, HeardInv
<1>3. entry[r].promise \in Answers
  BY <1>1, <1>2, RegisteredEntry, EntryFields DEF IInv
<1>4. /\ heard' \in [Requests \cup Waiters -> Answers \cup {"none"}]
      /\ heard'[w] = entry[r].promise
      /\ \A c \in (Requests \cup Waiters) \ {w} : heard'[c] = heard[c]
  BY <1>1, <1>3 DEF IInv, HeardInv
<1>5. HeardInv'
  BY <1>1, <1>2, <1>4 DEF IInv, HeardInv, Registered
<1>6. MapInv' /\ EntryInv' /\ ToldInv'
  BY <1>1 DEF IInv, MapInv, EntryInv, ToldInv, Registered
<1> QED
  BY <1>5, <1>6 DEF IInv

\* An id or prefix leads to entries of the map, and without includeResolved to
\* one that is not resolved.
LEMMA LookupFinds ==
    ASSUME NEW input, NEW all \in BOOLEAN, NEW i \in Lookup(input, all)
    PROVE  /\ i \in Ids /\ pending[i] # Nobody
           /\ ~all => ~entry[pending[i]].resolved
BY DEF Lookup

\* resolve: an approval that is pending is decided, and the operator is told so.
LEMMA ResolvePreserves ==
    ASSUME IInv, NEW input, NEW d \in Decisions, Resolve(input, d)
    PROVE  IInv'
<1>1. PICK i \in MayDecide(input) :
         /\ d \in AllowedDecisions(pending[i])
         /\ entry' = [entry EXCEPT ![pending[i]] = Decided(@, d)]
         /\ told' = [told EXCEPT ![pending[i]] = @ \cup {d}]
  BY DEF Resolve
<1> DEFINE r == pending[i]
           e == Decided(entry[r], d)
<1>2. UNCHANGED <<pending, at, waitsFor, heard, runs>>
  BY DEF Resolve
<1>3. i \in Ids /\ r # Nobody /\ ~entry[r].resolved
  BY <1>1, LookupFinds DEF MayDecide
<1>4. r \in Requests /\ Registered(r)
  BY <1>3, MappedEntry DEF IInv
<1>5. /\ entry[r] \in Entries /\ Recorded(r, entry[r], runs[r])
      /\ runs[r] \in 0..MaxRuns /\ runs' = [runs EXCEPT ![r] = runs[r]]
  BY <1>2, <1>4, RegisteredEntry DEF IInv
<1>6. Pending(entry[r], runs[r])
  BY <1>3, <1>5 DEF Recorded, Unanswered, DecidedOnce
<1>7. /\ e \in Entries /\ e.id = entry[r].id /\ e.resolved /\ ~e.timer
      /\ e.decision = d /\ e.promise = d /\ e.consumed = "none" /\ e.resolvedBy = "operator"
  BY <1>5, <1>6, DecidedEntry DEF Pending
<1>8. entry' = [entry EXCEPT ![r] = e]
  BY <1>1
<1>9. told[r] = {}
  <2>1. entry[r].promise \notin Decisions
    BY <1>6 DEF Pending, Decisions
  <2> QED
    BY <1>4, <2>1 DEF IInv, ToldInv
<1> HIDE DEF e
<1>10. Recorded(r, e, runs[r])
  <2>1. d = "allow-always" => r \notin StrictRequests
    BY <1>1 DEF AllowedDecisions
  <2>2. DecidedOnce(r, e, runs[r])
    BY <1>6, <1>7, <2>1 DEF DecidedOnce, Pending, Decisions
  <2> QED
    BY <2>2 DEF Recorded
<1>11. MapInv' /\ EntryInv' /\ KeepsAnswers
  <2>1. entry[r].promise = "unsettled"
    BY <1>6 DEF Pending
  <2> QED
    BY <1>2, <1>4, <1>5, <1>7, <1>8, <1>10, <2>1, UpdateEntry DEF IInv
<1>12. HeardInv'
  BY <1>2, <1>11, AnswersKept DEF IInv
<1>13. ToldInv'
  <2>1. /\ told'[r] = {d} /\ entry'[r] = e
        /\ \A q \in Requests \ {r} : told'[q] = told[q] /\ entry'[q] = entry[q]
        /\ told' \in [Requests -> SUBSET Decisions]
    BY <1>1, <1>4, <1>8, <1>9 DEF IInv, ToldInv, EntryInv
  <2>2. \A q \in Requests : Registered(q)' <=> Registered(q)
    BY <1>2 DEF Registered
  <2> QED
    BY <1>4, <1>7, <2>1, <2>2 DEF IInv, ToldInv
<1> QED
  BY <1>11, <1>12, <1>13 DEF IInv

\* The same decision again: what was recorded is what the promise was resolved with.
LEMMA RepeatPreserves ==
    ASSUME IInv, NEW input, NEW d \in Decisions, ResolveRepeated(input, d)
    PROVE  IInv'
<1>1. PICK i \in Lookup(input, TRUE) :
         /\ entry[pending[i]].resolved
         /\ RecordedDecision(entry[pending[i]]) = d
         /\ told' = [told EXCEPT ![pending[i]] = @ \cup {d}]
  BY DEF ResolveRepeated
<1> DEFINE r == pending[i]
<1>2. UNCHANGED <<pending, entry, at, waitsFor, heard, runs>>
  BY DEF ResolveRepeated
<1>3. i \in Ids /\ r # Nobody
  BY <1>1, LookupFinds
<1>4. r \in Requests /\ Registered(r)
  BY <1>3, MappedEntry DEF IInv
<1>5. entry[r].promise = d
  <2>1. Recorded(r, entry[r], runs[r])
    BY <1>4, RegisteredEntry DEF IInv
  <2> QED
    BY <1>1, <2>1 DEF Recorded, Pending, Unanswered, DecidedOnce, RecordedDecision, Decisions
<1>6. ToldInv'
  <2>1. told[r] \in {{}, {d}}
    BY <1>4, <1>5 DEF IInv, ToldInv
  <2>2. /\ told'[r] = {d}
        /\ \A q \in Requests \ {r} : told'[q] = told[q]
        /\ told' \in [Requests -> SUBSET Decisions]
    BY <1>1, <1>4, <2>1 DEF IInv, ToldInv
  <2>3. \A q \in Requests : Registered(q)' <=> Registered(q)
    BY <1>2 DEF Registered
  <2> QED
    BY <1>2, <1>4, <1>5, <2>2, <2>3 DEF IInv, ToldInv
<1>7. MapInv' /\ EntryInv' /\ HeardInv'
  BY <1>2 DEF IInv, MapInv, EntryInv, HeardInv, Registered
<1> QED
  BY <1>6, <1>7 DEF IInv

\* A command goes through: an allow-once is used up, anything else stays.
LEMMA InvokePreserves ==
    ASSUME IInv, NEW i \in Ids, Invoke(i)
    PROVE  IInv'
<1> DEFINE r == pending[i]
           n == runs[r] + 1
           used == [entry[r] EXCEPT !.consumed = "allow-once", !.decision = "none"]
<1>1. /\ r # Nobody /\ runs[r] < MaxRuns
      /\ runs' = [runs EXCEPT ![r] = n]
      /\ UNCHANGED <<pending, at, waitsFor, heard, told>>
  BY DEF Invoke
<1>2. r \in Requests /\ Registered(r)
  BY <1>1, MappedEntry DEF IInv
<1>3. entry[r] \in Entries /\ Recorded(r, entry[r], runs[r]) /\ runs[r] \in 0..MaxRuns
  BY <1>2, RegisteredEntry DEF IInv
<1>4. n \in 0..MaxRuns
  BY <1>1, <1>3, ExecApprovalAssumption
<1>5. CASE /\ entry[r].decision = "allow-once"
           /\ entry' = [entry EXCEPT ![r].consumed = "allow-once", ![r].decision = "none"]
  <2>1. entry' = [entry EXCEPT ![r] = used]
    BY <1>2, <1>5 DEF IInv, EntryInv
  <2>2. DecidedOnce(r, entry[r], runs[r]) /\ runs[r] = 0
    BY <1>3, <1>5 DEF Recorded, Pending, Unanswered, DecidedOnce
  <2>3. /\ used \in Entries /\ used.id = entry[r].id
        /\ used.resolved = entry[r].resolved /\ used.timer = entry[r].timer
        /\ used.resolvedBy = entry[r].resolvedBy /\ used.promise = entry[r].promise
        /\ used.decision = "none" /\ used.consumed = "allow-once"
    BY <1>3 DEF Entries, Decisions
  <2>4. used.resolved /\ Recorded(r, used, n)
    <3>1. n = 1
      BY <2>2
    <3> HIDE DEF used, n
    <3> QED
      BY <1>5, <2>2, <2>3, <3>1 DEF Recorded, DecidedOnce
  <2> HIDE DEF used, n
  <2> QED
    BY <1>1, <1>2, <1>4, <2>1, <2>3, <2>4, QuietUpdate
<1>6. CASE /\ entry[r].decision = "allow-always" \/ TimedOut(entry[r])
           /\ UNCHANGED entry
  <2>1. Recorded(r, entry[r], n)
    BY <1>3, <1>6 DEF Recorded, Pending, Unanswered, DecidedOnce, TimedOut
  <2>2. entry' = [entry EXCEPT ![r] = entry[r]]
    BY <1>6 DEF IInv, EntryInv
  <2> HIDE DEF n
  <2> QED
    BY <1>1, <1>2, <1>3, <1>4, <2>1, <2>2, QuietUpdate
<1> QED
  BY <1>5, <1>6 DEF Invoke

\* At first there are no requests.
LEMMA InitInv == Init => IInv
BY ExecApprovalAssumption
   DEF Init, IInv, MapInv, EntryInv, ToldInv, HeardInv, Registered, NoEntry

\* Every step keeps the map, the entries and what was told and heard of them.
LEMMA NextPreserves ==
    ASSUME IInv, [Next]_vars
    PROVE  IInv'
<1>1. ASSUME NEW r \in Requests, NEW i \in Ids, RequestRefused(r, i)
      PROVE  IInv'
  BY <1>1, HandlerMoves DEF RequestRefused
<1>2. ASSUME NEW r \in Requests, NEW i \in Ids, RequestApproval(r, i)
      PROVE  IInv'
  BY <1>2, RequestPreserves
<1>3. ASSUME NEW r \in Requests, DeliverySettles(r)
      PROVE  IInv'
  BY <1>3, HandlerMoves DEF DeliverySettles
<1>4. ASSUME NEW r \in Requests, NoApprovalRoute(r)
      PROVE  IInv'
  BY <1>4, NoRoutePreserves
<1>5. ASSUME NEW r \in Requests, AnswerRequest(r)
      PROVE  IInv'
  <2>1. CASE entry[r].promise = "null"
    BY <1>5, <2>1, HandlerMoves DEF AnswerRequest
  <2>2. CASE entry[r].promise # "null"
    BY <1>5, <2>2, HandlerMoves DEF AnswerRequest
  <2> QED
    BY <2>1, <2>2
<1>6. ASSUME NEW r \in Requests, ExpiryTimerFires(r)
      PROVE  IInv'
  BY <1>6, ExpiryPreserves
<1>7. ASSUME NEW r \in Requests, CleanupFires(r)
      PROVE  IInv'
  BY <1>7, CleanupPreserves
<1>8. ASSUME NEW r \in Requests, DeadlineNears(r)
      PROVE  IInv'
  BY <1>8, DeadlinePreserves
<1>9. ASSUME NEW w \in Waiters, NEW i \in Ids, WaitDecision(w, i)
      PROVE  IInv'
  BY <1>9, WaitPreserves
<1>10. ASSUME NEW w \in Waiters, AnswerWaiter(w)
       PROVE  IInv'
  BY <1>10, AnswerWaiterPreserves
<1>11. ASSUME NEW input, NEW d \in Decisions, Resolve(input, d)
       PROVE  IInv'
  BY <1>11, ResolvePreserves
<1>12. ASSUME NEW input, NEW d \in Decisions, ResolveRepeated(input, d)
       PROVE  IInv'
  BY <1>12, RepeatPreserves
<1>13. ASSUME NEW i \in Ids, Invoke(i)
       PROVE  IInv'
  BY <1>13, InvokePreserves
<1>14. CASE UNCHANGED vars
  BY <1>14 DEF vars, IInv, MapInv, EntryInv, ToldInv, HeardInv, Registered
<1>15. ASSUME NEW r \in Requests, ExpiryPushed(r)
       PROVE  IInv'
  <2>1. entry[r].promise = "null"
    BY <1>15 DEF ExpiryPushed, IInv, HeardInv
  <2> QED
    BY <1>15, <2>1, HandlerMoves DEF ExpiryPushed
<1> QED
  BY <1>1, <1>2, <1>3, <1>4, <1>5, <1>6, <1>7, <1>8, <1>9, <1>10, <1>11, <1>12, <1>13, <1>14, <1>15
     DEF Next

\* The inductive invariant holds in every state.
LEMMA Inductive == Spec => []IInv
BY InitInv, NextPreserves, PTL DEF Spec

-----------------------------------------------------------------------------
(* The theorems. *)

\* exec-approval-manager.ts: the map, an entry's id and its promise agree, whatever
\* requests, timers, operators and waiters do.
THEOREM TypeCorrect == Spec => []TypeOK
<1>1. ASSUME IInv
      PROVE  TypeOK
  <2>1. \A r \in Requests :
           at[r] \notin {"idle", "refused"} =>
               (entry[r].resolved <=> entry[r].promise # "unsettled")
    BY <1>1 DEF IInv, EntryInv, Registered, Recorded, Pending, Unanswered, DecidedOnce
  <2> QED
    BY <1>1, <2>1 DEF TypeOK, IInv, MapInv, EntryInv, ToldInv, HeardInv
<1> QED
  BY <1>1, Inductive, PTL

\* node-invoke-system-run-approval.ts: a command goes through only on its
\* approval, and on an allow-once only once.
THEOREM RunsAreAuthorised == Spec => []RunsAuthorised
<1>1. ASSUME IInv
      PROVE  RunsAuthorised
  <2> SUFFICES ASSUME NEW r \in Requests, runs[r] > 0
               PROVE  CASE entry[r].promise = "allow-once" -> runs[r] = 1
                        [] entry[r].promise = "allow-always" -> r \notin StrictRequests
                        [] entry[r].promise = "null" -> entry[r].resolvedBy = "null"
                        [] OTHER -> FALSE
    BY DEF RunsAuthorised
  <2>1. Recorded(r, entry[r], runs[r])
    BY <1>1 DEF IInv, EntryInv
  <2> QED
    BY <2>1 DEF Recorded, Pending, Unanswered, DecidedOnce
<1> QED
  BY <1>1, Inductive, PTL

\* approval-shared.ts: operators who race or repeat themselves are told ok for one
\* decision, and the requester and all who wait hear that one.
THEOREM OneDecisionIsTold == Spec => []OneDecision
<1>1. ASSUME IInv
      PROVE  OneDecision
  <2> SUFFICES ASSUME NEW r \in Requests
               PROVE  /\ Cardinality(told[r]) <= 1
                      /\ heard[r] # "none" /\ told[r] # {} =>
                            heard[r] \in told[r] \/ at[r] = "unrouted"
                      /\ \A w \in Waiters :
                            waitsFor[w] = r /\ heard[w] # "none" /\ told[r] # {}
                               => heard[w] \in told[r]
    BY DEF OneDecision
  <2>1. Cardinality(told[r]) <= 1
    <3>1. told[r] = {} \/ told[r] = {entry[r].promise}
      BY <1>1 DEF IInv, ToldInv
    <3>2. Cardinality(told[r]) = 0 \/ Cardinality(told[r]) = 1
      BY <3>1, FS_EmptySet, FS_Singleton
    <3> QED
      BY <3>2
  <2>2. heard[r] # "none" /\ told[r] # {} => heard[r] \in told[r] \/ at[r] = "unrouted"
    BY <1>1 DEF IInv, ToldInv, HeardInv
  <2>3. \A w \in Waiters :
           waitsFor[w] = r /\ heard[w] # "none" /\ told[r] # {} => heard[w] \in told[r]
    BY <1>1 DEF IInv, ToldInv, HeardInv
  <2> QED
    BY <2>1, <2>2, <2>3
<1> QED
  BY <1>1, Inductive, PTL

\* The timeout of an id that is registered again expires no later approval.
THEOREM TimeoutsAreTheirOwn == Spec => []TimesOutAtOwnDeadline
<1>1. ASSUME IInv
      PROVE  TimesOutAtOwnDeadline
  BY <1>1 DEF TimesOutAtOwnDeadline, IInv, EntryInv, Registered,
              Recorded, Pending, Unanswered, DecidedOnce
<1> QED
  BY <1>1, Inductive, PTL
=============================================================================
