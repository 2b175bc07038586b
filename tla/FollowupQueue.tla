--------------------------- MODULE FollowupQueue ---------------------------
(***************************************************************************)
(* The follow-up queue of one session (src/src/auto-reply/reply/queue/ and *)
(* utils/queue-helpers.ts): messages that arrive while a turn is active    *)
(* are queued and run afterwards, one by one or collected.                 *)
(*                                                                         *)
(* A queue is an object: a session's queues are cleared by dropping the    *)
(* object from the map while its drain may still be at an await, and the   *)
(* next message creates another. Everything between two awaits of a drain  *)
(* is one step. Redeliveries come within the five minutes for which        *)
(* message ids are remembered. Every mode but "collect" drains like        *)
(* "followup". Which callback runs a follow-up is not modelled: all of     *)
(* them run the same turn.                                                 *)
(***************************************************************************)
EXTENDS Naturals, Sequences, FiniteSets

CONSTANTS
    Messages,       \* message ids
    RouteOf,        \* the channel, recipient and thread of a message
    AuthOf,         \* the authorization key of a message
    Settings,       \* queue settings a message may arrive with
    MaxQueues,      \* bound: queue objects alive at a time
    MaxFailures     \* bound: follow-up runs that throw (the code has no limit)

ASSUME FollowupQueueAssumption ==
    /\ DOMAIN RouteOf = Messages
    /\ DOMAIN AuthOf = Messages
    /\ Settings # {}
    /\ Settings \subseteq [mode : {"collect", "followup"},
                           dropPolicy : {"summarize", "old", "new"}, cap : Nat \ {0}]
    /\ MaxQueues \in Nat \ {0}
    /\ MaxFailures \in Nat

VARIABLES
    queues,     \* the queue objects
    entry,      \* the object FOLLOWUP_QUEUES holds for the session, or NoQueue
    recent,     \* RECENT_QUEUE_MESSAGE_IDS
    turn,       \* the run outside the drain that is active: a reply, another, or none
    failures,   \* follow-up runs that have thrown
    \* history variables
    ran,        \* how often a turn with the message completed
    redone,     \* how often its run then threw, so that the drain repeats it
    lost,       \* messages taken off a queue and neither run nor summarized
    overflowed, \* a message was dropped from a full queue
    behind      \* the entry got its messages while no active run was to drain it

vars == <<queues, entry, recent, turn, failures, ran, redone, lost, overflowed, behind>>

QueueIds == 1..MaxQueues
NoQueue == 0

\* What a drain is waiting for: nothing, the debounce, or a follow-up run of some
\* kind; or it spins, waiting for nothing. A run has the messages of its prompt, the
\* summarized ones and, for a collected group, the rest of the snapshot.
NoCall == [kind |-> "none", prompt |-> <<>>, summary |-> {}, rest |-> <<>>]
Debounce == [NoCall EXCEPT !.kind = "debounce"]
Spin == [NoCall EXCEPT !.kind = "spin"]
Run(kind, prompt, summary, rest) ==
    [kind |-> kind, prompt |-> prompt, summary |-> summary, rest |-> rest]

EmptyQueue(s) ==
    [items |-> <<>>, dropped |-> {}, mode |-> s.mode, dropPolicy |-> s.dropPolicy,
     cap |-> s.cap, draining |-> FALSE, single |-> FALSE, call |-> NoCall]

\* The types; an object drains exactly while its drain is at something, and no
\* message is in a queue twice.
TypeOK ==
    /\ DOMAIN queues = QueueIds
    /\ entry \in QueueIds \cup {NoQueue}
    /\ recent \subseteq Messages
    /\ turn \in {"none", "reply", "other"}
    /\ failures \in 0..MaxFailures
    /\ ran \in [Messages -> Nat]
    /\ redone \in [Messages -> Nat]
    /\ lost \subseteq Messages
    /\ {overflowed, behind} \subseteq BOOLEAN
    /\ \A q \in QueueIds :
          /\ queues[q].items \in Seq(Messages)
          /\ \A i, j \in DOMAIN queues[q].items : queues[q].items[i] = queues[q].items[j] => i = j
          /\ queues[q].dropped \subseteq Messages
          /\ queues[q].draining <=> queues[q].call # NoCall

Init ==
    /\ queues = [q \in QueueIds |-> EmptyQueue(CHOOSE s \in Settings : TRUE)]
    /\ entry = NoQueue
    /\ recent = {}
    /\ turn = "none"
    /\ failures = 0
    /\ ran = [m \in Messages |-> 0]
    /\ redone = [m \in Messages |-> 0]
    /\ lost = {}
    /\ overflowed = FALSE
    /\ behind = FALSE

-----------------------------------------------------------------------------
(* Operators *)

Elements(s) == {s[i] : i \in DOMAIN s}

HasWork(queue) == queue.items # <<>> \/ queue.dropped # {}

Calling(queue) == queue.call.kind \notin {"none", "debounce", "spin"}

\* isRunActive: a turn, another embedded run of the session, or a follow-up run of
\* any drain.
RunActive == turn # "none" \/ \E q \in QueueIds : Calling(queues[q])

\* A drain spins on promises that are already resolved: no timer fires, no message
\* arrives and no other promise settles in this process any more.
Starved == \E q \in QueueIds : queues[q].call = Spin

\* What remains of a sequence after splice(0, n).
Spliced(s, n) == SubSeq(s, n + 1, Len(s))

\* applyQueueDropPolicy: the queue with room for one more; under "new" it has none.
Full(queue) == Len(queue.items) >= queue.cap
DropCount(queue) == Len(queue.items) - queue.cap + 1
Victims(queue) == Elements(SubSeq(queue.items, 1, DropCount(queue)))
WithRoom(queue) ==
    IF ~Full(queue) THEN queue
    ELSE [queue EXCEPT !.items = Spliced(@, DropCount(queue)),
                       !.dropped = IF queue.dropPolicy = "summarize"
                                   THEN @ \cup Victims(queue) ELSE @]

\* previewQueueSummaryPrompt: the dropped messages the next prompt tells of.
Summary(queue) == IF queue.dropPolicy = "summarize" THEN queue.dropped ELSE {}

\* hasCrossChannelItems.
CrossChannel(items) == Cardinality({RouteOf[m] : m \in Elements(items)}) > 1

\* splitCollectItemsByAuthorization: the first group.
GroupSize(items) ==
    CHOOSE n \in 1..Len(items) :
        /\ \A i \in 1..n : AuthOf[items[i]] = AuthOf[items[1]]
        /\ n = Len(items) \/ AuthOf[items[n + 1]] # AuthOf[items[1]]
GroupRun(items, summary) ==
    Run("group", SubSeq(items, 1, GroupSize(items)), summary, Spliced(items, GroupSize(items)))

\* The body of the drain loop up to its await: the call it makes, or NoCall where
\* it breaks out of the loop.
NextCall(queue, single) ==
    LET summary == Summary(queue)
    IN  CASE queue.items = <<>> ->
                IF queue.mode = "collect" /\ summary # {}
                THEN Run("summary", <<>>, summary, <<>>) ELSE NoCall
          [] queue.items # <<>> /\ queue.mode = "collect" ->
                IF single THEN Run("item", <<Head(queue.items)>>, {}, <<>>)
                ELSE GroupRun(queue.items, summary)
          [] queue.items # <<>> /\ queue.mode = "followup" ->
                IF summary # {} THEN Run("summaryForItem", <<>>, summary, <<>>)
                ELSE Run("item", <<Head(queue.items)>>, {}, <<>>)

-----------------------------------------------------------------------------
(* scheduleFollowupDrain, and the end of a drain *)

\* The objects and the map entry after scheduleFollowupDrain: a drain starts on
\* the entry unless it has one; without work it ends at once and the entry is
\* removed.
Scheduled(objects, e) ==
    CASE e = NoQueue \/ objects[e].draining -> [queues |-> objects, entry |-> e]
      [] e # NoQueue /\ ~objects[e].draining ->
            IF HasWork(objects[e])
            THEN [queues |-> [objects EXCEPT ![e].draining = TRUE, ![e].single = FALSE,
                                             ![e].call = Debounce],
                  entry |-> e]
            ELSE [queues |-> objects, entry |-> NoQueue]

\* Mutant of Ended: whatever the map holds is removed.
EndedByKey(objects, q) ==
    LET over == [objects EXCEPT ![q].draining = FALSE, ![q].call = NoCall]
    IN  IF HasWork(over[q]) THEN Scheduled(over, entry) ELSE [queues |-> over, entry |-> NoQueue]

\* The finally block: an empty queue leaves the map, if the map still holds it;
\* otherwise the session's drain is scheduled again.
Ended(objects, q) ==
    LET over == [objects EXCEPT ![q].draining = FALSE, ![q].call = NoCall]
    IN  IF HasWork(over[q]) THEN Scheduled(over, entry)
        ELSE [queues |-> over, entry |-> IF entry = q THEN NoQueue ELSE entry]

\* The loop's condition.
Continued(objects, q) ==
    IF HasWork(objects[q])
    THEN [queues |-> [objects EXCEPT ![q].call = Debounce], entry |-> entry]
    ELSE Ended(objects, q)

Becomes(state) == queues' = state.queues /\ entry' = state.entry

-----------------------------------------------------------------------------
(* Actions *)

\* Mutant of Accepts: redeliveries are not recognised.
AcceptsRedelivery(queue, m) == ~(Full(queue) /\ queue.dropPolicy = "new")

\* Whether enqueueFollowupRun queues the message: not if its id was seen or is
\* queued, nor if a full queue keeps what it has.
Accepts(queue, m) ==
    /\ m \notin recent
    /\ m \notin Elements(queue.items)
    /\ ~(Full(queue) /\ queue.dropPolicy = "new")

\* A message arrives for an active turn, or for one that was active a moment ago:
\* enqueueFollowupRun with its settings, then a drain unless a run is active.
Enqueue(m, s) ==
    \E q \in QueueIds :
        /\ ~Starved
        /\ IF entry # NoQueue THEN q = entry
           ELSE ~queues[q].draining /\ \A p \in QueueIds : ~queues[p].draining => q <= p
        /\ LET held == IF entry # NoQueue
                       THEN [queues[q] EXCEPT !.mode = s.mode, !.dropPolicy = s.dropPolicy,
                                              !.cap = s.cap]
                       ELSE EmptyQueue(s)
               accepted == Accepts(held, m)
               filled == IF accepted
                         THEN [WithRoom(held) EXCEPT !.items = Append(@, m)] ELSE held
               objects == [queues EXCEPT ![q] = filled]
               full == accepted /\ Full(held)
           IN  /\ Becomes(IF RunActive THEN [queues |-> objects, entry |-> q]
                          ELSE Scheduled(objects, q))
               /\ recent' = IF accepted THEN recent \cup {m} ELSE recent
               /\ overflowed' = (overflowed \/ full)
               /\ lost' = IF full /\ held.dropPolicy = "old"
                          THEN lost \cup {v \in Victims(held) : ran[v] = 0} ELSE lost
               /\ behind' = IF ~RunActive THEN FALSE
                            ELSE IF accepted /\ ~held.draining THEN turn # "reply" ELSE behind
        /\ UNCHANGED <<turn, failures, ran, redone>>

\* A message that finds nothing active is a turn of its own, whose end is
\* scheduleFollowupDrain. Runs that are no replies (of a schedule, of an agent
\* command) count as active as well; their end schedules nothing.
TurnStarts ==
    /\ ~Starved
    /\ ~RunActive
    /\ turn' \in {"reply", "other"}
    /\ UNCHANGED <<queues, entry, recent, failures, ran, redone, lost, overflowed, behind>>

TurnEnds ==
    /\ ~Starved
    /\ turn = "reply"
    /\ turn' = "none"
    /\ Becomes(Scheduled(queues, entry))
    /\ behind' = FALSE
    /\ UNCHANGED <<recent, failures, ran, redone, lost, overflowed>>

OtherRunEnds ==
    /\ ~Starved
    /\ turn = "other"
    /\ turn' = "none"
    /\ UNCHANGED <<queues, entry, recent, failures, ran, redone, lost, overflowed, behind>>

\* clearSessionQueues: the object is emptied and dropped; its drain goes on.
ClearSessionQueues ==
    /\ ~Starved
    /\ entry # NoQueue
    /\ queues' = [queues EXCEPT ![entry].items = <<>>, ![entry].dropped = {}]
    /\ entry' = NoQueue
    /\ behind' = FALSE
    /\ UNCHANGED <<recent, turn, failures, ran, redone, lost, overflowed>>

\* The loop breaks. With messages dropped and none queued (in a mode or under a
\* policy that has no prompt for them alone) the drain is scheduled again at once,
\* its debounce is long over, and it breaks again.
Broken(objects, q) ==
    IF entry = q /\ HasWork(objects[q])
    THEN [queues |-> [objects EXCEPT ![q].call = Spin], entry |-> entry]
    ELSE Ended(objects, q)

\* The debounce is over and the loop body runs to its next await or breaks.
DebouncePasses(q) ==
    /\ ~Starved
    /\ queues[q].call = Debounce
    /\ LET single == queues[q].single \/ CrossChannel(queues[q].items)
           call == NextCall(queues[q], single)
       IN  Becomes(IF call = NoCall THEN Broken(queues, q)
                   ELSE [queues |-> [queues EXCEPT ![q].call = call,
                                                   ![q].single = IF queues[q].mode = "collect" THEN single ELSE @],
                         entry |-> entry])
    /\ UNCHANGED <<recent, turn, failures, ran, redone, lost, overflowed, behind>>

\* Mutants of Consumed: the queue is left as it is; the whole snapshot leaves with
\* its first group.
ConsumedNothing(call) == 0
ConsumedSnapshot(call) == IF call.kind = "summary" THEN 0 ELSE Len(call.prompt) + Len(call.rest)

\* How many items a finished run takes off the front of the queue.
Consumed(call) ==
    CASE call.kind = "item" -> 1
      [] call.kind = "summaryForItem" -> 1
      [] call.kind = "group" -> Len(call.prompt)
      [] call.kind = "summary" -> 0

\* A counter of turns after one more with the messages of a call.
Counted(counter, call) ==
    [m \in Messages |-> IF m \in Elements(call.prompt) THEN counter[m] + 1 ELSE counter[m]]

\* The follow-up run resolves: items leave by position, the summary is cleared if
\* the prompt had one, and the next group of a snapshot or the loop goes on.
RunReturns(q) ==
    /\ ~Starved
    /\ Calling(queues[q])
    /\ LET queue == queues[q]
           call == queue.call
           n == IF Consumed(call) <= Len(queue.items) THEN Consumed(call) ELSE Len(queue.items)
           taken == Elements(SubSeq(queue.items, 1, n))
           left == [queue EXCEPT !.items = Spliced(@, n),
                                 !.dropped = IF call.summary = {} THEN @ ELSE {}]
           gone == taken \cup IF call.summary = {} THEN {} ELSE queue.dropped \ call.summary
       IN  /\ ran' = Counted(ran, call)
           /\ lost' = lost \cup {m \in gone : ran'[m] = 0}
           /\ IF call.rest # <<>>
              THEN Becomes([queues |-> [queues EXCEPT ![q] =
                                           [left EXCEPT !.call = GroupRun(call.rest, {})]],
                            entry |-> entry])
              ELSE Becomes(Continued([queues EXCEPT ![q] = left], q))
    /\ UNCHANGED <<recent, turn, failures, redone, overflowed, behind>>

\* It throws, before the turn has completed or after (the bookkeeping or the
\* delivery of the reply fails): the drain ends and what it had not consumed is
\* drained again, the same prompt included.
RunThrows(q) ==
    /\ ~Starved
    /\ Calling(queues[q])
    /\ failures < MaxFailures
    /\ failures' = failures + 1
    /\ \/ UNCHANGED <<ran, redone>>
       \/ /\ ran' = Counted(ran, queues[q].call)
          /\ redone' = Counted(redone, queues[q].call)
    /\ Becomes(Ended(queues, q))
    /\ UNCHANGED <<recent, turn, lost, overflowed, behind>>

Next ==
    \/ \E m \in Messages, s \in Settings : Enqueue(m, s)
    \/ TurnStarts
    \/ TurnEnds
    \/ OtherRunEnds
    \/ ClearSessionQueues
    \/ \E q \in QueueIds : DebouncePasses(q) \/ RunReturns(q) \/ RunThrows(q)

Spec == Init /\ [][Next]_vars

\* Replies and follow-up runs end and timers fire, in a process that is not starved.
Fairness ==
    /\ WF_vars(TurnEnds)
    /\ \A q \in QueueIds : WF_vars(DebouncePasses(q) \/ RunReturns(q))

FairSpec == Spec /\ Fairness

-----------------------------------------------------------------------------
(* Properties *)

\* Once the run of a message has returned, no turn has it again: not by a retry after
\* another group of its batch failed, not by a redelivery, not by the old and the new
\* queue around a clear. A turn is repeated only when its own run threw.
RunsOnce ==
    \A m \in Messages :
        /\ ran[m] <= redone[m] + 1
        /\ ran[m] > redone[m] => \A q \in QueueIds : m \notin Elements(queues[q].call.prompt)

\* Nothing a queue accepted disappears without being run or told of in a summary
\* (a clear discards on purpose).
NothingLost == lost = {}

\* NothingLost as long as no queue has overflowed.
NothingLostBelowCap == overflowed \/ NothingLost

\* Messages that are queued, or dropped and to be told of, all leave their queue
\* objects, in the map or not: they are run, summarized or cleared. The exceptions are
\* a queue that got its messages behind a run whose end does not drain it, until the
\* next message or reply; a process that a drain has starved; and runs that throw for
\* ever, which MaxFailures rules out.
Owed == \E q \in QueueIds : HasWork(queues[q])
QueueDrains == Owed ~> (behind \/ Starved \/ ~Owed)
=============================================================================
