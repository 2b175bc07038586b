------------------------ MODULE FollowupQueueProofs ------------------------
(***************************************************************************)
(* Proofs about the follow-up queue, for any messages, settings, number of *)
(* queue objects and number of runs that throw.                            *)
(***************************************************************************)
EXTENDS FollowupQueue, TLAPS, WellFoundedInduction

-----------------------------------------------------------------------------
(* The inductive invariant. *)

\* The calls a drain can be at, and the queue objects.
Kinds == {"none", "debounce", "spin", "item", "group", "summary", "summaryForItem"}
Calls == [kind : Kinds, prompt : Seq(Messages), summary : SUBSET Messages, rest : Seq(Messages)]
QueueObjects ==
    [items : Seq(Messages), dropped : SUBSET Messages, mode : {"collect", "followup"},
     dropPolicy : {"summarize", "old", "new"}, cap : Nat \ {0}, draining : BOOLEAN,
     single : BOOLEAN, call : Calls]

Types ==
    /\ queues \in [QueueIds -> QueueObjects]
    /\ entry \in QueueIds \/ entry = NoQueue
    /\ recent \subseteq Messages
    /\ turn \in {"none", "reply", "other"} /\ overflowed \in BOOLEAN /\ behind \in BOOLEAN
    /\ failures \in 0..MaxFailures
    /\ ran \in [Messages -> Nat] /\ redone \in [Messages -> Nat]
    /\ lost \subseteq Messages

\* A sequence of messages without repetition, and two that share none.
Distinct(s) == \A i, j \in DOMAIN s : s[i] = s[j] => i = j
Apart(s, r) == \A i \in DOMAIN s, j \in DOMAIN r : s[i] # r[j]

\* A message at a place of r is in s no later than n places after that, if it is there.
NoLater(s, r, n) == \A i \in DOMAIN s, j \in DOMAIN r : s[i] = r[j] => i <= n + j

\* The calls: an idle drain, a debounce and a spinning drain have no messages, a summary
\* has none of its own, an item is one message.
CallShape(call) ==
    /\ call.kind \in {"none", "debounce", "spin"} => call \in {NoCall, Debounce, Spin}
    /\ call.kind \in {"summary", "summaryForItem"} => call.prompt = <<>>
    /\ call.kind = "item" => Len(call.prompt) = 1
    /\ call.kind # "group" => call.rest = <<>>
    /\ Distinct(call.prompt) /\ Distinct(call.rest) /\ Apart(call.prompt, call.rest)

\* A queue whose drain is at a run: the queue may have lost messages at the front since
\* the drain looked at it, and got some at the end, so a message of the run is at its
\* place in the snapshot or before it.
Shape(queue) ==
    /\ Distinct(queue.items)
    /\ queue.draining <=> queue.call # NoCall
    /\ CallShape(queue.call)
    /\ NoLater(queue.items, queue.call.prompt, 0)
    /\ NoLater(queue.items, queue.call.rest, Len(queue.call.prompt))

\* The messages a queue object may still run.
Holds(queue, m) ==
    m \in Elements(queue.items) \/ m \in Elements(queue.call.prompt) \/ m \in Elements(queue.call.rest)

\* A message belongs to one queue object and was accepted once. While an object holds
\* it, each of its turns was one whose run threw; one more may follow, and then no object
\* holds it any more.
OnceInv ==
    /\ \A q \in QueueIds : Shape(queues[q])
    /\ \A p, q \in QueueIds : \A m \in Messages :
          Holds(queues[p], m) /\ Holds(queues[q], m) => p = q
    /\ \A q \in QueueIds : \A m \in Messages : Holds(queues[q], m) => m \in recent /\ ran[m] = redone[m]
    /\ \A m \in Messages : ran[m] # redone[m] => m \in recent /\ ran[m] = redone[m] + 1

\* Without overflow nothing is dropped, and a queue starts with what its drain runs,
\* unless it was cleared and left the map.
StartsWith(s, prompt, rest) ==
    /\ Len(prompt) + Len(rest) <= Len(s)
    /\ \A j \in DOMAIN prompt : s[j] = prompt[j]
    /\ \A j \in DOMAIN rest : s[Len(prompt) + j] = rest[j]
Begins(queue) == StartsWith(queue.items, queue.call.prompt, queue.call.rest)
Calm(queue, live) ==
    /\ queue.dropped = {} /\ queue.call.summary = {}
    /\ queue.call.kind \notin {"summary", "summaryForItem"}
    /\ Begins(queue) \/ (~live /\ queue.items = <<>>)
CalmInv == ~overflowed => lost = {} /\ \A q \in QueueIds : Calm(queues[q], q = entry)

IInv == Types /\ OnceInv /\ CalmInv

-----------------------------------------------------------------------------
(* Sequences. *)

\* The first n messages of a sequence.
LEMMA FrontFacts ==
    ASSUME NEW s \in Seq(Messages), NEW n \in 0..Len(s)
    PROVE  /\ SubSeq(s, 1, n) \in Seq(Messages) /\ Len(SubSeq(s, 1, n)) = n
           /\ DOMAIN SubSeq(s, 1, n) = 1..n
           /\ \A i \in 1..n : SubSeq(s, 1, n)[i] = s[i]
OBVIOUS

\* What remains behind the first n messages.
LEMMA SplicedFacts ==
    ASSUME NEW s \in Seq(Messages), NEW n \in 0..Len(s)
    PROVE  /\ Spliced(s, n) \in Seq(Messages) /\ Len(Spliced(s, n)) = Len(s) - n
           /\ DOMAIN Spliced(s, n) = 1..(Len(s) - n)
           /\ \A i \in 1..(Len(s) - n) : Spliced(s, n)[i] = s[n + i]
BY DEF Spliced

\* What a queue starts with keeps its order.
LEMMA StartsMeans ==
    ASSUME NEW s \in Seq(Messages), NEW prompt \in Seq(Messages), NEW rest \in Seq(Messages),
           Distinct(s), StartsWith(s, prompt, rest)
    PROVE  /\ Distinct(prompt) /\ Distinct(rest) /\ Apart(prompt, rest)
           /\ NoLater(s, prompt, 0) /\ NoLater(s, rest, Len(prompt))
           /\ \A m \in Elements(prompt) \cup Elements(rest) : m \in Elements(s)
<1>1. /\ Len(s) \in Nat /\ Len(prompt) \in Nat /\ Len(rest) \in Nat
      /\ DOMAIN s = 1..Len(s) /\ DOMAIN prompt = 1..Len(prompt) /\ DOMAIN rest = 1..Len(rest)
      /\ Len(prompt) + Len(rest) <= Len(s)
  BY DEF StartsWith
<1>2. \A j \in DOMAIN prompt : j \in DOMAIN s /\ s[j] = prompt[j]
  BY <1>1 DEF StartsWith
<1>3. \A j \in DOMAIN rest : Len(prompt) + j \in DOMAIN s /\ s[Len(prompt) + j] = rest[j]
  BY <1>1 DEF StartsWith
<1>4. Distinct(prompt)
  BY <1>2 DEF Distinct
<1>5. Distinct(rest)
  BY <1>1, <1>3 DEF Distinct
<1>6. Apart(prompt, rest)
  <2> SUFFICES ASSUME NEW i \in DOMAIN prompt, NEW j \in DOMAIN rest, prompt[i] = rest[j] PROVE FALSE
    BY DEF Apart
  <2>1. i = Len(prompt) + j
    BY <1>2, <1>3 DEF Distinct
  <2> QED
    BY <1>1, <2>1
<1>7. NoLater(s, prompt, 0)
  <2> SUFFICES ASSUME NEW i \in DOMAIN s, NEW j \in DOMAIN prompt, s[i] = prompt[j] PROVE i <= 0 + j
    BY DEF NoLater
  <2>1. i = j
    BY <1>2 DEF Distinct
  <2> QED
    BY <1>1, <2>1
<1>8. NoLater(s, rest, Len(prompt))
  <2> SUFFICES ASSUME NEW i \in DOMAIN s, NEW j \in DOMAIN rest, s[i] = rest[j]
               PROVE  i <= Len(prompt) + j
    BY DEF NoLater
  <2>1. i = Len(prompt) + j
    BY <1>3 DEF Distinct
  <2> QED
    BY <1>1, <2>1
<1>9. \A m \in Elements(prompt) \cup Elements(rest) : m \in Elements(s)
  BY <1>2, <1>3 DEF Elements
<1> QED
  BY <1>4, <1>5, <1>6, <1>7, <1>8, <1>9

\* A number of a set that no other one of the set is below.
LEMMA LeastElement ==
    ASSUME NEW T \in SUBSET Nat, T # {}
    PROVE  \E x \in T : \A y \in T : ~(y < x)
<1> DEFINE R == OpToRel(<, Nat)
<1>1. IsWellFoundedOn(R, Nat)
  BY NatLessThanWellFounded
<1>2. \A x, y \in Nat : y < x => <<y, x>> \in R
  BY DEF OpToRel
<1> HIDE DEF R
<1>3. PICK x \in T : \A y \in T : ~(<<y, x>> \in R)
  BY <1>1, WFMin
<1>4. \A y \in T : ~(y < x)
  <2> SUFFICES ASSUME NEW y \in T, y < x PROVE FALSE
    OBVIOUS
  <2>1. x \in Nat /\ y \in Nat
    OBVIOUS
  <2>2. <<y, x>> \in R
    BY <1>2, <2>1
  <2> QED
    BY <1>3, <2>2
<1> QED
  BY <1>4

\* splitCollectItemsByAuthorization finds a first group in a queue that is not empty.
LEMMA GroupExists ==
    ASSUME NEW s \in Seq(Messages), s # <<>>
    PROVE  GroupSize(s) \in 1..Len(s)
<1> DEFINE auth(i) == AuthOf[s[i]]
           T == {n \in 1..Len(s) : n = Len(s) \/ auth(n + 1) # auth(1)}
<1>1. Len(s) \in Nat /\ Len(s) >= 1
  OBVIOUS
<1>2. T \in SUBSET Nat /\ T # {}
  BY <1>1
<1>3. PICK x \in T : \A y \in T : ~(y < x)
  BY <1>2, LeastElement
<1>4. \A i \in 1..x : auth(i) = auth(1)
  <2> SUFFICES ASSUME NEW i \in 1..x, i # 1 PROVE auth(i) = auth(1)
    OBVIOUS
  <2>1. i - 1 \in 1..Len(s) /\ i - 1 < x /\ (i - 1) + 1 = i
    BY <1>1, <1>3
  <2>2. i - 1 \notin T
    BY <1>3, <2>1
  <2>3. ~(i - 1 = Len(s) \/ auth((i - 1) + 1) # auth(1))
    BY <2>1, <2>2
  <2> QED
    BY <2>1, <2>3
<1>5. x \in 1..Len(s) /\ (x = Len(s) \/ auth(x + 1) # auth(1))
  BY <1>3
<1>6. \E n \in 1..Len(s) : /\ \A i \in 1..n : AuthOf[s[i]] = AuthOf[s[1]]
                           /\ n = Len(s) \/ AuthOf[s[n + 1]] # AuthOf[s[1]]
  BY <1>4, <1>5
<1> QED
  BY <1>6 DEF GroupSize

\* A group and the rest of the snapshot are the snapshot.
LEMMA GroupFacts ==
    ASSUME NEW s \in Seq(Messages), s # <<>>, NEW summary \in SUBSET Messages, Distinct(s)
    PROVE  /\ GroupRun(s, summary) \in Calls
           /\ GroupRun(s, summary).kind = "group"
           /\ GroupRun(s, summary).summary = summary
           /\ CallShape(GroupRun(s, summary))
           /\ StartsWith(s, GroupRun(s, summary).prompt, GroupRun(s, summary).rest)
<1> DEFINE g == GroupSize(s)
           prompt == SubSeq(s, 1, g)
           rest == Spliced(s, g)
           call == GroupRun(s, summary)
<1>1. g \in 1..Len(s) /\ Len(s) \in Nat /\ DOMAIN s = 1..Len(s)
  BY GroupExists
<1> HIDE DEF g
<1>2. g \in 0..Len(s)
  BY <1>1
<1>3. prompt \in Seq(Messages) /\ Len(prompt) = g /\ DOMAIN prompt = 1..g
      /\ \A i \in 1..g : prompt[i] = s[i]
  BY <1>2, FrontFacts
<1>4. rest \in Seq(Messages) /\ Len(rest) = Len(s) - g /\ DOMAIN rest = 1..(Len(s) - g)
      /\ \A i \in 1..(Len(s) - g) : rest[i] = s[g + i]
  BY <1>2, SplicedFacts
<1>5. call.kind = "group" /\ call.prompt = prompt /\ call.summary = summary /\ call.rest = rest
  BY DEF GroupRun, Run, g
<1>6. call = [kind |-> "group", prompt |-> prompt, summary |-> summary, rest |-> rest]
  BY DEF GroupRun, Run, g
<1> HIDE DEF prompt, rest, call
<1>7. call \in Calls
  BY <1>3, <1>4, <1>6 DEF Calls, Kinds
<1>8. StartsWith(s, prompt, rest)
  BY <1>1, <1>3, <1>4 DEF StartsWith
<1>9. Distinct(prompt) /\ Distinct(rest) /\ Apart(prompt, rest)
  BY <1>3, <1>4, <1>8, StartsMeans
<1>10. CallShape(call)
  BY <1>5, <1>9 DEF CallShape
<1> QED
  BY <1>5, <1>7, <1>8, <1>10 DEF call

-----------------------------------------------------------------------------
(* What becomes of a queue object. *)

\* A queue object that got no message: it is well formed, holds no more than it did,
\* and is as calm as it was.
Sheds(old, new) ==
    /\ Shape(new)
    /\ \A m \in Messages : Holds(new, m) => Holds(old, m)
    /\ \A live \in BOOLEAN : Calm(old, live) => Calm(new, live)
Objects(f) == f \in [QueueIds -> QueueObjects] /\ \A q \in QueueIds : Shape(f[q])
AllShed(f, g) == Objects(g) /\ \A q \in QueueIds : Sheds(f[q], g[q])

\* The three calls without a prompt.
LEMMA CallTypes ==
    /\ NoCall \in Calls /\ Debounce \in Calls /\ Spin \in Calls
    /\ NoCall.kind = "none" /\ Debounce.kind = "debounce" /\ Spin.kind = "spin"
    /\ NoCall # Debounce /\ NoCall # Spin
    /\ CallShape(NoCall) /\ CallShape(Debounce) /\ CallShape(Spin)
    /\ NoCall.prompt = <<>> /\ NoCall.rest = <<>> /\ NoCall.summary = {}
    /\ Debounce.prompt = <<>> /\ Debounce.rest = <<>> /\ Debounce.summary = {}
    /\ Spin.prompt = <<>> /\ Spin.rest = <<>> /\ Spin.summary = {}
<1>1. <<>> \in Seq(Messages) /\ {} \in SUBSET Messages
  OBVIOUS
<1>2. NoCall \in Calls /\ Debounce \in Calls /\ Spin \in Calls
  BY <1>1 DEF NoCall, Debounce, Spin, Calls, Kinds
<1>3. NoCall.kind = "none" /\ Debounce.kind = "debounce" /\ Spin.kind = "spin"
  BY DEF NoCall, Debounce, Spin
<1>4. NoCall.prompt = <<>> /\ NoCall.rest = <<>> /\ NoCall.summary = {}
      /\ Debounce.prompt = <<>> /\ Debounce.rest = <<>> /\ Debounce.summary = {}
      /\ Spin.prompt = <<>> /\ Spin.rest = <<>> /\ Spin.summary = {}
  BY DEF NoCall, Debounce, Spin
<1>5. Distinct(<<>>) /\ Apart(<<>>, <<>>)
  BY DEF Distinct, Apart
<1> QED
  BY <1>2, <1>3, <1>4, <1>5 DEF CallShape

\* The types of a queue object, field by field.
LEMMA QueueFields ==
    ASSUME NEW queue \in QueueObjects
    PROVE  /\ queue.items \in Seq(Messages) /\ queue.dropped \subseteq Messages
           /\ queue.mode \in {"collect", "followup"} /\ queue.dropPolicy \in {"summarize", "old", "new"}
           /\ queue.cap \in Nat /\ queue.cap > 0
           /\ queue.draining \in BOOLEAN /\ queue.single \in BOOLEAN
           /\ queue.call \in Calls
           /\ queue.call.prompt \in Seq(Messages) /\ queue.call.rest \in Seq(Messages)
           /\ queue.call.summary \subseteq Messages /\ queue.call.kind \in Kinds
BY DEF QueueObjects, Calls

\* An object keeps its shape under a call that starts with what the queue has.
LEMMA ShapeOfCall ==
    ASSUME NEW queue \in QueueObjects, Distinct(queue.items), CallShape(queue.call),
           queue.draining <=> queue.call # NoCall,
           StartsWith(queue.items, queue.call.prompt, queue.call.rest)
    PROVE  Shape(queue)
BY QueueFields, StartsMeans DEF Shape

\* A drain that is idle, at its debounce or spinning holds what is queued.
LEMMA QuietSheds ==
    ASSUME NEW old \in QueueObjects, Shape(old), NEW new \in QueueObjects,
           new.items = old.items, new.dropped = old.dropped,
           new.call \in {NoCall, Debounce, Spin}, new.draining <=> new.call # NoCall
    PROVE  Sheds(old, new)
<1>1. new.call.prompt = <<>> /\ new.call.rest = <<>> /\ new.call.summary = {}
      /\ new.call.kind \in {"none", "debounce", "spin"} /\ CallShape(new.call)
  BY CallTypes
<1>2. Elements(<<>>) = {}
  BY DEF Elements
<1>3. StartsWith(new.items, <<>>, <<>>)
  BY QueueFields DEF StartsWith
<1>4. Shape(new)
  BY <1>1, <1>3, ShapeOfCall DEF Shape
<1>5. \A m \in Messages : Holds(new, m) => Holds(old, m)
  BY <1>1, <1>2 DEF Holds
<1>6. \A live \in BOOLEAN : Calm(old, live) => Calm(new, live)
  BY <1>1, <1>3 DEF Calm, Begins
<1> QED
  BY <1>4, <1>5, <1>6 DEF Sheds

\* A queue left alone sheds nothing.
LEMMA SameSheds ==
    ASSUME NEW queue, Shape(queue)
    PROVE  Sheds(queue, queue)
BY DEF Sheds

\* Shedding twice is shedding.
LEMMA ShedsTwice ==
    ASSUME NEW f, NEW g, NEW h, AllShed(f, g), AllShed(g, h)
    PROVE  AllShed(f, h)
BY DEF AllShed, Sheds

\* One object changes.
LEMMA OneSheds ==
    ASSUME NEW f, Objects(f), NEW q \in QueueIds, NEW new \in QueueObjects, Sheds(f[q], new)
    PROVE  AllShed(f, [f EXCEPT ![q] = new])
<1> DEFINE g == [f EXCEPT ![q] = new]
<1>1. g \in [QueueIds -> QueueObjects] /\ g[q] = new /\ \A p \in QueueIds : p # q => g[p] = f[p]
  BY DEF Objects
<1> HIDE DEF g
<1>2. \A p \in QueueIds : Sheds(f[p], g[p])
  BY <1>1, SameSheds DEF Objects
<1> QED
  BY <1>1, <1>2 DEF AllShed, Objects, Sheds, g

\* scheduleFollowupDrain starts a drain or drops an empty entry.
LEMMA ScheduledSheds ==
    ASSUME NEW objects, Objects(objects), NEW e, e \in QueueIds \/ e = NoQueue
    PROVE  /\ AllShed(objects, Scheduled(objects, e).queues)
           /\ Scheduled(objects, e).entry = e \/ Scheduled(objects, e).entry = NoQueue
<1>1. AllShed(objects, objects)
  BY SameSheds DEF AllShed, Objects
<1>2. CASE e = NoQueue \/ objects[e].draining
  BY <1>1, <1>2 DEF Scheduled
<1>3. CASE e # NoQueue /\ ~objects[e].draining
  <2>1. e \in QueueIds /\ objects[e] \in QueueObjects /\ Shape(objects[e])
    BY <1>3 DEF Objects
  <2> DEFINE new == [objects[e] EXCEPT !.draining = TRUE, !.single = FALSE, !.call = Debounce]
             started == [objects EXCEPT ![e].draining = TRUE, ![e].single = FALSE, ![e].call = Debounce]
  <2>2. started = [objects EXCEPT ![e] = new]
    BY <2>1 DEF Objects
  <2>3. new \in QueueObjects /\ new.items = objects[e].items /\ new.dropped = objects[e].dropped
        /\ new.call = Debounce /\ new.draining = TRUE
    BY <2>1, CallTypes DEF QueueObjects
  <2> HIDE DEF new
  <2>4. Sheds(objects[e], new)
    BY <2>1, <2>3, CallTypes, QuietSheds
  <2>5. AllShed(objects, started)
    BY <2>1, <2>2, <2>3, <2>4, OneSheds
  <2> HIDE DEF started
  <2>6. CASE HasWork(objects[e])
    <3>1. Scheduled(objects, e) = [queues |-> started, entry |-> e]
      BY <1>3, <2>6 DEF Scheduled, started
    <3> QED
      BY <2>1, <2>5, <3>1
  <2>7. CASE ~HasWork(objects[e])
    <3>1. Scheduled(objects, e) = [queues |-> objects, entry |-> NoQueue]
      BY <1>3, <2>7 DEF Scheduled
    <3> QED
      BY <1>1, <3>1
  <2> QED
    BY <2>6, <2>7
<1> QED
  BY <1>2, <1>3

\* The finally block of a drain.
LEMMA EndedSheds ==
    ASSUME Types, NEW objects, Objects(objects), NEW q \in QueueIds
    PROVE  /\ AllShed(objects, Ended(objects, q).queues)
           /\ Ended(objects, q).entry = entry \/ Ended(objects, q).entry = NoQueue
<1> DEFINE new == [objects[q] EXCEPT !.draining = FALSE, !.call = NoCall]
           over == [objects EXCEPT ![q].draining = FALSE, ![q].call = NoCall]
<1>1. objects[q] \in QueueObjects /\ Shape(objects[q])
  BY DEF Objects
<1>2. over = [objects EXCEPT ![q] = new]
  BY DEF Objects
<1>3. new \in QueueObjects /\ new.items = objects[q].items /\ new.dropped = objects[q].dropped
      /\ new.call = NoCall /\ new.draining = FALSE
  BY <1>1, CallTypes DEF QueueObjects
<1> HIDE DEF new
<1>4. Sheds(objects[q], new)
  BY <1>1, <1>3, QuietSheds
<1>5. AllShed(objects, over)
  BY <1>2, <1>3, <1>4, OneSheds
<1> HIDE DEF over
<1>6. entry \in QueueIds \/ entry = NoQueue
  BY DEF Types
<1>7. CASE HasWork(over[q])
  <2>1. Ended(objects, q) = Scheduled(over, entry)
    BY <1>7 DEF Ended, over
  <2>2. AllShed(over, Scheduled(over, entry).queues)
        /\ (Scheduled(over, entry).entry = entry \/ Scheduled(over, entry).entry = NoQueue)
    BY <1>5, <1>6, ScheduledSheds DEF AllShed
  <2>3. AllShed(objects, Scheduled(over, entry).queues)
    BY <1>5, <2>2, ShedsTwice
  <2> QED
    BY <2>1, <2>2, <2>3
<1>8. CASE ~HasWork(over[q])
  <2>1. Ended(objects, q) = [queues |-> over, entry |-> IF entry = q THEN NoQueue ELSE entry]
    BY <1>8 DEF Ended, over
  <2> QED
    BY <1>5, <1>6, <2>1
<1> QED
  BY <1>7, <1>8

\* The condition of the drain loop.
LEMMA ContinuedSheds ==
    ASSUME Types, NEW objects, Objects(objects), NEW q \in QueueIds, objects[q].draining
    PROVE  /\ AllShed(objects, Continued(objects, q).queues)
           /\ Continued(objects, q).entry = entry \/ Continued(objects, q).entry = NoQueue
<1> DEFINE new == [objects[q] EXCEPT !.call = Debounce]
           again == [objects EXCEPT ![q].call = Debounce]
<1>1. objects[q] \in QueueObjects /\ Shape(objects[q])
  BY DEF Objects
<1>2. again = [objects EXCEPT ![q] = new]
  BY DEF Objects
<1>3. new \in QueueObjects /\ new.items = objects[q].items /\ new.dropped = objects[q].dropped
      /\ new.call = Debounce /\ new.draining = objects[q].draining
  BY <1>1, CallTypes DEF QueueObjects
<1> HIDE DEF new
<1>4. Sheds(objects[q], new)
  BY <1>1, <1>3, CallTypes, QuietSheds
<1>5. AllShed(objects, again)
  BY <1>2, <1>3, <1>4, OneSheds
<1> HIDE DEF again
<1>6. CASE HasWork(objects[q])
  <2>1. Continued(objects, q) = [queues |-> again, entry |-> entry]
    BY <1>6 DEF Continued, again
  <2> QED
    BY <1>5, <2>1 DEF Types
<1>7. CASE ~HasWork(objects[q])
  BY <1>7, EndedSheds DEF Continued
<1> QED
  BY <1>6, <1>7

-----------------------------------------------------------------------------
(* The actions on queue objects. *)

\* The call a drain makes starts with what the queue has.
LEMMA NextCallFacts ==
    ASSUME NEW queue \in QueueObjects, Distinct(queue.items), NEW single
    PROVE  LET call == NextCall(queue, single)
           IN  /\ call \in Calls /\ CallShape(call)
               /\ StartsWith(queue.items, call.prompt, call.rest)
               /\ queue.dropped = {} => /\ call.summary = {}
                                        /\ call.kind \notin {"summary", "summaryForItem"}
<1> DEFINE call == NextCall(queue, single)
           summary == Summary(queue)
           Good(c) == /\ c \in Calls /\ CallShape(c)
                      /\ StartsWith(queue.items, c.prompt, c.rest)
                      /\ queue.dropped = {} => /\ c.summary = {}
                                               /\ c.kind \notin {"summary", "summaryForItem"}
<1>1. summary \in SUBSET Messages /\ (queue.dropped = {} => summary = {})
  BY QueueFields DEF Summary
<1>2. queue.items \in Seq(Messages) /\ queue.mode \in {"collect", "followup"}
  BY QueueFields
<1>3. <<>> \in Seq(Messages) /\ Distinct(<<>>) /\ Apart(<<>>, <<>>) /\ Len(<<>>) = 0
      /\ StartsWith(queue.items, <<>>, <<>>)
  BY <1>2 DEF Distinct, Apart, StartsWith
<1>4. Good(NoCall)
  BY <1>3, CallTypes
<1>5. ASSUME NEW kind \in {"summary", "summaryForItem"}, summary # {}
      PROVE  Good(Run(kind, <<>>, summary, <<>>))
  <2> DEFINE c == [kind |-> kind, prompt |-> <<>>, summary |-> summary, rest |-> <<>>]
  <2>1. c = Run(kind, <<>>, summary, <<>>)
    BY DEF Run
  <2>2. c \in Calls
    BY <1>1, <1>3 DEF Calls, Kinds
  <2>3. CallShape(c)
    BY <1>3 DEF CallShape
  <2>4. StartsWith(queue.items, c.prompt, c.rest) /\ queue.dropped # {}
    BY <1>1, <1>3, <1>5
  <2> HIDE DEF c
  <2> QED
    BY <2>1, <2>2, <2>3, <2>4
<1>6. ASSUME queue.items # <<>>
      PROVE  Good(Run("item", <<Head(queue.items)>>, {}, <<>>))
  <2> DEFINE prompt == <<Head(queue.items)>>
             c == [kind |-> "item", prompt |-> prompt, summary |-> {}, rest |-> <<>>]
  <2>1. prompt \in Seq(Messages) /\ Len(prompt) = 1 /\ DOMAIN prompt = {1}
        /\ prompt[1] = queue.items[1] /\ Len(queue.items) >= 1 /\ Len(queue.items) \in Nat
    BY <1>2, <1>6
  <2> HIDE DEF prompt
  <2>2. c \in Calls
    BY <1>3, <2>1 DEF Calls, Kinds
  <2>3. Distinct(prompt) /\ Apart(prompt, <<>>)
    BY <2>1 DEF Distinct, Apart
  <2>4. CallShape(c)
    BY <1>3, <2>1, <2>3 DEF CallShape
  <2>5. StartsWith(queue.items, prompt, <<>>)
    BY <1>3, <2>1 DEF StartsWith
  <2>6. c = Run("item", <<Head(queue.items)>>, {}, <<>>)
    BY DEF Run, prompt
  <2>7. c.prompt = prompt /\ c.rest = <<>> /\ c.summary = {} /\ c.kind = "item"
    OBVIOUS
  <2> HIDE DEF c
  <2> QED
    BY <2>2, <2>4, <2>5, <2>6, <2>7
<1>7. ASSUME queue.items # <<>> PROVE Good(GroupRun(queue.items, summary))
  BY <1>1, <1>2, <1>7, GroupFacts
<1>8. \/ call = NoCall
      \/ summary # {} /\ \E kind \in {"summary", "summaryForItem"} :
                            call = Run(kind, <<>>, summary, <<>>)
      \/ queue.items # <<>> /\ call = Run("item", <<Head(queue.items)>>, {}, <<>>)
      \/ queue.items # <<>> /\ call = GroupRun(queue.items, summary)
  <2> HIDE DEF summary
  <2>1. CASE queue.items = <<>>
    BY <2>1 DEF NextCall, summary
  <2>2. CASE queue.items # <<>> /\ queue.mode = "collect"
    BY <2>2 DEF NextCall, summary
  <2>3. CASE queue.items # <<>> /\ queue.mode = "followup"
    BY <2>3 DEF NextCall, summary
  <2> QED
    BY <1>2, <2>1, <2>2, <2>3
<1> HIDE DEF call, summary, Good
<1>9. Good(call)
  BY <1>4, <1>5, <1>6, <1>7, <1>8
<1> QED
  BY <1>9 DEF Good, call

\* The loop breaks.
LEMMA BrokenSheds ==
    ASSUME Types, NEW objects, Objects(objects), NEW q \in QueueIds, objects[q].draining
    PROVE  /\ AllShed(objects, Broken(objects, q).queues)
           /\ Broken(objects, q).entry = entry \/ Broken(objects, q).entry = NoQueue
<1> DEFINE new == [objects[q] EXCEPT !.call = Spin]
<1>1. objects[q] \in QueueObjects /\ Shape(objects[q])
  BY DEF Objects
<1>2. new \in QueueObjects /\ new.items = objects[q].items /\ new.dropped = objects[q].dropped
      /\ new.call = Spin /\ new.draining
  BY <1>1, CallTypes DEF QueueObjects
<1>3. [objects EXCEPT ![q].call = Spin] = [objects EXCEPT ![q] = new]
  BY DEF Objects
<1> HIDE DEF new
<1>4. Sheds(objects[q], new)
  BY <1>1, <1>2, CallTypes, QuietSheds
<1>5. AllShed(objects, [objects EXCEPT ![q] = new])
  BY <1>2, <1>4, OneSheds
<1>6. CASE entry = q /\ HasWork(objects[q])
  BY <1>3, <1>5, <1>6 DEF Broken
<1>7. CASE ~(entry = q /\ HasWork(objects[q]))
  <2>1. Broken(objects, q) = Ended(objects, q)
    BY <1>7 DEF Broken
  <2> QED
    BY <2>1, EndedSheds
<1> QED
  BY <1>6, <1>7

\* waitForQueueDebounce returns: the next call is prepared from what the queue holds.
LEMMA DebounceSheds ==
    ASSUME Types, OnceInv, NEW q \in QueueIds, DebouncePasses(q)
    PROVE  AllShed(queues, queues') /\ (entry' = entry \/ entry' = NoQueue)
<1> DEFINE single == queues[q].single \/ CrossChannel(queues[q].items)
           call == NextCall(queues[q], single)
           kept == IF queues[q].mode = "collect" THEN single ELSE queues[q].single
           new == [queues[q] EXCEPT !.call = call, !.single = kept]
<1>1. Objects(queues) /\ queues[q] \in QueueObjects /\ Shape(queues[q])
  BY DEF Types, OnceInv, Objects
<1>2. queues[q].call = Debounce /\ queues[q].draining
  <2>1. queues[q].call = Debounce
    BY DEF DebouncePasses
  <2> QED
    BY <1>1, <2>1, CallTypes DEF Shape
<1>3. call \in Calls /\ CallShape(call) /\ StartsWith(queues[q].items, call.prompt, call.rest)
      /\ (queues[q].dropped = {} => call.summary = {} /\ call.kind \notin {"summary", "summaryForItem"})
  BY <1>1, NextCallFacts DEF Shape
<1>4. kept \in BOOLEAN
  <2>1. single \in BOOLEAN
    OBVIOUS
  <2>2. queues[q].single \in BOOLEAN
    BY <1>1, QueueFields
  <2> HIDE DEF single
  <2> QED
    BY <2>1, <2>2
<1>5. CASE call = NoCall
  <2>1. queues' = Broken(queues, q).queues /\ entry' = Broken(queues, q).entry
    BY <1>5 DEF DebouncePasses, Becomes
  <2> QED
    BY <1>1, <1>2, <2>1, BrokenSheds
<1>6. CASE call # NoCall
  <2>1. queues' = [queues EXCEPT ![q].call = call, ![q].single = IF queues[q].mode = "collect" THEN single ELSE @]
        /\ entry' = entry
    BY <1>6 DEF DebouncePasses, Becomes
  <2> HIDE DEF call, single
  <2>2. queues' = [queues EXCEPT ![q] = new]
    BY <1>1, <2>1 DEF Objects, QueueObjects
  <2> HIDE DEF kept
  <2>3. new \in QueueObjects /\ new.items = queues[q].items /\ new.dropped = queues[q].dropped
        /\ new.call = call /\ new.draining = queues[q].draining
    BY <1>1, <1>3, <1>4 DEF QueueObjects
  <2> HIDE DEF new
  <2>4. Shape(new)
    BY <1>1, <1>2, <1>3, <1>6, <2>3, ShapeOfCall DEF Shape
  <2>5. \A m \in Messages : Holds(new, m) => Holds(queues[q], m)
    <3>1. \A m \in Elements(call.prompt) \cup Elements(call.rest) : m \in Elements(queues[q].items)
      <4>1. queues[q].items \in Seq(Messages) /\ call.prompt \in Seq(Messages) /\ call.rest \in Seq(Messages)
        BY <1>1, <1>3, QueueFields DEF Calls
      <4> QED
        BY <1>1, <1>3, <4>1, StartsMeans DEF Shape
    <3> QED
      BY <2>3, <3>1 DEF Holds
  <2>6. \A live \in BOOLEAN : Calm(queues[q], live) => Calm(new, live)
    BY <1>3, <2>3 DEF Calm, Begins
  <2>7. Sheds(queues[q], new)
    BY <2>4, <2>5, <2>6 DEF Sheds
  <2>8. AllShed(queues, [queues EXCEPT ![q] = new])
    BY <1>1, <2>3, <2>7, OneSheds
  <2> QED
    BY <2>1, <2>2, <2>8
<1> QED
  BY <1>5, <1>6

\* The messages of a run: it takes at least as many places off the queue as its prompt
\* has, so that none of them stays, and the rest of the snapshot keeps its order.
LEMMA ReturnedItems ==
    ASSUME NEW queue \in QueueObjects, Shape(queue), Calling(queue), NEW n,
           n = IF Consumed(queue.call) <= Len(queue.items) THEN Consumed(queue.call) ELSE Len(queue.items)
    PROVE  /\ n \in 0..Len(queue.items)
           /\ Spliced(queue.items, n) \in Seq(Messages)
           /\ Distinct(Spliced(queue.items, n))
           /\ \A m \in Elements(Spliced(queue.items, n)) : m \in Elements(queue.items)
           /\ Apart(Spliced(queue.items, n), queue.call.prompt)
           /\ queue.call.rest # <<>> => NoLater(Spliced(queue.items, n), queue.call.rest, 0)
<1> DEFINE items == queue.items
           prompt == queue.call.prompt
           rest == queue.call.rest
           r == Spliced(items, n)
           k == Consumed(queue.call)
<1>1. items \in Seq(Messages) /\ prompt \in Seq(Messages) /\ rest \in Seq(Messages)
      /\ queue.call.kind \in Kinds
  BY QueueFields
<1>2. Len(items) \in Nat /\ DOMAIN items = 1..Len(items)
      /\ Len(prompt) \in Nat /\ DOMAIN prompt = 1..Len(prompt)
      /\ Len(rest) \in Nat /\ DOMAIN rest = 1..Len(rest)
  BY <1>1
<1>3. queue.call.kind \in {"item", "group", "summary", "summaryForItem"}
  BY <1>1 DEF Calling, Kinds
<1>4. CallShape(queue.call) /\ Distinct(items) /\ NoLater(items, prompt, 0)
      /\ NoLater(items, rest, Len(prompt))
  BY DEF Shape
<1>5. k \in Nat /\ k >= Len(prompt)
  <2>1. CASE queue.call.kind = "item"
    <3>1. Len(prompt) = 1
      BY <1>4, <2>1 DEF CallShape
    <3>2. k = 1
      BY <2>1 DEF Consumed
    <3> HIDE DEF prompt, k
    <3> QED
      BY <3>1, <3>2
  <2>2. CASE queue.call.kind = "group"
    BY <1>2, <2>2 DEF Consumed
  <2>3. CASE queue.call.kind \in {"summary", "summaryForItem"}
    <3>1. prompt = <<>>
      BY <1>4, <2>3 DEF CallShape
    <3>2. Len(<<>>) = 0
      OBVIOUS
    <3>3. k \in {0, 1}
      BY <2>3 DEF Consumed
    <3> HIDE DEF prompt, k
    <3> QED
      BY <3>1, <3>2, <3>3
  <2> QED
    BY <1>3, <2>1, <2>2, <2>3
<1>6. rest # <<>> => k = Len(prompt)
  BY <1>4 DEF CallShape, Consumed
<1> HIDE DEF items, prompt, rest, k, r
<1>7. n = IF k <= Len(items) THEN k ELSE Len(items)
  BY DEF items, k
<1>8. n \in 0..Len(items)
  <2>1. CASE k <= Len(items)
    <3>1. n = k
      BY <1>7, <2>1
    <3> QED
      BY <1>2, <1>5, <2>1, <3>1
  <2>2. CASE ~(k <= Len(items))
    <3>1. n = Len(items)
      BY <1>7, <2>2
    <3> QED
      BY <1>2, <3>1
  <2> QED
    BY <2>1, <2>2
<1>9. r \in Seq(Messages) /\ DOMAIN r = 1..(Len(items) - n) /\ n \in Nat
      /\ \A i \in DOMAIN r : i \in Nat /\ i >= 1 /\ n + i \in DOMAIN items /\ r[i] = items[n + i]
  <2>1. r \in Seq(Messages) /\ DOMAIN r = 1..(Len(items) - n)
        /\ \A i \in 1..(Len(items) - n) : r[i] = items[n + i]
    BY <1>1, <1>8, SplicedFacts DEF r
  <2>2. \A i \in 1..(Len(items) - n) : i \in Nat /\ i >= 1 /\ n + i \in 1..Len(items)
    BY <1>2, <1>8
  <2> QED
    BY <1>2, <1>8, <2>1, <2>2, SMTT(30)
<1>10. DOMAIN r # {} => n = k
  <2> SUFFICES ASSUME NEW i \in DOMAIN r PROVE n = k
    OBVIOUS
  <2>1. n + i <= Len(items) /\ i >= 1 /\ i \in Nat
    BY <1>2, <1>9
  <2> QED
    <3>1. n # Len(items)
      BY <1>2, <1>9, <2>1
    <3> QED
      BY <1>7, <3>1
<1>11. Distinct(r)
  <2> SUFFICES ASSUME NEW i \in DOMAIN r, NEW j \in DOMAIN r, r[i] = r[j] PROVE i = j
    BY DEF Distinct
  <2>1. n + i = n + j
    BY <1>4, <1>9 DEF Distinct
  <2> QED
    BY <1>9, <2>1
<1>12. \A m \in Elements(r) : m \in Elements(items)
  BY <1>9 DEF Elements
<1>13. Apart(r, prompt)
  <2> SUFFICES ASSUME NEW i \in DOMAIN r, NEW j \in DOMAIN prompt, r[i] = prompt[j] PROVE FALSE
    BY DEF Apart
  <2>1. n + i <= 0 + j
    BY <1>4, <1>9 DEF NoLater
  <2> QED
    BY <1>2, <1>5, <1>9, <1>10, <2>1, SMTT(30)
<1>14. rest # <<>> => NoLater(r, rest, 0)
  <2> SUFFICES ASSUME rest # <<>>, NEW i \in DOMAIN r, NEW j \in DOMAIN rest, r[i] = rest[j]
               PROVE  i <= 0 + j
    BY DEF NoLater
  <2>1. n + i <= Len(prompt) + j
    BY <1>4, <1>9 DEF NoLater
  <2> QED
    BY <1>2, <1>6, <1>9, <1>10, <2>1, SMTT(30)
<1> QED
  BY <1>8, <1>9, <1>11, <1>12, <1>13, <1>14 DEF items, prompt, rest, r

\* The front of a queue that never overflowed is what the run had.
LEMMA CalmReturn ==
    ASSUME NEW queue \in QueueObjects, Shape(queue), Calling(queue), NEW live \in BOOLEAN,
           Calm(queue, live), NEW n,
           n = IF Consumed(queue.call) <= Len(queue.items) THEN Consumed(queue.call) ELSE Len(queue.items)
    PROVE  /\ Elements(SubSeq(queue.items, 1, n)) \subseteq Elements(queue.call.prompt)
           /\ \/ StartsWith(Spliced(queue.items, n), queue.call.rest, <<>>)
              \/ ~live /\ Spliced(queue.items, n) = <<>>
<1> DEFINE items == queue.items
           prompt == queue.call.prompt
           rest == queue.call.rest
           k == Consumed(queue.call)
<1>1. items \in Seq(Messages) /\ prompt \in Seq(Messages) /\ rest \in Seq(Messages)
      /\ queue.call.kind \in Kinds
  BY QueueFields
<1>2. Len(items) \in Nat /\ DOMAIN items = 1..Len(items)
      /\ Len(prompt) \in Nat /\ DOMAIN prompt = 1..Len(prompt)
      /\ Len(rest) \in Nat /\ DOMAIN rest = 1..Len(rest)
  BY <1>1
<1>3. queue.call.kind \in {"item", "group"}
  BY <1>1 DEF Calling, Kinds, Calm
<1>4. k = Len(prompt)
  BY <1>3 DEF Shape, CallShape, Consumed
<1>5. n \in 0..Len(items)
  BY ReturnedItems
<1>6. StartsWith(items, prompt, rest) \/ (~live /\ items = <<>>)
  BY DEF Calm, Begins
<1>7. n = IF k <= Len(items) THEN k ELSE Len(items)
  OBVIOUS
<1>8. /\ Spliced(items, n) \in Seq(Messages) /\ Len(Spliced(items, n)) = Len(items) - n
      /\ \A i \in 1..(Len(items) - n) : Spliced(items, n)[i] = items[n + i]
  BY <1>1, <1>5, SplicedFacts
<1>9. DOMAIN SubSeq(items, 1, n) = 1..n /\ \A i \in 1..n : SubSeq(items, 1, n)[i] = items[i]
  BY <1>1, <1>5, FrontFacts
<1> HIDE DEF items, prompt, rest, k
<1>10. CASE StartsWith(items, prompt, rest)
  <2>1. Len(prompt) + Len(rest) <= Len(items)
        /\ (\A j \in 1..Len(prompt) : items[j] = prompt[j])
        /\ (\A j \in 1..Len(rest) : items[Len(prompt) + j] = rest[j])
    BY <1>2, <1>10 DEF StartsWith
  <2>2. n = Len(prompt)
    BY <1>2, <1>4, <1>7, <2>1
  <2>3. Elements(SubSeq(items, 1, n)) \subseteq Elements(prompt)
    BY <1>2, <1>9, <2>1, <2>2 DEF Elements
  <2>4. StartsWith(Spliced(items, n), rest, <<>>)
    <3>1. Len(<<>>) = 0 /\ DOMAIN <<>> = {}
      OBVIOUS
    <3>2. \A j \in DOMAIN rest : Spliced(items, n)[j] = rest[j]
      <4> SUFFICES ASSUME NEW j \in 1..Len(rest) PROVE Spliced(items, n)[j] = rest[j]
        BY <1>2
      <4>1. j \in 1..(Len(items) - n)
        BY <1>2, <2>1, <2>2
      <4>2. Spliced(items, n)[j] = items[n + j] /\ items[Len(prompt) + j] = rest[j]
        BY <1>8, <2>1, <4>1
      <4> QED
        BY <2>2, <4>2
    <3>3. Len(rest) + 0 <= Len(Spliced(items, n))
      BY <1>2, <1>8, <2>1, <2>2
    <3> QED
      BY <3>1, <3>2, <3>3 DEF StartsWith
  <2> QED
    BY <2>3, <2>4 DEF items, prompt, rest
<1>11. CASE ~live /\ items = <<>>
  <2>1. Len(items) = 0 /\ n = 0
    BY <1>2, <1>5, <1>11
  <2>2. 1..n = {}
    BY <2>1
  <2>3. Spliced(items, n) = <<>>
    BY <1>8, <2>1
  <2> QED
    BY <1>9, <1>11, <2>2, <2>3 DEF Elements, items, prompt, rest
<1> QED
  BY <1>6, <1>10, <1>11

\* The loop goes on, or the drain ends, whatever the call was.
LEMMA ContinuedAnyCall ==
    ASSUME NEW q \in QueueIds, NEW left \in QueueObjects, queues \in [QueueIds -> QueueObjects]
    PROVE  Continued([queues EXCEPT ![q] = left], q) =
               Continued([queues EXCEPT ![q] = [left EXCEPT !.call = Debounce]], q)
<1> DEFINE idle == [left EXCEPT !.call = Debounce]
           f == [queues EXCEPT ![q] = left]
           g == [queues EXCEPT ![q] = idle]
<1>1. HasWork(f[q]) <=> HasWork(g[q])
  <2>1. f[q] = left /\ g[q] = idle
    OBVIOUS
  <2>2. idle.items = left.items /\ idle.dropped = left.dropped
    BY DEF QueueObjects
  <2> HIDE DEF f, g, idle
  <2> QED
    BY <2>1, <2>2 DEF HasWork
<1>2. [f EXCEPT ![q].call = Debounce] = [g EXCEPT ![q].call = Debounce]
  <2>1. [left EXCEPT !.call = Debounce] = [idle EXCEPT !.call = Debounce]
    BY DEF QueueObjects
  <2> QED
    BY <2>1
<1>3. [f EXCEPT ![q].draining = FALSE, ![q].call = NoCall] =
        [g EXCEPT ![q].draining = FALSE, ![q].call = NoCall]
  <2>1. [left EXCEPT !.draining = FALSE, !.call = NoCall] =
          [idle EXCEPT !.draining = FALSE, !.call = NoCall]
    BY DEF QueueObjects
  <2> QED
    BY <2>1
<1> HIDE DEF f, g
<1>4. Ended(f, q) = Ended(g, q)
  <2> DEFINE E(over) == IF HasWork(over[q]) THEN Scheduled(over, entry)
                        ELSE [queues |-> over, entry |-> IF entry = q THEN NoQueue ELSE entry]
             x == [f EXCEPT ![q].draining = FALSE, ![q].call = NoCall]
             y == [g EXCEPT ![q].draining = FALSE, ![q].call = NoCall]
  <2>1. Ended(f, q) = E(x) /\ Ended(g, q) = E(y)
    BY DEF Ended
  <2>2. x = y
    BY <1>3
  <2> HIDE DEF x, y, E
  <2> QED
    BY <2>1, <2>2
<1>5. Continued(f, q) = Continued(g, q)
  BY <1>1, <1>2, <1>4 DEF Continued
<1> QED
  BY <1>5 DEF f, g

\* A group of the rest of a snapshot stands to the queue as the rest did.
LEMMA StartsTwice ==
    ASSUME NEW s \in Seq(Messages), NEW r \in Seq(Messages), NEW prompt \in Seq(Messages),
           NEW rest \in Seq(Messages), StartsWith(r, prompt, rest)
    PROVE  /\ NoLater(s, r, 0) => NoLater(s, prompt, 0) /\ NoLater(s, rest, Len(prompt))
           /\ StartsWith(s, r, <<>>) => StartsWith(s, prompt, rest)
           /\ \A m \in Elements(prompt) \cup Elements(rest) : m \in Elements(r)
<1>1. /\ Len(r) \in Nat /\ DOMAIN r = 1..Len(r) /\ Len(s) \in Nat /\ DOMAIN s = 1..Len(s)
      /\ Len(prompt) \in Nat /\ DOMAIN prompt = 1..Len(prompt)
      /\ Len(rest) \in Nat /\ DOMAIN rest = 1..Len(rest)
      /\ Len(prompt) + Len(rest) <= Len(r)
  BY DEF StartsWith
<1>2. \A j \in DOMAIN prompt : j \in DOMAIN r /\ r[j] = prompt[j]
  BY <1>1 DEF StartsWith
<1>3. \A j \in DOMAIN rest : Len(prompt) + j \in DOMAIN r /\ r[Len(prompt) + j] = rest[j]
  BY <1>1 DEF StartsWith
<1>4. ASSUME NoLater(s, r, 0) PROVE NoLater(s, prompt, 0)
  BY <1>2, <1>4 DEF NoLater
<1>5. ASSUME NoLater(s, r, 0) PROVE NoLater(s, rest, Len(prompt))
  <2> SUFFICES ASSUME NEW i \in DOMAIN s, NEW j \in DOMAIN rest, s[i] = rest[j]
               PROVE  i <= Len(prompt) + j
    BY DEF NoLater
  <2>1. i <= 0 + (Len(prompt) + j)
    BY <1>3, <1>5 DEF NoLater
  <2> QED
    BY <1>1, <2>1
<1>6. ASSUME StartsWith(s, r, <<>>) PROVE StartsWith(s, prompt, rest)
  <2>1. Len(r) + Len(<<>>) <= Len(s) /\ Len(<<>>) = 0 /\ \A j \in DOMAIN r : s[j] = r[j]
    BY <1>6 DEF StartsWith
  <2>2. Len(prompt) + Len(rest) <= Len(s)
    BY <1>1, <2>1
  <2> QED
    BY <1>2, <1>3, <2>1, <2>2 DEF StartsWith
<1>7. \A m \in Elements(prompt) \cup Elements(rest) : m \in Elements(r)
  BY <1>2, <1>3 DEF Elements
<1> QED
  BY <1>4, <1>5, <1>6, <1>7

\* A run that returned leaves nothing of its prompt behind.
LEMMA ReturnSheds ==
    ASSUME Types, OnceInv, NEW q \in QueueIds, RunReturns(q)
    PROVE  /\ AllShed(queues, queues') /\ (entry' = entry \/ entry' = NoQueue)
           /\ \A m \in Messages : m \in Elements(queues[q].call.prompt) => ~Holds(queues'[q], m)
<1> DEFINE queue == queues[q]
           call == queue.call
           n == IF Consumed(call) <= Len(queue.items) THEN Consumed(call) ELSE Len(queue.items)
           dropped == IF call.summary = {} THEN queue.dropped ELSE {}
           left == [queue EXCEPT !.items = Spliced(queue.items, n), !.dropped = dropped]
           Gone(new) == \A m \in Messages : m \in Elements(call.prompt) => ~Holds(new, m)
<1>1. Objects(queues) /\ queue \in QueueObjects /\ Shape(queue) /\ Calling(queue)
  BY DEF Types, OnceInv, Objects, RunReturns
<1>2. /\ Spliced(queue.items, n) \in Seq(Messages)
      /\ Distinct(Spliced(queue.items, n))
      /\ \A m \in Elements(Spliced(queue.items, n)) : m \in Elements(queue.items)
      /\ Apart(Spliced(queue.items, n), call.prompt)
      /\ call.rest # <<>> => NoLater(Spliced(queue.items, n), call.rest, 0)
  BY <1>1, ReturnedItems
<1>3. \A live \in BOOLEAN : Calm(queue, live) =>
          \/ StartsWith(Spliced(queue.items, n), call.rest, <<>>)
          \/ ~live /\ Spliced(queue.items, n) = <<>>
  BY <1>1, CalmReturn
<1>4. IF call.rest # <<>>
      THEN /\ queues' = [queues EXCEPT ![q] = [left EXCEPT !.call = GroupRun(call.rest, {})]]
           /\ entry' = entry
      ELSE /\ queues' = Continued([queues EXCEPT ![q] = left], q).queues
           /\ entry' = Continued([queues EXCEPT ![q] = left], q).entry
  BY DEF RunReturns, Becomes
<1>5. dropped \in SUBSET Messages /\ (queue.dropped = {} => dropped = {})
  BY <1>1, QueueFields
<1>6. call \in Calls /\ call.prompt \in Seq(Messages) /\ call.rest \in Seq(Messages)
      /\ queue.items \in Seq(Messages)
  BY <1>1, QueueFields
<1>7. queue.draining /\ Distinct(call.prompt) /\ Distinct(call.rest) /\ Apart(call.prompt, call.rest)
  <2>1. call # NoCall
    BY <1>1, CallTypes DEF Calling
  <2> QED
    BY <1>1, <2>1 DEF Shape, CallShape
<1> DEFINE items == Spliced(queue.items, n)
<1>8. Apart(items, call.prompt) => \A m \in Elements(call.prompt) : m \notin Elements(items)
  BY DEF Apart, Elements
<1> HIDE DEF n, dropped, items
<1>9. left \in QueueObjects /\ left.items = items /\ left.dropped = dropped
      /\ left.draining = queue.draining
  <2>1. items \in Seq(Messages)
    BY <1>2 DEF items
  <2> QED
    BY <1>1, <1>5, <2>1 DEF QueueObjects, items
<1>10. items \in Seq(Messages) /\ Distinct(items)
       /\ (\A m \in Elements(items) : m \in Elements(queue.items))
       /\ (\A m \in Elements(call.prompt) : m \notin Elements(items))
       /\ (call.rest # <<>> => NoLater(items, call.rest, 0))
       /\ \A live \in BOOLEAN : Calm(queue, live) =>
             StartsWith(items, call.rest, <<>>) \/ (~live /\ items = <<>>)
  BY <1>2, <1>3, <1>8 DEF items
<1> HIDE DEF left
<1>11. CASE call.rest = <<>>
  <2> DEFINE idle == [left EXCEPT !.call = Debounce]
  <2>1. idle \in QueueObjects /\ idle.items = items /\ idle.dropped = dropped
        /\ idle.draining = queue.draining /\ idle.call = Debounce
    BY <1>9, CallTypes DEF QueueObjects
  <2> HIDE DEF idle
  <2>2. StartsWith(items, <<>>, <<>>)
    BY <1>10 DEF StartsWith
  <2>3. Shape(idle)
    BY <1>7, <1>10, <2>1, <2>2, CallTypes, ShapeOfCall
  <2>4. Elements(<<>>) = {}
    BY DEF Elements
  <2>5. \A m \in Messages : Holds(idle, m) => m \in Elements(items)
    BY <2>1, <2>4, CallTypes DEF Holds
  <2>6. \A live \in BOOLEAN : Calm(queue, live) => Calm(idle, live)
    BY <1>5, <2>1, <2>2, CallTypes DEF Calm, Begins
  <2>7. Sheds(queue, idle) /\ Gone(idle)
    BY <1>10, <2>3, <2>5, <2>6 DEF Sheds, Holds
  <2> DEFINE g == [queues EXCEPT ![q] = idle]
  <2>8. AllShed(queues, g) /\ g[q] = idle
    <3>1. AllShed(queues, g)
      BY <1>1, <2>1, <2>7, OneSheds
    <3>2. g[q] = idle
      BY <1>1 DEF Objects
    <3> QED
      BY <3>1, <3>2
  <2> HIDE DEF g
  <2>9. queues' = Continued(g, q).queues /\ entry' = Continued(g, q).entry
    BY <1>1, <1>4, <1>9, <1>11, ContinuedAnyCall DEF g, idle, Objects
  <2>10. AllShed(g, queues') /\ (entry' = entry \/ entry' = NoQueue)
    <3>1. g[q].draining
      BY <1>7, <2>1, <2>8
    <3>2. Objects(g)
      BY <2>8 DEF AllShed
    <3>3. AllShed(g, Continued(g, q).queues)
          /\ (Continued(g, q).entry = entry \/ Continued(g, q).entry = NoQueue)
      BY <3>1, <3>2, ContinuedSheds
    <3> QED
      BY <2>9, <3>3
  <2>11. AllShed(queues, queues')
    BY <2>8, <2>10, ShedsTwice
  <2>12. Gone(queues'[q])
    BY <2>7, <2>8, <2>10 DEF AllShed, Sheds
  <2> QED
    BY <2>10, <2>11, <2>12
<1>12. CASE call.rest # <<>>
  <2> DEFINE next == GroupRun(call.rest, {})
             new == [left EXCEPT !.call = next]
  <2>1. next \in Calls /\ next.kind = "group" /\ next.summary = {} /\ CallShape(next)
        /\ StartsWith(call.rest, next.prompt, next.rest)
    BY <1>6, <1>7, <1>12, GroupFacts
  <2>2. queues' = [queues EXCEPT ![q] = new] /\ entry' = entry
    BY <1>4, <1>12
  <2> HIDE DEF next
  <2>3. new \in QueueObjects /\ new.items = items /\ new.dropped = dropped
        /\ new.draining = queue.draining /\ new.call = next
    BY <1>9, <2>1 DEF QueueObjects
  <2> HIDE DEF new
  <2>4. next.prompt \in Seq(Messages) /\ next.rest \in Seq(Messages)
    BY <2>1 DEF Calls
  <2>5. /\ NoLater(items, call.rest, 0) =>
              NoLater(items, next.prompt, 0) /\ NoLater(items, next.rest, Len(next.prompt))
        /\ StartsWith(items, call.rest, <<>>) => StartsWith(items, next.prompt, next.rest)
        /\ \A m \in Elements(next.prompt) \cup Elements(next.rest) : m \in Elements(call.rest)
    BY <1>6, <1>10, <2>1, <2>4, StartsTwice
  <2>8. next # NoCall
    BY <2>1, CallTypes
  <2>9. Shape(new)
    BY <1>7, <1>10, <1>12, <2>1, <2>3, <2>5, <2>8 DEF Shape
  <2>11. \A m \in Elements(call.prompt) : m \notin Elements(call.rest)
    BY <1>7 DEF Apart, Elements
  <2>12. Gone(new)
    BY <1>10, <2>3, <2>5, <2>11 DEF Holds
  <2>13. \A m \in Messages : Holds(new, m) => Holds(queue, m)
    BY <1>10, <2>3, <2>5 DEF Holds
  <2>14. \A live \in BOOLEAN : Calm(queue, live) => Calm(new, live)
    <3> SUFFICES ASSUME NEW live \in BOOLEAN, Calm(queue, live) PROVE Calm(new, live)
      OBVIOUS
    <3>2. dropped = {} /\ next.summary = {} /\ next.kind \notin {"summary", "summaryForItem"}
      BY <1>5, <2>1 DEF Calm
    <3> QED
      BY <1>10, <2>3, <2>5, <3>2 DEF Calm, Begins
  <2>15. Sheds(queue, new)
    BY <2>9, <2>13, <2>14 DEF Sheds
  <2>16. AllShed(queues, [queues EXCEPT ![q] = new]) /\ [queues EXCEPT ![q] = new][q] = new
    <3>1. AllShed(queues, [queues EXCEPT ![q] = new])
      BY <1>1, <2>3, <2>15, OneSheds
    <3>2. [queues EXCEPT ![q] = new][q] = new
      BY <1>1 DEF Objects
    <3> QED
      BY <3>1, <3>2
  <2> QED
    BY <2>2, <2>12, <2>16
<1> QED
  BY <1>11, <1>12

\* The object a message is queued in, with its settings.
Held(q, s) ==
    IF entry # NoQueue
    THEN [queues[q] EXCEPT !.mode = s.mode, !.dropPolicy = s.dropPolicy, !.cap = s.cap]
    ELSE EmptyQueue(s)
Filled(held, m) == [WithRoom(held) EXCEPT !.items = Append(@, m)]

\* The types of the settings a message arrives with.
LEMMA SettingFields ==
    ASSUME NEW s \in Settings
    PROVE  /\ s.mode \in {"collect", "followup"} /\ s.dropPolicy \in {"summarize", "old", "new"}
           /\ s.cap \in Nat \ {0}
<1>1. s \in [mode : {"collect", "followup"}, dropPolicy : {"summarize", "old", "new"}, cap : Nat \ {0}]
  BY FollowupQueueAssumption, Zenon
<1> QED
  BY <1>1

\* A new queue object holds nothing and owes nothing.
LEMMA EmptyFacts ==
    ASSUME NEW s \in Settings
    PROVE  /\ EmptyQueue(s) \in QueueObjects /\ Shape(EmptyQueue(s))
           /\ \A m \in Messages : ~Holds(EmptyQueue(s), m)
           /\ Calm(EmptyQueue(s), TRUE) /\ Calm(EmptyQueue(s), FALSE)
<1> DEFINE new == EmptyQueue(s)
<1>1. <<>> \in Seq(Messages) /\ {} \in SUBSET Messages /\ FALSE \in BOOLEAN
  OBVIOUS
<1>2. new \in QueueObjects
  BY <1>1, SettingFields, CallTypes DEF EmptyQueue, QueueObjects
<1>3. new.items = <<>> /\ new.dropped = {} /\ new.draining = FALSE /\ new.call = NoCall
  BY DEF EmptyQueue
<1> HIDE DEF new
<1>4. Distinct(<<>>) /\ StartsWith(<<>>, <<>>, <<>>) /\ Elements(<<>>) = {}
  BY DEF Distinct, StartsWith, Elements
<1>5. Shape(new)
  BY <1>2, <1>3, <1>4, CallTypes, ShapeOfCall
<1>6. \A m \in Messages : ~Holds(new, m)
  BY <1>3, <1>4, CallTypes DEF Holds
<1>7. Calm(new, TRUE) /\ Calm(new, FALSE)
  BY <1>3, <1>4, CallTypes DEF Calm, Begins
<1> QED
  BY <1>2, <1>5, <1>6, <1>7 DEF new

\* The object getFollowupQueue returns, with the settings of the message.
LEMMA HeldSheds ==
    ASSUME Types, OnceInv, NEW s \in Settings, NEW q \in QueueIds, entry # NoQueue => q = entry
    PROVE  /\ Held(q, s) \in QueueObjects /\ Shape(Held(q, s))
           /\ \A m \in Messages : Holds(Held(q, s), m) => Holds(queues[q], m)
           /\ Calm(queues[q], q = entry) => Calm(Held(q, s), TRUE)
<1> DEFINE held == Held(q, s)
<1>1. queues[q] \in QueueObjects /\ Shape(queues[q])
  BY DEF Types, OnceInv
<1>2. CASE entry = NoQueue
  <2>1. held = EmptyQueue(s)
    BY <1>2 DEF Held
  <2> HIDE DEF held
  <2> QED
    BY <2>1, EmptyFacts DEF held
<1>3. CASE entry # NoQueue
  <2>1. held = [queues[q] EXCEPT !.mode = s.mode, !.dropPolicy = s.dropPolicy, !.cap = s.cap]
    BY <1>3 DEF Held
  <2>2. held \in QueueObjects /\ held.items = queues[q].items /\ held.dropped = queues[q].dropped
        /\ held.draining = queues[q].draining /\ held.call = queues[q].call
    BY <1>1, <2>1, SettingFields DEF QueueObjects
  <2> HIDE DEF held
  <2>3. Shape(held)
    BY <1>1, <2>2 DEF Shape
  <2>4. \A m \in Messages : Holds(held, m) => Holds(queues[q], m)
    BY <2>2 DEF Holds
  <2>5. Calm(queues[q], q = entry) => Calm(held, TRUE)
    BY <1>3, <2>2 DEF Calm, Begins
  <2> QED
    BY <2>2, <2>3, <2>4, <2>5 DEF held
<1> QED
  BY <1>2, <1>3

\* applyQueueDropPolicy takes messages off the front.
LEMMA RoomFacts ==
    ASSUME NEW held \in QueueObjects, Shape(held)
    PROVE  /\ WithRoom(held) \in QueueObjects /\ Shape(WithRoom(held))
           /\ \A m \in Messages : Holds(WithRoom(held), m) => Holds(held, m)
           /\ ~Full(held) => WithRoom(held) = held
           /\ Full(held) => Victims(held) \subseteq Messages
<1>1. CASE ~Full(held)
  BY <1>1 DEF WithRoom
<1>2. CASE Full(held)
  <2> DEFINE items == held.items
             n == DropCount(held)
             r == Spliced(items, n)
             room == WithRoom(held)
  <2>1. items \in Seq(Messages) /\ Len(items) \in Nat /\ DOMAIN items = 1..Len(items)
        /\ held.cap \in Nat /\ held.cap > 0 /\ held.cap <= Len(items)
        /\ held.call.prompt \in Seq(Messages) /\ held.call.rest \in Seq(Messages)
    BY <1>2, QueueFields DEF Full
  <2>2. n \in 0..Len(items)
    BY <2>1 DEF DropCount
  <2>3. SubSeq(items, 1, n) \in Seq(Messages) /\ DOMAIN SubSeq(items, 1, n) = 1..n
        /\ \A i \in 1..n : SubSeq(items, 1, n)[i] = items[i]
    BY <2>1, <2>2, FrontFacts
  <2>4. Victims(held) \subseteq Messages
    <3>1. \A i \in 1..n : i \in 1..Len(items) /\ items[i] \in Messages
      BY <2>1, <2>2
    <3> QED
      BY <2>3, <3>1 DEF Victims, Elements
  <2>5. r \in Seq(Messages) /\ DOMAIN r = 1..(Len(items) - n)
        /\ \A i \in 1..(Len(items) - n) : r[i] = items[n + i]
    BY <2>1, <2>2, SplicedFacts
  <2>6. room = [held EXCEPT !.items = r,
                            !.dropped = IF held.dropPolicy = "summarize"
                                        THEN held.dropped \cup Victims(held) ELSE held.dropped]
    BY <1>2 DEF WithRoom
  <2> HIDE DEF n, r, room
  <2>7. \A i \in DOMAIN r : n + i \in DOMAIN items /\ r[i] = items[n + i] /\ i \in Nat /\ n \in Nat
    <3>1. \A i \in 1..(Len(items) - n) : n + i \in 1..Len(items) /\ i \in Nat
      BY <2>1, <2>2
    <3> QED
      BY <2>1, <2>2, <2>5, <3>1
  <2>8. room \in QueueObjects /\ room.items = r /\ room.draining = held.draining /\ room.call = held.call
    <3> DEFINE d == IF held.dropPolicy = "summarize" THEN held.dropped \cup Victims(held) ELSE held.dropped
    <3>1. d \in SUBSET Messages
      BY <2>4, QueueFields
    <3>2. room = [held EXCEPT !.items = r, !.dropped = d]
      BY <2>6
    <3> HIDE DEF d
    <3> QED
      BY <2>5, <3>1, <3>2 DEF QueueObjects
  <2>9. Distinct(r)
    <3> SUFFICES ASSUME NEW i \in DOMAIN r, NEW j \in DOMAIN r, r[i] = r[j] PROVE i = j
      BY DEF Distinct
    <3>1. n + i = n + j
      BY <2>7 DEF Shape, Distinct
    <3> QED
      BY <2>7, <3>1
  <2>10. ASSUME NEW x \in Seq(Messages), NEW k \in Nat, NoLater(items, x, k)
         PROVE  NoLater(r, x, k)
    <3> SUFFICES ASSUME NEW i \in DOMAIN r, NEW j \in DOMAIN x, r[i] = x[j] PROVE i <= k + j
      BY DEF NoLater
    <3>1. n + i <= k + j
      BY <2>7, <2>10 DEF NoLater
    <3>2. j \in Nat
      OBVIOUS
    <3> QED
      BY <2>7, <3>1, <3>2
  <2>11. Shape(room)
    <3>1. NoLater(r, held.call.prompt, 0) /\ NoLater(r, held.call.rest, Len(held.call.prompt))
      <4>1. Len(held.call.prompt) \in Nat
        BY <2>1
      <4> QED
        BY <2>1, <2>10, <4>1 DEF Shape
    <3> QED
      BY <2>8, <2>9, <3>1 DEF Shape
  <2>12. \A m \in Messages : Holds(room, m) => Holds(held, m)
    BY <2>7, <2>8 DEF Holds, Elements
  <2> QED
    BY <1>2, <2>4, <2>8, <2>11, <2>12 DEF room
<1> QED
  BY <1>1, <1>2

\* A message nobody holds goes to the end of the queue.
LEMMA FilledFacts ==
    ASSUME NEW held \in QueueObjects, Shape(held), NEW m \in Messages, ~Holds(held, m)
    PROVE  /\ Filled(held, m) \in QueueObjects /\ Shape(Filled(held, m))
           /\ \A x \in Messages : Holds(Filled(held, m), x) => Holds(held, x) \/ x = m
           /\ ~Full(held) /\ Calm(held, TRUE) => Calm(Filled(held, m), TRUE)
<1> DEFINE room == WithRoom(held)
           items == room.items
           r == Append(items, m)
           new == Filled(held, m)
<1>1. room \in QueueObjects /\ Shape(room) /\ (\A x \in Messages : Holds(room, x) => Holds(held, x))
      /\ (~Full(held) => room = held)
  BY RoomFacts
<1>2. ~Holds(room, m)
  BY <1>1
<1>3. new = [room EXCEPT !.items = r]
  BY DEF Filled
<1> HIDE DEF room
<1>4. items \in Seq(Messages) /\ room.call.prompt \in Seq(Messages) /\ room.call.rest \in Seq(Messages)
  BY <1>1, QueueFields
<1> HIDE DEF items
<1>5. r \in Seq(Messages) /\ Len(items) \in Nat /\ DOMAIN items = 1..Len(items)
      /\ DOMAIN r = 1..(Len(items) + 1) /\ Len(r) = Len(items) + 1
      /\ r[Len(items) + 1] = m /\ \A i \in 1..Len(items) : r[i] = items[i]
  BY <1>4
<1> HIDE DEF r, new
<1>6. DOMAIN r = DOMAIN items \cup {Len(items) + 1} /\ Len(items) + 1 \notin DOMAIN items
      /\ \A i \in DOMAIN items : r[i] = items[i]
  BY <1>5
<1>7. new \in QueueObjects /\ new.items = r /\ new.draining = room.draining /\ new.call = room.call
      /\ new.dropped = room.dropped
  BY <1>1, <1>3, <1>5 DEF QueueObjects
<1>8. (\A i \in DOMAIN items : items[i] # m) /\ (\A j \in DOMAIN room.call.prompt : room.call.prompt[j] # m)
      /\ (\A j \in DOMAIN room.call.rest : room.call.rest[j] # m)
  BY <1>2 DEF Holds, Elements, items
<1>9. Distinct(r)
  BY <1>1, <1>5, <1>6, <1>8 DEF Shape, Distinct, items
<1>10. NoLater(r, room.call.prompt, 0) /\ NoLater(r, room.call.rest, Len(room.call.prompt))
  <2>1. NoLater(items, room.call.prompt, 0) /\ NoLater(items, room.call.rest, Len(room.call.prompt))
    BY <1>1 DEF Shape, items
  <2> QED
    BY <1>5, <1>6, <1>8, <2>1 DEF NoLater
<1>11. Shape(new)
  BY <1>1, <1>7, <1>9, <1>10 DEF Shape
<1>12. \A x \in Messages : Holds(new, x) => Holds(room, x) \/ x = m
  <2>1. Elements(r) = Elements(items) \cup {m}
    BY <1>5, <1>6 DEF Elements
  <2> QED
    BY <1>7, <2>1 DEF Holds, items
<1>13. ASSUME ~Full(held), Calm(held, TRUE) PROVE Calm(new, TRUE)
  <2>1. room = held
    BY <1>1, <1>13
  <2>2. held.items = items
    BY <2>1 DEF items
  <2>3. StartsWith(items, held.call.prompt, held.call.rest)
    BY <1>13, <2>2 DEF Calm, Begins
  <2>4. StartsWith(r, held.call.prompt, held.call.rest)
    <3> DEFINE a == held.call.prompt
               b == held.call.rest
    <3>1. a \in Seq(Messages) /\ b \in Seq(Messages) /\ Len(a) \in Nat /\ Len(b) \in Nat
          /\ DOMAIN a = 1..Len(a) /\ DOMAIN b = 1..Len(b)
      BY <1>4, <2>1
    <3>2. StartsWith(items, a, b)
      BY <2>3
    <3> HIDE DEF a, b
    <3>3. Len(a) + Len(b) <= Len(items) /\ Len(a) + Len(b) <= Len(r)
      BY <1>5, <3>1, <3>2 DEF StartsWith
    <3>4. \A j \in DOMAIN a : j \in 1..Len(items) /\ items[j] = a[j]
      BY <1>5, <3>1, <3>2, <3>3 DEF StartsWith
    <3>5. \A j \in DOMAIN b : Len(a) + j \in 1..Len(items) /\ items[Len(a) + j] = b[j]
      BY <1>5, <3>1, <3>2, <3>3 DEF StartsWith
    <3>6. StartsWith(r, a, b)
      BY <1>5, <3>3, <3>4, <3>5 DEF StartsWith
    <3> QED
      BY <3>6 DEF a, b
  <2> QED
    BY <1>7, <1>13, <2>1, <2>4 DEF Calm, Begins
<1> QED
  BY <1>1, <1>7, <1>11, <1>12, <1>13 DEF new

-----------------------------------------------------------------------------
(* The invariant is inductive. *)

\* A step after which every object holds no more than before, and nothing was run.
LEMMA HoldsLess ==
    ASSUME OnceInv, Objects(queues'),
           \A p \in QueueIds : \A m \in Messages : Holds(queues'[p], m) => Holds(queues[p], m),
           UNCHANGED <<recent, ran, redone>>
    PROVE  OnceInv'
BY DEF OnceInv, Objects

\* A step of a drain keeps the calm of every object.
LEMMA StaysCalm ==
    ASSUME CalmInv, AllShed(queues, queues'), entry' = entry \/ entry' = NoQueue,
           UNCHANGED <<lost, overflowed>>
    PROVE  CalmInv'
<1> SUFFICES ASSUME ~overflowed, NEW p \in QueueIds PROVE Calm(queues'[p], p = entry')
  BY DEF CalmInv
<1>1. Calm(queues[p], p = entry)
  BY DEF CalmInv
<1>2. TRUE \in BOOLEAN /\ FALSE \in BOOLEAN
  OBVIOUS
<1>3. /\ Calm(queues[p], TRUE) => Calm(queues'[p], TRUE)
      /\ Calm(queues[p], FALSE) => Calm(queues'[p], FALSE)
  BY <1>2 DEF AllShed, Sheds
<1>4. CASE p = entry
  <2>1. Calm(queues[p], TRUE)
    BY <1>1, <1>4 DEF Calm
  <2> QED
    BY <1>3, <2>1 DEF Calm
<1>5. CASE p # entry
  <2>1. Calm(queues[p], FALSE)
    BY <1>1, <1>5 DEF Calm
  <2>2. p # entry'
    BY <1>5 DEF QueueIds, NoQueue
  <2> QED
    BY <1>3, <2>1, <2>2 DEF Calm
<1> QED
  BY <1>4, <1>5

\* A step of the drain that only sheds keeps both parts of the invariant.
LEMMA DrainSteps ==
    ASSUME OnceInv, CalmInv, AllShed(queues, queues'), entry' = entry \/ entry' = NoQueue,
           UNCHANGED <<recent, ran, redone, lost, overflowed>>
    PROVE  OnceInv' /\ CalmInv'
<1>1. OnceInv'
  BY HoldsLess DEF AllShed, Sheds
<1> QED
  BY <1>1, StaysCalm

\* clearSessionQueues empties the object and drops it from the map.
LEMMA ClearKeeps ==
    ASSUME IInv, ClearSessionQueues
    PROVE  OnceInv' /\ CalmInv' /\ queues' \in [QueueIds -> QueueObjects]
<1> DEFINE old == queues[entry]
           new == [old EXCEPT !.items = <<>>, !.dropped = {}]
<1>1. entry \in QueueIds /\ entry # NoQueue /\ entry' = NoQueue
      /\ UNCHANGED <<recent, ran, redone, lost, overflowed>>
  BY DEF ClearSessionQueues, IInv, Types
<1>2. old \in QueueObjects /\ Shape(old) /\ queues \in [QueueIds -> QueueObjects]
  BY <1>1 DEF IInv, Types, OnceInv
<1>3. queues' = [queues EXCEPT ![entry] = new]
  BY <1>1, <1>2 DEF ClearSessionQueues
<1>4. new \in QueueObjects /\ new.items = <<>> /\ new.dropped = {} /\ new.draining = old.draining
      /\ new.call = old.call
  <2>1. <<>> \in Seq(Messages) /\ {} \in SUBSET Messages
    OBVIOUS
  <2> HIDE DEF old
  <2> QED
    BY <1>2, <2>1 DEF QueueObjects
<1> HIDE DEF new
<1>5. queues' \in [QueueIds -> QueueObjects] /\ queues'[entry] = new
      /\ \A p \in QueueIds : p # entry => queues'[p] = queues[p]
  BY <1>1, <1>2, <1>3, <1>4
<1>6. Distinct(<<>>) /\ Elements(<<>>) = {} /\ \A x, k : NoLater(<<>>, x, k)
  BY DEF Distinct, Elements, NoLater
<1>7. Shape(new)
  BY <1>2, <1>4, <1>6 DEF Shape
<1>8. Objects(queues')
  BY <1>5, <1>7 DEF Objects, IInv, OnceInv
<1>9. \A p \in QueueIds : \A m \in Messages : Holds(queues'[p], m) => Holds(queues[p], m)
  BY <1>4, <1>5, <1>6 DEF Holds
<1>10. OnceInv'
  BY <1>1, <1>8, <1>9, HoldsLess DEF IInv
<1>11. CalmInv'
  <2> SUFFICES ASSUME ~overflowed, NEW p \in QueueIds PROVE Calm(queues'[p], p = entry')
    BY <1>1 DEF CalmInv, IInv
  <2>1. Calm(queues[p], p = entry)
    BY DEF CalmInv, IInv
  <2>2. p # entry'
    BY <1>1 DEF QueueIds, NoQueue
  <2>3. CASE p = entry
    BY <1>4, <1>5, <2>1, <2>2, <2>3 DEF Calm
  <2>4. CASE p # entry
    BY <1>5, <2>1, <2>2, <2>4 DEF Calm
  <2> QED
    BY <2>3, <2>4
<1> QED
  BY <1>5, <1>10, <1>11

\* The messages of a prompt count as run, and nothing else leaves a calm queue.
LEMMA ReturnKeeps ==
    ASSUME IInv, NEW q \in QueueIds, RunReturns(q)
    PROVE  IInv'
<1> DEFINE queue == queues[q]
           call == queue.call
           n == IF Consumed(call) <= Len(queue.items) THEN Consumed(call) ELSE Len(queue.items)
           taken == Elements(SubSeq(queue.items, 1, n))
           gone == taken \cup IF call.summary = {} THEN {} ELSE queue.dropped \ call.summary
<1>0. Types /\ OnceInv /\ CalmInv
  BY DEF IInv
<1>1. AllShed(queues, queues') /\ (entry' = entry \/ entry' = NoQueue)
      /\ \A m \in Messages : m \in Elements(call.prompt) => ~Holds(queues'[q], m)
  BY <1>0, ReturnSheds
<1>2. /\ ran' = [m \in Messages |-> IF m \in Elements(call.prompt) THEN ran[m] + 1 ELSE ran[m]]
      /\ lost' = lost \cup {m \in gone : ran'[m] = 0}
      /\ UNCHANGED <<recent, turn, failures, redone, overflowed, behind>>
  BY DEF RunReturns, Counted
<1>3. queue \in QueueObjects /\ Shape(queue) /\ Calling(queue)
  BY <1>0 DEF Types, OnceInv, RunReturns
<1>4. queue.items \in Seq(Messages) /\ n \in 0..Len(queue.items) /\ queue.dropped \subseteq Messages
  <2>1. n \in 0..Len(queue.items)
    BY <1>3, ReturnedItems
  <2> HIDE DEF n
  <2> QED
    BY <1>3, <2>1, QueueFields
<1>5. \A live \in BOOLEAN : Calm(queue, live) => taken \subseteq Elements(call.prompt)
  BY <1>3, CalmReturn
<1> HIDE DEF n
<1>6. gone \subseteq Messages
  <2>1. SubSeq(queue.items, 1, n) \in Seq(Messages)
    BY <1>4, FrontFacts
  <2>2. taken \subseteq Messages
    BY <2>1 DEF Elements
  <2> HIDE DEF taken
  <2> QED
    BY <1>4, <2>2
<1> HIDE DEF taken, gone
<1>7. \A m \in Messages : m \in Elements(call.prompt) => Holds(queue, m)
  BY DEF Holds
<1>8. ran' \in [Messages -> Nat]
  BY <1>0, <1>2 DEF Types
<1>9. \A m \in Messages : ran'[m] = IF m \in Elements(call.prompt) THEN ran[m] + 1 ELSE ran[m]
  BY <1>2
<1>10. Types'
  BY <1>0, <1>1, <1>2, <1>6, <1>8 DEF Types, AllShed, Objects
<1>11. \A m \in Messages : m \in Elements(call.prompt) =>
          /\ ran[m] = redone[m] /\ ran'[m] = redone[m] + 1 /\ ran'[m] # 0 /\ m \in recent
          /\ \A p \in QueueIds : ~Holds(queues'[p], m)
  <2> SUFFICES ASSUME NEW m \in Messages, m \in Elements(call.prompt)
               PROVE  /\ ran[m] = redone[m] /\ ran'[m] = redone[m] + 1 /\ ran'[m] # 0
                      /\ m \in recent
                      /\ \A p \in QueueIds : ~Holds(queues'[p], m)
    OBVIOUS
  <2>1. Holds(queues[q], m)
    BY <1>7
  <2>2. ran[m] = redone[m] /\ m \in recent
    BY <1>0, <2>1 DEF OnceInv
  <2>5. redone[m] \in Nat
    BY <1>0 DEF Types
  <2>3. \A p \in QueueIds : p # q => ~Holds(queues[p], m)
    BY <1>0, <2>1 DEF OnceInv
  <2>4. \A p \in QueueIds : ~Holds(queues'[p], m)
    BY <1>1, <2>3 DEF AllShed, Sheds
  <2> QED
    BY <1>9, <2>2, <2>4, <2>5
<1>12. \A p \in QueueIds : \A m \in Messages : Holds(queues'[p], m) => Holds(queues[p], m)
  BY <1>1 DEF AllShed, Sheds
<1>13. OnceInv'
  <2>1. \A p \in QueueIds : Shape(queues'[p])
    BY <1>1 DEF AllShed, Objects
  <2>2. \A p \in QueueIds : \A m \in Messages : Holds(queues'[p], m) => m \in recent /\ ran'[m] = redone[m]
    BY <1>0, <1>9, <1>11, <1>12 DEF OnceInv
  <2>3. \A m \in Messages : ran'[m] # redone[m] => m \in recent /\ ran'[m] = redone[m] + 1
    BY <1>0, <1>9, <1>11 DEF OnceInv
  <2>4. \A p, r \in QueueIds : \A m \in Messages : Holds(queues'[p], m) /\ Holds(queues'[r], m) => p = r
    BY <1>0, <1>12 DEF OnceInv
  <2> QED
    BY <1>2, <2>1, <2>2, <2>3, <2>4 DEF OnceInv
<1>14. CalmInv'
  <2>1. ~overflowed => lost' = lost
    <3> SUFFICES ASSUME ~overflowed PROVE {m \in gone : ran'[m] = 0} = {}
      BY <1>2
    <3>1. Calm(queue, q = entry)
      BY <1>0 DEF CalmInv
    <3>2. Calm(queue, FALSE) \/ Calm(queue, TRUE)
      BY <3>1 DEF Calm
    <3>3. taken \subseteq Elements(call.prompt)
      BY <1>5, <3>2
    <3>4. call.summary = {}
      BY <3>1 DEF Calm
    <3>5. gone = taken
      BY <3>4 DEF gone
    <3> QED
      BY <1>6, <1>11, <3>3, <3>5
  <2> SUFFICES ASSUME ~overflowed PROVE CalmInv'
    BY <1>2 DEF CalmInv
  <2> QED
    BY <1>0, <1>1, <1>2, <2>1, StaysCalm
<1> QED
  BY <1>10, <1>13, <1>14 DEF IInv

\* A run that throws leaves the queue as it is; if the turn had completed, its messages
\* have one more turn and one more to be repeated.
LEMMA ThrowKeeps ==
    ASSUME IInv, NEW q \in QueueIds, RunThrows(q)
    PROVE  IInv'
<1> DEFINE prompt == Elements(queues[q].call.prompt)
<1>0. Types /\ OnceInv /\ CalmInv /\ Objects(queues)
  BY DEF IInv, Types, OnceInv, Objects
<1>1. queues' = Ended(queues, q).queues /\ entry' = Ended(queues, q).entry
      /\ UNCHANGED <<recent, turn, lost, overflowed, behind>>
  BY DEF RunThrows, Becomes
<1>2. failures' \in 0..MaxFailures
  BY <1>0, FollowupQueueAssumption DEF RunThrows, Types
<1>3. AllShed(queues, queues') /\ (entry' = entry \/ entry' = NoQueue)
  BY <1>0, <1>1, EndedSheds
<1>4. \A m \in Messages : ran[m] \in Nat /\ redone[m] \in Nat
  BY <1>0 DEF Types
<1>5. /\ ran' \in [Messages -> Nat] /\ redone' \in [Messages -> Nat]
      /\ \A m \in Messages : \/ ran'[m] = ran[m] /\ redone'[m] = redone[m]
                             \/ ran'[m] = ran[m] + 1 /\ redone'[m] = redone[m] + 1
  <2>1. CASE UNCHANGED <<ran, redone>>
    BY <1>0, <2>1 DEF Types
  <2>2. CASE ran' = Counted(ran, queues[q].call) /\ redone' = Counted(redone, queues[q].call)
    <3>1. /\ ran' = [m \in Messages |-> IF m \in prompt THEN ran[m] + 1 ELSE ran[m]]
          /\ redone' = [m \in Messages |-> IF m \in prompt THEN redone[m] + 1 ELSE redone[m]]
      BY <2>2 DEF Counted
    <3> HIDE DEF prompt
    <3> QED
      BY <1>4, <3>1
  <2> QED
    BY <2>1, <2>2 DEF RunThrows
<1>6. Types'
  BY <1>0, <1>1, <1>2, <1>3, <1>5 DEF Types, AllShed, Objects
<1>7. OnceInv'
  <2>1. \A p \in QueueIds : Shape(queues'[p])
    BY <1>3 DEF AllShed, Objects
  <2>2. \A p \in QueueIds : \A m \in Messages : Holds(queues'[p], m) => Holds(queues[p], m)
    BY <1>3 DEF AllShed, Sheds
  <2>3. \A p \in QueueIds : \A m \in Messages : Holds(queues'[p], m) => m \in recent /\ ran'[m] = redone'[m]
    BY <1>0, <1>5, <2>2 DEF OnceInv
  <2>4. \A m \in Messages : ran'[m] # redone'[m] => m \in recent /\ ran'[m] = redone'[m] + 1
    BY <1>0, <1>4, <1>5 DEF OnceInv
  <2>5. \A p, r \in QueueIds : \A m \in Messages : Holds(queues'[p], m) /\ Holds(queues'[r], m) => p = r
    BY <1>0, <2>2 DEF OnceInv
  <2> QED
    BY <1>1, <2>1, <2>3, <2>4, <2>5 DEF OnceInv
<1>8. CalmInv'
  BY <1>0, <1>1, <1>3, StaysCalm
<1> QED
  BY <1>6, <1>7, <1>8 DEF IInv

\* A message is queued once, and drops nothing unless it finds the queue full.
LEMMA EnqueueKeeps ==
    ASSUME IInv, NEW m \in Messages, NEW s \in Settings, Enqueue(m, s)
    PROVE  IInv'
<1>0. Types /\ OnceInv /\ CalmInv
  BY DEF IInv
<1> DEFINE Step(q) ==
       LET held == Held(q, s)
           accepted == Accepts(held, m)
           objects == [queues EXCEPT ![q] = IF accepted THEN Filled(held, m) ELSE held]
           full == accepted /\ Full(held)
       IN  /\ Becomes(IF RunActive THEN [queues |-> objects, entry |-> q] ELSE Scheduled(objects, q))
           /\ recent' = IF accepted THEN recent \cup {m} ELSE recent
           /\ overflowed' = (overflowed \/ full)
           /\ lost' = IF full /\ held.dropPolicy = "old"
                      THEN lost \cup {v \in Victims(held) : ran[v] = 0} ELSE lost
           /\ behind' = IF ~RunActive THEN FALSE
                        ELSE IF accepted /\ ~held.draining THEN turn # "reply" ELSE behind
<1>1. PICK q \in QueueIds : (entry # NoQueue => q = entry) /\ Step(q)
  BY DEF Enqueue, Held, Filled
<1>2. UNCHANGED <<turn, failures, ran, redone>>
  BY DEF Enqueue
<1> DEFINE held == Held(q, s)
           accepted == Accepts(held, m)
           filled == IF accepted THEN Filled(held, m) ELSE held
           objects == [queues EXCEPT ![q] = filled]
           full == accepted /\ Full(held)
<1>3. /\ Becomes(IF RunActive THEN [queues |-> objects, entry |-> q] ELSE Scheduled(objects, q))
      /\ recent' = IF accepted THEN recent \cup {m} ELSE recent
      /\ overflowed' = (overflowed \/ full)
      /\ lost' = IF full /\ held.dropPolicy = "old"
                 THEN lost \cup {v \in Victims(held) : ran[v] = 0} ELSE lost
      /\ behind' = IF ~RunActive THEN FALSE
                   ELSE IF accepted /\ ~held.draining THEN turn # "reply" ELSE behind
  BY <1>1
<1> HIDE DEF Step
<1>4. held \in QueueObjects /\ Shape(held)
      /\ (\A x \in Messages : Holds(held, x) => Holds(queues[q], x))
      /\ (Calm(queues[q], q = entry) => Calm(held, TRUE))
  BY <1>0, <1>1, HeldSheds
<1>5. accepted => m \notin recent
  BY DEF Accepts
<1>6. accepted => ran[m] = redone[m] /\ (\A p \in QueueIds : ~Holds(queues[p], m)) /\ ~Holds(held, m)
  <2>1. accepted => \A p \in QueueIds : ~Holds(queues[p], m)
    BY <1>0, <1>5 DEF OnceInv
  <2>2. accepted => ran[m] = redone[m]
    BY <1>0, <1>5 DEF OnceInv
  <2> QED
    BY <1>4, <2>1, <2>2
<1> HIDE DEF accepted, held
<1>7. /\ filled \in QueueObjects /\ Shape(filled)
      /\ \A x \in Messages : Holds(filled, x) => Holds(queues[q], x) \/ (accepted /\ x = m)
      /\ ~full /\ Calm(queues[q], q = entry) => Calm(filled, TRUE)
  <2>1. CASE accepted
    <3>1. filled = Filled(held, m)
      BY <2>1
    <3> HIDE DEF filled
    <3> QED
      BY <1>4, <1>6, <2>1, <3>1, FilledFacts
  <2>2. CASE ~accepted
    <3>1. filled = held
      BY <2>2
    <3> HIDE DEF filled
    <3> QED
      BY <1>4, <2>2, <3>1
  <2> QED
    BY <2>1, <2>2
<1> HIDE DEF filled
<1>8. queues \in [QueueIds -> QueueObjects] /\ \A p \in QueueIds : Shape(queues[p])
  BY <1>0 DEF Types, OnceInv
<1>9. Objects(objects) /\ objects[q] = filled /\ \A p \in QueueIds : p # q => objects[p] = queues[p]
  <2>1. objects \in [QueueIds -> QueueObjects] /\ objects[q] = filled
        /\ \A p \in QueueIds : p # q => objects[p] = queues[p]
    BY <1>7, <1>8
  <2> HIDE DEF objects
  <2> QED
    BY <1>7, <1>8, <2>1 DEF Objects
<1> HIDE DEF objects
<1>10. AllShed(objects, queues') /\ (entry' = q \/ entry' = NoQueue)
  <2>1. CASE RunActive
    <3>1. queues' = objects /\ entry' = q
      BY <1>3, <2>1 DEF Becomes
    <3>2. AllShed(objects, objects)
      BY <1>9, SameSheds DEF AllShed, Objects
    <3> QED
      BY <3>1, <3>2
  <2>2. CASE ~RunActive
    <3>1. queues' = Scheduled(objects, q).queues /\ entry' = Scheduled(objects, q).entry
      BY <1>3, <2>2 DEF Becomes
    <3>2. AllShed(objects, Scheduled(objects, q).queues)
          /\ (Scheduled(objects, q).entry = q \/ Scheduled(objects, q).entry = NoQueue)
      BY <1>9, ScheduledSheds
    <3> QED
      BY <3>1, <3>2
  <2> QED
    BY <2>1, <2>2
<1>11. \A p \in QueueIds : \A x \in Messages :
          Holds(queues'[p], x) => Holds(queues[p], x) \/ (accepted /\ x = m /\ p = q)
  BY <1>7, <1>9, <1>10 DEF AllShed, Sheds
<1>12. lost' \subseteq Messages
  <2>1. Full(held) => Victims(held) \subseteq Messages
    BY <1>4, RoomFacts
  <2> QED
    BY <1>0, <1>3, <2>1 DEF Types
<1>13. behind' \in BOOLEAN /\ overflowed' \in BOOLEAN
  <2>1. behind \in BOOLEAN
    BY <1>0 DEF Types
  <2>2. overflowed' \in BOOLEAN
    BY <1>3, Zenon
  <2>3. behind' = FALSE \/ behind' = (turn # "reply") \/ behind' = behind
    BY <1>3, Zenon
  <2>4. (turn # "reply") \in BOOLEAN /\ FALSE \in BOOLEAN
    OBVIOUS
  <2> QED
    BY <2>1, <2>2, <2>3, <2>4, Zenon
<1>14. Types'
  <2>1. queues' \in [QueueIds -> QueueObjects]
    BY <1>10 DEF AllShed, Objects
  <2>2. recent' \subseteq Messages
    BY <1>0, <1>3 DEF Types
  <2> QED
    BY <1>0, <1>2, <1>10, <1>12, <1>13, <2>1, <2>2 DEF Types
<1>15. OnceInv'
  <2>1. \A p \in QueueIds : Shape(queues'[p])
    BY <1>10 DEF AllShed, Objects
  <2>2. \A p \in QueueIds : \A x \in Messages : Holds(queues'[p], x) => x \in recent' /\ ran'[x] = redone'[x]
    BY <1>0, <1>2, <1>3, <1>6, <1>11 DEF OnceInv
  <2>3. \A p, r \in QueueIds : \A x \in Messages : Holds(queues'[p], x) /\ Holds(queues'[r], x) => p = r
    BY <1>0, <1>6, <1>11 DEF OnceInv
  <2>4. \A x \in Messages : ran'[x] # redone'[x] => x \in recent' /\ ran'[x] = redone'[x] + 1
    BY <1>0, <1>2, <1>3 DEF OnceInv
  <2> QED
    BY <2>1, <2>2, <2>3, <2>4 DEF OnceInv
<1>16. CalmInv'
  <2> SUFFICES ASSUME ~overflowed' PROVE lost' = {} /\ \A p \in QueueIds : Calm(queues'[p], p = entry')
    BY DEF CalmInv
  <2>1. ~overflowed /\ ~full
    BY <1>3
  <2>2. lost' = {}
    BY <1>0, <1>3, <2>1 DEF CalmInv
  <2>3. \A p \in QueueIds : Calm(queues[p], p = entry)
    BY <1>0, <2>1 DEF CalmInv
  <2>4. ASSUME NEW p \in QueueIds PROVE Calm(queues'[p], p = entry')
    <3>1. TRUE \in BOOLEAN /\ FALSE \in BOOLEAN
      OBVIOUS
    <3>2. /\ Calm(objects[p], TRUE) => Calm(queues'[p], TRUE)
          /\ Calm(objects[p], FALSE) => Calm(queues'[p], FALSE)
      BY <1>10, <3>1 DEF AllShed, Sheds
    <3>3. CASE p = q
      <4>1. Calm(objects[p], TRUE)
        BY <1>7, <1>9, <2>1, <2>3, <3>3
      <4> QED
        BY <3>2, <4>1 DEF Calm
    <3>4. CASE p # q
      <4>1. p # entry'
        BY <1>10, <3>4 DEF QueueIds, NoQueue
      <4>2. Calm(queues[p], FALSE)
        BY <2>3 DEF Calm
      <4> QED
        BY <1>9, <3>2, <3>4, <4>1, <4>2 DEF Calm
    <3> QED
      BY <3>3, <3>4
  <2> QED
    BY <2>2, <2>4
<1> QED
  BY <1>14, <1>15, <1>16 DEF IInv

\* No queue object exists at first.
LEMMA InitHolds == Init => IInv
<1> SUFFICES ASSUME Init PROVE IInv
  OBVIOUS
<1> DEFINE s == CHOOSE x \in Settings : TRUE
<1>1. s \in Settings
  BY FollowupQueueAssumption
<1>2. queues = [q \in QueueIds |-> EmptyQueue(s)]
  BY DEF Init
<1> HIDE DEF s
<1>3. queues \in [QueueIds -> QueueObjects] /\ \A q \in QueueIds : queues[q] = EmptyQueue(s)
  BY <1>1, <1>2, EmptyFacts
<1>4. turn = "none" /\ overflowed \in BOOLEAN /\ behind \in BOOLEAN
  BY Zenon DEF Init
<1>5. Types
  BY <1>3, <1>4, FollowupQueueAssumption DEF Init, Types
<1>6. OnceInv
  <2>1. \A q \in QueueIds : Shape(queues[q]) /\ \A m \in Messages : ~Holds(queues[q], m)
    BY <1>1, <1>3, EmptyFacts
  <2>2. \A m \in Messages : ran[m] = redone[m]
    BY DEF Init
  <2> QED
    BY <2>1, <2>2 DEF OnceInv
<1>7. CalmInv
  <2>1. \A q \in QueueIds : Calm(queues[q], q = entry)
    BY <1>1, <1>3, EmptyFacts DEF Calm
  <2> QED
    BY <2>1 DEF Init, CalmInv
<1> QED
  BY <1>5, <1>6, <1>7 DEF IInv

\* One case per action: a message arrives, a drain step, a clear, or the turn.
LEMMA NextKeeps == IInv /\ [Next]_vars => IInv'
<1> SUFFICES ASSUME IInv, [Next]_vars PROVE IInv'
  OBVIOUS
<1>0. Types /\ OnceInv /\ CalmInv /\ Objects(queues)
  BY DEF IInv, Types, OnceInv, Objects
<1>1. ASSUME NEW m \in Messages, NEW s \in Settings, Enqueue(m, s) PROVE IInv'
  BY <1>1, EnqueueKeeps
<1>2. ASSUME NEW q \in QueueIds, RunReturns(q) PROVE IInv'
  BY <1>2, ReturnKeeps
<1>3. CASE TurnStarts
  <2>1. turn' \in {"none", "reply", "other"}
    BY <1>3 DEF TurnStarts
  <2>2. UNCHANGED <<queues, entry, recent, failures, ran, redone, lost, overflowed, behind>>
    BY <1>3 DEF TurnStarts
  <2> QED
    BY <1>0, <2>1, <2>2 DEF IInv, Types, OnceInv, CalmInv
<1>4. CASE TurnEnds
  <2>1. queues' = Scheduled(queues, entry).queues /\ entry' = Scheduled(queues, entry).entry
        /\ turn' = "none" /\ UNCHANGED <<recent, failures, ran, redone, lost, overflowed>>
    BY <1>4 DEF TurnEnds, Becomes
  <2>2. behind' \in BOOLEAN
    BY <1>4, Zenon DEF TurnEnds
  <2>3. AllShed(queues, queues') /\ (entry' = entry \/ entry' = NoQueue)
    BY <1>0, <2>1, ScheduledSheds DEF Types
  <2>4. OnceInv' /\ CalmInv'
    BY <1>0, <2>1, <2>3, DrainSteps
  <2> QED
    BY <1>0, <2>1, <2>2, <2>3, <2>4 DEF IInv, Types, AllShed, Objects
<1>5. CASE ClearSessionQueues
  <2>1. OnceInv' /\ CalmInv' /\ queues' \in [QueueIds -> QueueObjects]
    BY <1>5, ClearKeeps
  <2>2. behind' \in BOOLEAN
    BY <1>5, Zenon DEF ClearSessionQueues
  <2>3. entry' = NoQueue /\ UNCHANGED <<recent, turn, failures, ran, redone, lost, overflowed>>
    BY <1>5 DEF ClearSessionQueues
  <2> QED
    BY <1>0, <2>1, <2>2, <2>3 DEF IInv, Types
<1>6. ASSUME NEW q \in QueueIds, DebouncePasses(q) PROVE IInv'
  <2>1. UNCHANGED <<recent, turn, failures, ran, redone, lost, overflowed, behind>>
    BY <1>6 DEF DebouncePasses
  <2>2. AllShed(queues, queues') /\ (entry' = entry \/ entry' = NoQueue)
    BY <1>0, <1>6, DebounceSheds
  <2>3. OnceInv' /\ CalmInv'
    BY <1>0, <2>1, <2>2, DrainSteps
  <2> QED
    BY <1>0, <2>1, <2>2, <2>3 DEF IInv, Types, AllShed, Objects
<1>7. ASSUME NEW q \in QueueIds, RunThrows(q) PROVE IInv'
  BY <1>7, ThrowKeeps
<1>8. CASE UNCHANGED vars
  BY <1>0, <1>8 DEF IInv, Types, OnceInv, CalmInv, vars
<1>9. CASE OtherRunEnds
  <2>1. turn' = "none" /\ UNCHANGED <<queues, entry, recent, failures, ran, redone, lost, overflowed, behind>>
    BY <1>9 DEF OtherRunEnds
  <2> QED
    BY <1>0, <2>1 DEF IInv, Types, OnceInv, CalmInv
<1> QED
  BY <1>1, <1>2, <1>3, <1>4, <1>5, <1>6, <1>7, <1>8, <1>9 DEF Next

\* The inductive invariant holds in every state.
LEMMA Inductive == Spec => []IInv
BY InitHolds, NextKeeps, PTL DEF Spec

-----------------------------------------------------------------------------
(* The theorems. *)

\* Every state has the declared types: a queue object is draining exactly while its drain
\* waits for something (beginQueueDrain and the finally block of scheduleFollowupDrain),
\* and no message is in a queue twice.
THEOREM TypeCorrect == Spec => []TypeOK
<1>1. IInv => TypeOK
  <2> SUFFICES ASSUME IInv PROVE TypeOK
    OBVIOUS
  <2>1. {overflowed, behind} \subseteq BOOLEAN
    BY Zenon DEF IInv, Types
  <2>2. \A q \in QueueIds : /\ queues[q].items \in Seq(Messages)
                            /\ queues[q].dropped \subseteq Messages
                            /\ Shape(queues[q])
    BY QueueFields DEF IInv, Types, OnceInv
  <2>3. \A q \in QueueIds :
          /\ \A i, j \in DOMAIN queues[q].items : queues[q].items[i] = queues[q].items[j] => i = j
          /\ queues[q].draining <=> queues[q].call # NoCall
    BY <2>2 DEF Shape, Distinct
  <2>4. DOMAIN queues = QueueIds /\ entry \in QueueIds \cup {NoQueue} /\ recent \subseteq Messages
        /\ turn \in {"none", "reply", "other"} /\ failures \in 0..MaxFailures
        /\ ran \in [Messages -> Nat] /\ redone \in [Messages -> Nat] /\ lost \subseteq Messages
    BY DEF IInv, Types
  <2> QED
    BY <2>1, <2>2, <2>3, <2>4 DEF TypeOK
<1> QED
  BY Inductive, <1>1, PTL

\* Once the run of a message has returned no turn has it again, with any settings,
\* overflow, clears, failures and redeliveries (the splice by position after a run, and
\* the message ids remembered); a turn is repeated only as often as its own run threw
\* after it had completed (the drain keeps what a failed run was given).
THEOREM MessagesRunOnce == Spec => []RunsOnce
<1>1. IInv => RunsOnce
  <2> SUFFICES ASSUME IInv, NEW m \in Messages
               PROVE  /\ ran[m] <= redone[m] + 1
                      /\ ran[m] > redone[m] => \A q \in QueueIds : m \notin Elements(queues[q].call.prompt)
    BY DEF RunsOnce
  <2>1. ran[m] \in Nat /\ redone[m] \in Nat
    BY DEF IInv, Types
  <2>2. ran[m] # redone[m] => ran[m] = redone[m] + 1
    BY DEF IInv, OnceInv
  <2>3. \A q \in QueueIds : m \in Elements(queues[q].call.prompt) => ran[m] = redone[m]
    BY DEF IInv, OnceInv, Holds
  <2> QED
    BY <2>1, <2>2, <2>3
<1> QED
  BY Inductive, <1>1, PTL

\* As long as no queue has overflowed, every message taken off a queue was run: what the
\* drain removes by position is what it ran.
THEOREM NothingIsLostBelowCap == Spec => []NothingLostBelowCap
<1>1. IInv => NothingLostBelowCap
  BY DEF IInv, CalmInv, NothingLostBelowCap, NothingLost
<1> QED
  BY Inductive, <1>1, PTL
=============================================================================
