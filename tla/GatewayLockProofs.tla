-------------------------- MODULE GatewayLockProofs --------------------------
(***************************************************************************)
(* Proofs about the gateway lock, for any number of processes that start,  *)
(* crash, stop and restart at any step.                                    *)
(***************************************************************************)
EXTENDS GatewayLock, TLAPS

-----------------------------------------------------------------------------
(* The inductive invariant. *)

\* A process that was alone on the host still is, or somebody's start took that
\* from it.
AloneInv == \A p \in Procs : alone[p] => \A q \in Procs \ {p} : ~Alive(q)

\* Where the attempt of a process that is alone and met no blank file can be: it
\* needs one round to find the owner dead and finds no file in the next.
AloneAt(p) ==
    \/ at[p] = "opening" /\ (rounds[p] = 0 \/ (rounds[p] = 1 /\ file = NoFile))
    \/ at[p] = "reading" /\ rounds[p] = 0 /\ file # NoFile
    \/ at[p] \in {"probing", "removing"} /\ rounds[p] = 0
    \/ at[p] \notin Attempt \cup {"refused"}
    \/ at[p] = "writing"

AttemptInv == \A p \in Procs : alone[p] /\ ~blankSeen[p] => AloneAt(p)

\* A process that created the file has it or was evicted, and has written its
\* payload before it goes on.
Creators == {"writing", "holding", "serving", "releasing"}

HolderInv ==
    \A p \in Procs :
        /\ at[p] \in Creators => file.owner = p \/ p \in evicted
        /\ at[p] \in Creators \ {"writing"} /\ file.owner = p => ~file.blank

\* Who has listened since a round read the file is who listens now.
ListenerInv == \A q \in Procs : upSince[q] \in {Nobody, listener}

\* A round that read the file while its owner listened sees it alive, unless its
\* probe goes unanswered.
RaceInv ==
    \A p, q \in Procs :
        at[p] = "serving" /\ file.owner = p /\ upSince[q] = p =>
            /\ at[q] \notin {"statting", "removing"}
            /\ at[q] = "probing" => seen[q].owner = p

IInv == TypeOK /\ AloneInv /\ AttemptInv /\ HolderInv /\ ListenerInv /\ RaceInv

-----------------------------------------------------------------------------
(* What the steps of a process have in common. *)

\* What is known of a lock file.
LEMMA FileFields ==
    ASSUME TypeOK
    PROVE  /\ file.owner \in Procs \cup {Nobody}
           /\ file.blank \in BOOLEAN /\ file.old \in BOOLEAN
           /\ file = NoFile <=> file.owner = Nobody
<1>1. CASE file = NoFile
  BY <1>1 DEF NoFile
<1>2. CASE file # NoFile
  <2>1. file \in [owner : Procs, blank : BOOLEAN, old : BOOLEAN]
    BY <1>2 DEF TypeOK, Files
  <2> QED
    BY <1>2, <2>1, GatewayLockAssumption
<1> QED
  BY <1>1, <1>2

\* Removing the file adds its owner to the evicted, if it counts on the file.
LEMMA Evicts ==
    ASSUME TypeOK, NEW p \in Procs
    PROVE  /\ EvictedBy(p) \subseteq Procs /\ evicted \subseteq EvictedBy(p)
           /\ \A q \in Procs \ {p} :
                 file.owner = q /\ at[q] \in Creators => q \in EvictedBy(p)
BY DEF EvictedBy, TypeOK, Creators

-----------------------------------------------------------------------------
(* Every action preserves the invariant, part by part. *)

\* Only who serves listens, and what is in the lock file is an owner's.
LEMMA TypePreserved ==
    ASSUME IInv, [Next]_vars
    PROVE  TypeOK'
<1> USE GatewayLockAssumption DEF IInv, TypeOK, Step, historyVars, Attempt, Running, Over
<1>1. ASSUME NEW p \in Procs, StartProcess(p)
      PROVE  TypeOK'
  BY <1>1 DEF StartProcess, BeginAttempt, MinRounds
<1>2. ASSUME NEW p \in Procs, CreateFile(p)
      PROVE  TypeOK'
  BY <1>2 DEF CreateFile, Files
<1>3. ASSUME NEW p \in Procs, FileExists(p)
      PROVE  TypeOK'
  BY <1>3 DEF FileExists
<1>4. ASSUME NEW p \in Procs, WritePayload(p)
      PROVE  TypeOK'
  BY <1>4 DEF WritePayload, Files, NoFile
<1>5. ASSUME NEW p \in Procs, WriteFails(p)
      PROVE  TypeOK'
  BY <1>5 DEF WriteFails
<1>6. ASSUME NEW p \in Procs, ReadLockPayload(p)
      PROVE  TypeOK'
  <2> DEFINE payload == IF file.blank THEN NoPayload ELSE [owner |-> file.owner, old |-> file.old]
  <2>1. payload \in [owner : Procs \cup {Nobody}, old : BOOLEAN] /\ file.blank \in BOOLEAN
    <3>1. CASE file.blank
      BY <3>1, FileFields DEF NoPayload
    <3>2. CASE ~file.blank
      BY <3>2, FileFields
    <3> QED
      BY <3>1, <3>2, FileFields
  <2> HIDE DEF payload
  <2>2. PICK to \in {"statting", "probing"} : Step(p, "reading", to)
    BY <1>6 DEF ReadLockPayload
  <2>3. /\ seen' = [seen EXCEPT ![p] = payload]
        /\ blankSeen' = [blankSeen EXCEPT ![p] = blankSeen[p] \/ file.blank]
        /\ upSince' = [upSince EXCEPT ![p] = listener]
        /\ UNCHANGED <<file, listener, rounds, alone, evicted>>
    BY <1>6 DEF ReadLockPayload, payload
  <2> QED
    BY <2>1, <2>2, <2>3
<1>7. ASSUME NEW p \in Procs, JudgeOwner(p)
      PROVE  TypeOK'
  <2>1. PICK to \in {"removing", "waiting", "statting"} : Step(p, "probing", to)
    BY <1>7 DEF JudgeOwner, OwnerStatus
  <2>2. /\ seen' \in [Procs -> [owner : Procs \cup {Nobody}, old : BOOLEAN]]
        /\ upSince' \in [Procs -> Procs \cup {Nobody}]
        /\ UNCHANGED <<file, listener, rounds, alone, blankSeen, evicted>>
    BY <1>7 DEF JudgeOwner, NoPayload
  <2> QED
    BY <2>1, <2>2
<1>8. ASSUME NEW p \in Procs, StatFile(p)
      PROVE  TypeOK'
  BY <1>8 DEF StatFile, NoPayload
<1>9. ASSUME NEW p \in Procs, ReclaimFile(p)
      PROVE  TypeOK'
  <2>1. /\ Step(p, "removing", "opening")
        /\ file' = NoFile /\ evicted' \subseteq Procs
        /\ UNCHANGED <<listener, seen, alone, blankSeen, upSince>>
    BY <1>9, Evicts DEF ReclaimFile
  <2>2. rounds' \in [Procs -> 0..MinRounds]
    BY <1>9 DEF ReclaimFile, EndRound, MinRounds
  <2> QED
    BY <2>1, <2>2 DEF Files
<1>10. ASSUME NEW p \in Procs, PollAgain(p)
       PROVE  TypeOK'
  BY <1>10 DEF PollAgain, EndRound, MinRounds
<1>11. ASSUME NEW p \in Procs, TimesOut(p)
       PROVE  TypeOK'
  BY <1>11 DEF TimesOut, MinRounds
<1>12. ASSUME NEW p \in Procs, BindPort(p)
       PROVE  TypeOK'
  BY <1>12 DEF BindPort
<1>13. ASSUME NEW p \in Procs, BindFails(p)
       PROVE  TypeOK'
  BY <1>13 DEF BindFails
<1>14. ASSUME NEW p \in Procs, CloseServer(p)
       PROVE  TypeOK'
  BY <1>14 DEF CloseServer
<1>15. ASSUME NEW p \in Procs, ReleaseAndExit(p)
       PROVE  TypeOK'
  <2>1. /\ Step(p, "releasing", "gone")
        /\ file' = NoFile /\ evicted' \subseteq Procs
        /\ UNCHANGED <<listener, seen>>
    BY <1>15, Evicts DEF ReleaseAndExit
  <2>2. /\ rounds' \in [Procs -> 0..MinRounds] /\ alone' \in [Procs -> BOOLEAN]
        /\ blankSeen' \in [Procs -> BOOLEAN] /\ upSince' \in [Procs -> Procs \cup {Nobody}]
    BY <1>15 DEF ReleaseAndExit
  <2> QED
    BY <2>1, <2>2 DEF Files
<1>16. ASSUME NEW p \in Procs, ReleaseAndRestart(p)
       PROVE  TypeOK'
  <2>1. /\ Step(p, "releasing", "opening")
        /\ file' = NoFile /\ evicted' \subseteq Procs
        /\ UNCHANGED <<listener, seen>>
    BY <1>16, Evicts DEF ReleaseAndRestart
  <2>2. /\ rounds' \in [Procs -> 0..MinRounds] /\ alone' \in [Procs -> BOOLEAN]
        /\ blankSeen' \in [Procs -> BOOLEAN] /\ upSince' \in [Procs -> Procs \cup {Nobody}]
    BY <1>16 DEF ReleaseAndRestart, BeginAttempt, MinRounds
  <2> QED
    BY <2>1, <2>2 DEF Files
<1>17. ASSUME NEW p \in Procs, Crash(p)
       PROVE  TypeOK'
  BY <1>17 DEF Crash, Alive
<1>18. CASE FileAges
  BY <1>18 DEF FileAges, Files, NoFile
<1>19. CASE UNCHANGED vars
  BY <1>19 DEF vars
<1> QED
  BY <1>1, <1>2, <1>3, <1>4, <1>5, <1>6, <1>7, <1>8, <1>9, <1>10,
     <1>11, <1>12, <1>13, <1>14, <1>15, <1>16, <1>17, <1>18, <1>19
     DEF Next

\* Nobody starts beside a process that stays alone.
LEMMA AlonePreserved ==
    ASSUME IInv, [Next]_vars
    PROVE  AloneInv'
<1> USE DEF IInv, TypeOK, AloneInv, Step, historyVars, Alive, Running, Attempt
<1>1. ASSUME NEW p \in Procs, StartProcess(p)
      PROVE  AloneInv'
  BY <1>1 DEF StartProcess, BeginAttempt
<1>2. ASSUME NEW p \in Procs, CreateFile(p)
      PROVE  AloneInv'
  BY <1>2 DEF CreateFile
<1>3. ASSUME NEW p \in Procs, FileExists(p)
      PROVE  AloneInv'
  BY <1>3 DEF FileExists
<1>4. ASSUME NEW p \in Procs, WritePayload(p)
      PROVE  AloneInv'
  BY <1>4 DEF WritePayload
<1>5. ASSUME NEW p \in Procs, WriteFails(p)
      PROVE  AloneInv'
  BY <1>5 DEF WriteFails
<1>6. ASSUME NEW p \in Procs, ReadLockPayload(p)
      PROVE  AloneInv'
  BY <1>6 DEF ReadLockPayload
<1>7. ASSUME NEW p \in Procs, JudgeOwner(p)
      PROVE  AloneInv'
  BY <1>7 DEF JudgeOwner
<1>8. ASSUME NEW p \in Procs, StatFile(p)
      PROVE  AloneInv'
  BY <1>8 DEF StatFile
<1>9. ASSUME NEW p \in Procs, ReclaimFile(p)
      PROVE  AloneInv'
  BY <1>9 DEF ReclaimFile
<1>10. ASSUME NEW p \in Procs, PollAgain(p)
       PROVE  AloneInv'
  BY <1>10 DEF PollAgain
<1>11. ASSUME NEW p \in Procs, TimesOut(p)
       PROVE  AloneInv'
  BY <1>11 DEF TimesOut
<1>12. ASSUME NEW p \in Procs, BindPort(p)
       PROVE  AloneInv'
  BY <1>12 DEF BindPort
<1>13. ASSUME NEW p \in Procs, BindFails(p)
       PROVE  AloneInv'
  BY <1>13 DEF BindFails
<1>14. ASSUME NEW p \in Procs, CloseServer(p)
       PROVE  AloneInv'
  BY <1>14 DEF CloseServer
<1>15. ASSUME NEW p \in Procs, ReleaseAndExit(p)
       PROVE  AloneInv'
  BY <1>15 DEF ReleaseAndExit
<1>16. ASSUME NEW p \in Procs, ReleaseAndRestart(p)
       PROVE  AloneInv'
  BY <1>16 DEF ReleaseAndRestart, BeginAttempt
<1>17. ASSUME NEW p \in Procs, Crash(p)
       PROVE  AloneInv'
  BY <1>17 DEF Crash
<1>18. CASE FileAges
  BY <1>18 DEF FileAges
<1>19. CASE UNCHANGED vars
  BY <1>19 DEF vars
<1> QED
  BY <1>1, <1>2, <1>3, <1>4, <1>5, <1>6, <1>7, <1>8, <1>9, <1>10,
     <1>11, <1>12, <1>13, <1>14, <1>15, <1>16, <1>17, <1>18, <1>19
     DEF Next

\* An attempt that is alone finds the owner dead, removes the file and creates its
\* own in the next round.
LEMMA AttemptPreserved ==
    ASSUME IInv, [Next]_vars
    PROVE  AttemptInv'
<1> USE FileFields DEF IInv, TypeOK, AloneInv, AttemptInv, AloneAt, Step, historyVars,
        Alive, Running, Attempt, NoFile
<1>1. ASSUME NEW p \in Procs, StartProcess(p)
      PROVE  AttemptInv'
  BY <1>1 DEF StartProcess, BeginAttempt
<1>2. ASSUME NEW p \in Procs, CreateFile(p)
      PROVE  AttemptInv'
  BY <1>2 DEF CreateFile
<1>3. ASSUME NEW p \in Procs, FileExists(p)
      PROVE  AttemptInv'
  BY <1>3 DEF FileExists
<1>4. ASSUME NEW p \in Procs, WritePayload(p)
      PROVE  AttemptInv'
  BY <1>4 DEF WritePayload
<1>5. ASSUME NEW p \in Procs, WriteFails(p)
      PROVE  AttemptInv'
  BY <1>5 DEF WriteFails
<1>6. ASSUME NEW p \in Procs, ReadLockPayload(p)
      PROVE  AttemptInv'
  <2>1. PICK to \in {"statting", "probing"} : Step(p, "reading", to)
    BY <1>6 DEF ReadLockPayload
  <2>2. file # NoFile /\ ~file.blank => to = "probing"
    BY <1>6, <2>1, FileFields DEF ReadLockPayload, NoPayload
  <2>3. /\ blankSeen' = [blankSeen EXCEPT ![p] = blankSeen[p] \/ file.blank]
        /\ UNCHANGED <<file, rounds, alone>>
    BY <1>6 DEF ReadLockPayload
  <2>4. /\ ~blankSeen'[p] => ~blankSeen[p] /\ ~file.blank
        /\ \A q \in Procs \ {p} : blankSeen'[q] = blankSeen[q]
    BY <2>3, FileFields
  <2> QED
    BY <2>1, <2>2, <2>3, <2>4
<1>7. ASSUME NEW p \in Procs, JudgeOwner(p)
      PROVE  AttemptInv'
  <2>1. PICK answered \in ProbeAnswers : \E status \in OwnerStatus(seen[p].owner, answered) :
           Step(p, "probing", CASE status = "dead" -> "removing"
                                [] status = "alive" -> "waiting"
                                [] status = "unknown" -> "statting")
    BY <1>7 DEF JudgeOwner
  <2>2. alone[p] => Step(p, "probing", "removing")
    BY <2>1 DEF OwnerStatus, ProbeAnswers
  <2>3. UNCHANGED <<file, rounds, alone, blankSeen>>
    BY <1>7 DEF JudgeOwner
  <2>4. \A q \in Procs \ {p} : at'[q] = at[q]
    BY <2>1
  <2>5. alone[p] => at[p] = "probing" /\ at'[p] = "removing"
    BY <2>2
  <2>6. ASSUME NEW q \in Procs, alone'[q], ~blankSeen'[q]
        PROVE  AloneAt(q)'
    BY <2>3, <2>4, <2>5, <2>6
  <2> QED
    BY <2>6
<1>8. ASSUME NEW p \in Procs, StatFile(p)
      PROVE  AttemptInv'
  BY <1>8 DEF StatFile
<1>9. ASSUME NEW p \in Procs, ReclaimFile(p)
      PROVE  AttemptInv'
  BY <1>9 DEF ReclaimFile, EndRound, MinRounds
<1>10. ASSUME NEW p \in Procs, PollAgain(p)
       PROVE  AttemptInv'
  BY <1>10 DEF PollAgain, EndRound, MinRounds
<1>11. ASSUME NEW p \in Procs, TimesOut(p)
       PROVE  AttemptInv'
  BY <1>11 DEF TimesOut, MinRounds
<1>12. ASSUME NEW p \in Procs, BindPort(p)
       PROVE  AttemptInv'
  BY <1>12 DEF BindPort
<1>13. ASSUME NEW p \in Procs, BindFails(p)
       PROVE  AttemptInv'
  BY <1>13 DEF BindFails
<1>14. ASSUME NEW p \in Procs, CloseServer(p)
       PROVE  AttemptInv'
  BY <1>14 DEF CloseServer
<1>15. ASSUME NEW p \in Procs, ReleaseAndExit(p)
       PROVE  AttemptInv'
  BY <1>15 DEF ReleaseAndExit
<1>16. ASSUME NEW p \in Procs, ReleaseAndRestart(p)
       PROVE  AttemptInv'
  BY <1>16 DEF ReleaseAndRestart, BeginAttempt
<1>17. ASSUME NEW p \in Procs, Crash(p)
       PROVE  AttemptInv'
  BY <1>17 DEF Crash
<1>18. CASE FileAges
  BY <1>18 DEF FileAges
<1>19. CASE UNCHANGED vars
  BY <1>19 DEF vars
<1> QED
  BY <1>1, <1>2, <1>3, <1>4, <1>5, <1>6, <1>7, <1>8, <1>9, <1>10,
     <1>11, <1>12, <1>13, <1>14, <1>15, <1>16, <1>17, <1>18, <1>19
     DEF Next

\* A creator loses its file only to an eviction.
LEMMA HolderPreserved ==
    ASSUME IInv, [Next]_vars
    PROVE  HolderInv'
<1> USE FileFields, Evicts, GatewayLockAssumption DEF IInv, TypeOK, HolderInv, Creators,
        Step, historyVars, NoFile
<1>1. ASSUME NEW p \in Procs, StartProcess(p)
      PROVE  HolderInv'
  BY <1>1 DEF StartProcess
<1>2. ASSUME NEW p \in Procs, CreateFile(p)
      PROVE  HolderInv'
  BY <1>2 DEF CreateFile
<1>3. ASSUME NEW p \in Procs, FileExists(p)
      PROVE  HolderInv'
  BY <1>3 DEF FileExists
<1>4. ASSUME NEW p \in Procs, WritePayload(p)
      PROVE  HolderInv'
  BY <1>4 DEF WritePayload
<1>5. ASSUME NEW p \in Procs, WriteFails(p)
      PROVE  HolderInv'
  BY <1>5 DEF WriteFails
<1>6. ASSUME NEW p \in Procs, ReadLockPayload(p)
      PROVE  HolderInv'
  BY <1>6 DEF ReadLockPayload
<1>7. ASSUME NEW p \in Procs, JudgeOwner(p)
      PROVE  HolderInv'
  <2>1. PICK to \in {"removing", "waiting", "statting"} : Step(p, "probing", to)
    BY <1>7 DEF JudgeOwner, OwnerStatus
  <2>2. UNCHANGED <<file, evicted>>
    BY <1>7 DEF JudgeOwner
  <2> QED
    BY <2>1, <2>2
<1>8. ASSUME NEW p \in Procs, StatFile(p)
      PROVE  HolderInv'
  BY <1>8 DEF StatFile
<1>9. ASSUME NEW p \in Procs, ReclaimFile(p)
      PROVE  HolderInv'
  BY <1>9 DEF ReclaimFile
<1>10. ASSUME NEW p \in Procs, PollAgain(p)
       PROVE  HolderInv'
  BY <1>10 DEF PollAgain
<1>11. ASSUME NEW p \in Procs, TimesOut(p)
       PROVE  HolderInv'
  BY <1>11 DEF TimesOut
<1>12. ASSUME NEW p \in Procs, BindPort(p)
       PROVE  HolderInv'
  BY <1>12 DEF BindPort
<1>13. ASSUME NEW p \in Procs, BindFails(p)
       PROVE  HolderInv'
  BY <1>13 DEF BindFails
<1>14. ASSUME NEW p \in Procs, CloseServer(p)
       PROVE  HolderInv'
  BY <1>14 DEF CloseServer
<1>15. ASSUME NEW p \in Procs, ReleaseAndExit(p)
       PROVE  HolderInv'
  BY <1>15 DEF ReleaseAndExit
<1>16. ASSUME NEW p \in Procs, ReleaseAndRestart(p)
       PROVE  HolderInv'
  BY <1>16 DEF ReleaseAndRestart
<1>17. ASSUME NEW p \in Procs, Crash(p)
       PROVE  HolderInv'
  BY <1>17 DEF Crash
<1>18. CASE FileAges
  BY <1>18 DEF FileAges
<1>19. CASE UNCHANGED vars
  BY <1>19 DEF vars
<1> QED
  BY <1>1, <1>2, <1>3, <1>4, <1>5, <1>6, <1>7, <1>8, <1>9, <1>10,
     <1>11, <1>12, <1>13, <1>14, <1>15, <1>16, <1>17, <1>18, <1>19
     DEF Next

\* A listener that goes is forgotten by every round.
LEMMA ListenerPreserved ==
    ASSUME IInv, [Next]_vars
    PROVE  ListenerInv'
<1> USE GatewayLockAssumption DEF IInv, TypeOK, ListenerInv, Step, historyVars
<1>1. ASSUME NEW p \in Procs, StartProcess(p)
      PROVE  ListenerInv'
  BY <1>1 DEF StartProcess
<1>2. ASSUME NEW p \in Procs, CreateFile(p)
      PROVE  ListenerInv'
  BY <1>2 DEF CreateFile
<1>3. ASSUME NEW p \in Procs, FileExists(p)
      PROVE  ListenerInv'
  BY <1>3 DEF FileExists
<1>4. ASSUME NEW p \in Procs, WritePayload(p)
      PROVE  ListenerInv'
  BY <1>4 DEF WritePayload
<1>5. ASSUME NEW p \in Procs, WriteFails(p)
      PROVE  ListenerInv'
  BY <1>5 DEF WriteFails
<1>6. ASSUME NEW p \in Procs, ReadLockPayload(p)
      PROVE  ListenerInv'
  BY <1>6 DEF ReadLockPayload
<1>7. ASSUME NEW p \in Procs, JudgeOwner(p)
      PROVE  ListenerInv'
  BY <1>7 DEF JudgeOwner
<1>8. ASSUME NEW p \in Procs, StatFile(p)
      PROVE  ListenerInv'
  BY <1>8 DEF StatFile
<1>9. ASSUME NEW p \in Procs, ReclaimFile(p)
      PROVE  ListenerInv'
  BY <1>9 DEF ReclaimFile
<1>10. ASSUME NEW p \in Procs, PollAgain(p)
       PROVE  ListenerInv'
  BY <1>10 DEF PollAgain
<1>11. ASSUME NEW p \in Procs, TimesOut(p)
       PROVE  ListenerInv'
  BY <1>11 DEF TimesOut
<1>12. ASSUME NEW p \in Procs, BindPort(p)
       PROVE  ListenerInv'
  BY <1>12 DEF BindPort
<1>13. ASSUME NEW p \in Procs, BindFails(p)
       PROVE  ListenerInv'
  BY <1>13 DEF BindFails
<1>14. ASSUME NEW p \in Procs, CloseServer(p)
       PROVE  ListenerInv'
  BY <1>14 DEF CloseServer
<1>15. ASSUME NEW p \in Procs, ReleaseAndExit(p)
       PROVE  ListenerInv'
  BY <1>15 DEF ReleaseAndExit
<1>16. ASSUME NEW p \in Procs, ReleaseAndRestart(p)
       PROVE  ListenerInv'
  BY <1>16 DEF ReleaseAndRestart
<1>17. ASSUME NEW p \in Procs, Crash(p)
       PROVE  ListenerInv'
  BY <1>17 DEF Crash
<1>18. CASE FileAges
  BY <1>18 DEF FileAges
<1>19. CASE UNCHANGED vars
  BY <1>19 DEF vars
<1> QED
  BY <1>1, <1>2, <1>3, <1>4, <1>5, <1>6, <1>7, <1>8, <1>9, <1>10,
     <1>11, <1>12, <1>13, <1>14, <1>15, <1>16, <1>17, <1>18, <1>19
     DEF Next

\* A round that read the file of a listening owner does not remove it.
LEMMA RacePreserved ==
    ASSUME IInv, [Next]_vars
    PROVE  RaceInv'
<1> USE FileFields, GatewayLockAssumption DEF IInv, TypeOK, HolderInv, ListenerInv,
        RaceInv, Creators, Step, historyVars, NoFile
<1>1. ASSUME NEW p \in Procs, StartProcess(p)
      PROVE  RaceInv'
  BY <1>1 DEF StartProcess
<1>2. ASSUME NEW p \in Procs, CreateFile(p)
      PROVE  RaceInv'
  BY <1>2 DEF CreateFile
<1>3. ASSUME NEW p \in Procs, FileExists(p)
      PROVE  RaceInv'
  BY <1>3 DEF FileExists
<1>4. ASSUME NEW p \in Procs, WritePayload(p)
      PROVE  RaceInv'
  BY <1>4 DEF WritePayload
<1>5. ASSUME NEW p \in Procs, WriteFails(p)
      PROVE  RaceInv'
  BY <1>5 DEF WriteFails
<1>6. ASSUME NEW p \in Procs, ReadLockPayload(p)
      PROVE  RaceInv'
  <2>1. PICK to \in {"statting", "probing"} : Step(p, "reading", to)
    BY <1>6 DEF ReadLockPayload
  <2>2. \A o \in Procs : file.owner = o /\ ~file.blank => to = "probing" /\ seen'[p].owner = o
    <3> SUFFICES ASSUME NEW o \in Procs, file.owner = o, ~file.blank
                 PROVE  to = "probing" /\ seen'[p].owner = o
      OBVIOUS
    <3>1. seen' = [seen EXCEPT ![p] = [owner |-> o, old |-> file.old]]
      BY <1>6 DEF ReadLockPayload
    <3>2. at' = [at EXCEPT ![p] = "probing"]
      BY <1>6 DEF ReadLockPayload, NoPayload
    <3> QED
      BY <2>1, <3>1, <3>2
  <2>3. \A o \in Procs : at[o] = "serving" /\ file.owner = o => ~file.blank
    OBVIOUS
  <2>4. /\ \A q \in Procs \ {p} : seen'[q] = seen[q] /\ upSince'[q] = upSince[q]
        /\ UNCHANGED <<file, listener>>
    BY <1>6 DEF ReadLockPayload
  <2> QED
    BY <2>1, <2>2, <2>3, <2>4
<1>7. ASSUME NEW p \in Procs, JudgeOwner(p)
      PROVE  RaceInv'
  <2>1. PICK answered \in ProbeAnswers :
           /\ upSince' = [upSince EXCEPT ![p] = IF answered THEN @ ELSE Nobody]
           /\ \E status \in OwnerStatus(seen[p].owner, answered) :
                 /\ Step(p, "probing", CASE status = "dead" -> "removing"
                                         [] status = "alive" -> "waiting"
                                         [] status = "unknown" -> "statting")
                 /\ seen' = IF status = "unknown" THEN seen ELSE [seen EXCEPT ![p] = NoPayload]
    BY <1>7 DEF JudgeOwner
  <2>2. UNCHANGED <<file, listener>>
    BY <1>7 DEF JudgeOwner
  <2>3. CASE ~answered
    BY <2>1, <2>2, <2>3
  <2>4. CASE answered
    BY <2>1, <2>2, <2>4 DEF OwnerStatus, Alive, Running
  <2> QED
    BY <2>3, <2>4
<1>8. ASSUME NEW p \in Procs, StatFile(p)
      PROVE  RaceInv'
  BY <1>8 DEF StatFile
<1>9. ASSUME NEW p \in Procs, ReclaimFile(p)
      PROVE  RaceInv'
  BY <1>9 DEF ReclaimFile
<1>10. ASSUME NEW p \in Procs, PollAgain(p)
       PROVE  RaceInv'
  BY <1>10 DEF PollAgain
<1>11. ASSUME NEW p \in Procs, TimesOut(p)
       PROVE  RaceInv'
  BY <1>11 DEF TimesOut
<1>12. ASSUME NEW p \in Procs, BindPort(p)
       PROVE  RaceInv'
  BY <1>12 DEF BindPort
<1>13. ASSUME NEW p \in Procs, BindFails(p)
       PROVE  RaceInv'
  BY <1>13 DEF BindFails
<1>14. ASSUME NEW p \in Procs, CloseServer(p)
       PROVE  RaceInv'
  BY <1>14 DEF CloseServer
<1>15. ASSUME NEW p \in Procs, ReleaseAndExit(p)
       PROVE  RaceInv'
  BY <1>15 DEF ReleaseAndExit
<1>16. ASSUME NEW p \in Procs, ReleaseAndRestart(p)
       PROVE  RaceInv'
  BY <1>16 DEF ReleaseAndRestart
<1>17. ASSUME NEW p \in Procs, Crash(p)
       PROVE  RaceInv'
  BY <1>17 DEF Crash
<1>18. CASE FileAges
  BY <1>18 DEF FileAges
<1>19. CASE UNCHANGED vars
  BY <1>19 DEF vars
<1> QED
  BY <1>1, <1>2, <1>3, <1>4, <1>5, <1>6, <1>7, <1>8, <1>9, <1>10,
     <1>11, <1>12, <1>13, <1>14, <1>15, <1>16, <1>17, <1>18, <1>19
     DEF Next

\* At first there is neither a process nor a file.
LEMMA InitInv == Init => IInv
BY GatewayLockAssumption
   DEF Init, IInv, TypeOK, AloneInv, AttemptInv, AloneAt, HolderInv, ListenerInv, RaceInv, Creators,
       Attempt, Running, Over, Files, NoPayload, MinRounds

\* Every step keeps the parts of the invariant.
LEMMA NextPreserves == IInv /\ [Next]_vars => IInv'
BY TypePreserved, AlonePreserved, AttemptPreserved, HolderPreserved, ListenerPreserved,
   RacePreserved DEF IInv

\* The inductive invariant holds in every state.
LEMMA Inductive == Spec => []IInv
BY InitInv, NextPreserves, PTL DEF Spec

-----------------------------------------------------------------------------
(* The theorems. *)

\* gateway-lock.ts: only who serves listens, and the lock file is somebody's.
THEOREM TypeCorrect == Spec => []TypeOK
BY Inductive, PTL DEF IInv

\* acquireGatewayLock: what an earlier gateway left behind does not keep the next one
\* out, however the attempts and crashes before it were interleaved.
THEOREM CrashKeepsNobodyOut == Spec => []RefusedOnlyByOthers
<1>1. IInv => RefusedOnlyByOthers
  BY DEF IInv, AttemptInv, AloneAt, Attempt, RefusedOnlyByOthers
<1> QED
  BY <1>1, Inductive, PTL

\* What ServingLosesFileOnlyToRace says of one step.
LostToRace ==
    \A p \in Procs :
        /\ at[p] = "serving"
        /\ file.owner = p
        /\ file'.owner # p
        => \E q \in Procs \ {p} :
              \/ at[q] = "removing" /\ at'[q] # "removing" /\ upSince[q] # p
              \/ at[q] = "releasing" /\ at'[q] # "releasing" /\ q \in evicted

\* Only two removals by name can take the file of a gateway that serves: that of a
\* round which read it before the gateway was up or got no answer from it, and the
\* release of a lock whose holder was itself evicted.
LEMMA NextLosesOnlyToRace ==
    ASSUME IInv, [Next]_vars
    PROVE  LostToRace
<1> SUFFICES ASSUME NEW p \in Procs, at[p] = "serving", file.owner = p, file'.owner # p
             PROVE  \E q \in Procs \ {p} :
                       \/ at[q] = "removing" /\ at'[q] # "removing" /\ upSince[q] # p
                       \/ at[q] = "releasing" /\ at'[q] # "releasing" /\ q \in evicted
  BY DEF LostToRace
<1>1. file # NoFile
  BY GatewayLockAssumption DEF NoFile
<1>2. PICK q \in Procs :
         CreateFile(q) \/ ReclaimFile(q) \/ ReleaseAndExit(q) \/ ReleaseAndRestart(q)
  <2>1. \/ file' = file
        \/ file' = [file EXCEPT !.blank = FALSE, !.old = FALSE]
        \/ file' = [file EXCEPT !.old = TRUE]
        \/ \E q \in Procs :
              CreateFile(q) \/ ReclaimFile(q) \/ ReleaseAndExit(q) \/ ReleaseAndRestart(q)
    BY DEF Next, vars, StartProcess, FileExists, WritePayload, WriteFails, ReadLockPayload,
           JudgeOwner, StatFile, PollAgain, TimesOut, BindPort, BindFails, CloseServer, Crash,
           FileAges
  <2>2. file \in [owner : Procs, blank : BOOLEAN, old : BOOLEAN]
    BY <1>1 DEF IInv, TypeOK, Files
  <2> QED
    BY <2>1, <2>2
<1>3. CASE CreateFile(q)
  BY <1>1, <1>3 DEF CreateFile
<1>4. CASE ReclaimFile(q)
  <2>1. at[q] = "removing" /\ at'[q] = "opening"
    BY <1>4 DEF ReclaimFile, Step, IInv, TypeOK
  <2>2. upSince[q] # p
    BY <2>1 DEF IInv, RaceInv
  <2> QED
    BY <2>1, <2>2
<1>5. CASE ReleaseAndExit(q) \/ ReleaseAndRestart(q)
  <2>1. at[q] = "releasing" /\ at'[q] # "releasing"
    BY <1>5 DEF ReleaseAndExit, ReleaseAndRestart, Step, IInv, TypeOK
  <2>2. q \in evicted
    BY <2>1 DEF IInv, HolderInv, Creators
  <2> QED
    BY <2>1, <2>2
<1> QED
  BY <1>2, <1>3, <1>4, <1>5

\* A gateway that is up and answers probes loses its lock file only to a race that
\* began before it was.
THEOREM ServingKeepsFile == Spec => ServingLosesFileOnlyToRace
<1>1. IInv /\ [Next]_vars => [LostToRace]_vars
  BY NextLosesOnlyToRace
<1>2. Spec => [][LostToRace]_vars
  BY <1>1, Inductive, PTL DEF Spec
<1> QED
  BY <1>2 DEF ServingLosesFileOnlyToRace, LostToRace
=============================================================================
