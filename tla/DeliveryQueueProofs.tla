------------------------- MODULE DeliveryQueueProofs -------------------------
(***************************************************************************)
(* Proofs about the outbound delivery queue, for any entries, scans,       *)
(* retries and crashes.                                                    *)
(***************************************************************************)
EXTENDS DeliveryQueue, TLAPS

-----------------------------------------------------------------------------
(* The inductive invariant. *)

\* Who acks an entry knows that it was sent or cancelled, or swallowed its errors; who
\* is about to write a retry has read a file.
LossInv ==
    /\ NoSilentLoss
    /\ \A e \in Entries :
          /\ live[e] = "confirming" => sends[e] > 0
          /\ live[e] = "acking" => sends[e] > 0 \/ cancelled[e]
          /\ live[e] = "failing" => liveCopy[e].mark # "absent"
    /\ \A s \in Scans : \A e \in current[s] :
          /\ scan[s] = "acking" => sends[e] > 0 \/ cancelled[e] \/ e \in swallowed
          /\ scan[s] = "failing" => scanCopy[s][e].mark # "absent"

IInv == TypeOK /\ OneOwner /\ LossInv

-----------------------------------------------------------------------------
(* What the helpers of the handlers do. *)

\* failDelivery changes the retry count only.
LEMMA RetriedFile ==
    ASSUME NEW f \in Files
    PROVE  Retried(f) \in Files /\ Retried(f).mark = f.mark
BY DeliveryQueueAssumption DEF Retried, Files, Marks

\* The platform accepts one entry once more.
LEMMA AcceptedOnce ==
    ASSUME TypeOK, NEW e \in Entries, Accepted(e)
    PROVE  /\ sends' \in [Entries -> 0..MaxSends]
           /\ sends'[e] = sends[e] + 1 /\ \A o \in Entries \ {e} : sends'[o] = sends[o]
BY DeliveryQueueAssumption DEF Accepted, TypeOK

\* And never takes a message back.
LEMMA SendsGrow ==
    ASSUME TypeOK, NEW e \in Entries, UNCHANGED sends \/ Accepted(e)
    PROVE  /\ \A o \in Entries : sends'[o] >= sends[o] /\ sends[o] >= 0 /\ sends'[o] \in Nat
           /\ Accepted(e) => sends'[e] > 0
<1>1. \A o \in Entries : sends[o] \in Nat
  BY DeliveryQueueAssumption DEF TypeOK
<1>2. CASE UNCHANGED sends
  <2>1. ~Accepted(e)
    BY <1>1, <1>2, AcceptedOnce
  <2> QED
    BY <1>1, <1>2, <2>1
<1>3. CASE Accepted(e)
  BY <1>1, <1>3, AcceptedOnce
<1> QED
  BY <1>2, <1>3

\* moveToFailed keeps the message, in one place or the other.
LEMMA FailedFile ==
    ASSUME TypeOK, NEW e \in Entries, MoveToFailed(e)
    PROVE  /\ \A o \in Entries \ {e} : json'[o] = json[o] /\ failed'[o] = failed[o]
           /\ json'[e] = NoFile /\ json'[e].mark = "absent"
           /\ failed[e] \/ Exists(e) => failed'[e]
BY DEF MoveToFailed, Write, NoFile, TypeOK

\* The release of a claim ends the work of one scan.
LEMMA Released ==
    ASSUME TypeOK, NEW s \in Scans, Release(s)
    PROVE  /\ scan'[s] = "picking" /\ current'[s] = {}
           /\ \A r \in Scans \ {s} : scan'[r] = scan[r] /\ current'[r] = current[r]
BY DEF Release, TypeOK

\* An entry moved to failed/ is not lost, and its scan has nothing left to write.
LEMMA MovedNotLost ==
    ASSUME TypeOK, LossInv, NEW s \in Scans, NEW e \in Entries, MoveToFailed(e), Release(s),
           UNCHANGED <<liveVars, scanCopy, swallowed>>, UNCHANGED sends \/ Accepted(e)
    PROVE  LossInv'
<1>0. \A o \in Entries : sends[o] > 0 => sends'[o] > 0
  <2>1. \A o \in Entries : sends'[o] >= sends[o] /\ sends'[o] \in Nat
    BY SendsGrow
  <2>2. \A o \in Entries : sends[o] \in Nat
    BY DeliveryQueueAssumption DEF TypeOK
  <2> QED
    BY <2>1, <2>2
<1>1. NoSilentLoss'
  <2>1. \A o \in Entries \ {e} : json'[o] = json[o] /\ failed'[o] = failed[o]
    BY FailedFile
  <2>2. failed[e] \/ Exists(e) => failed'[e]
    BY FailedFile
  <2>3. \A o \in Entries : /\ failed[o] => failed'[o]
                           /\ Exists(o) /\ ~failed'[o] => Exists(o)'
    BY <2>1, <2>2 DEF Exists
  <2>4. UNCHANGED <<live, cancelled, swallowed>>
    BY DEF liveVars
  <2> QED
    BY <1>0, <2>3, <2>4 DEF LossInv, NoSilentLoss
<1>2. \A o \in Entries : /\ live'[o] = "confirming" => sends'[o] > 0
                         /\ live'[o] = "acking" => sends'[o] > 0 \/ cancelled'[o]
                         /\ live'[o] = "failing" => liveCopy'[o].mark # "absent"
  BY <1>0 DEF LossInv, liveVars
<1>3. \A r \in Scans : \A o \in current'[r] :
         /\ scan'[r] = "acking" => sends'[o] > 0 \/ cancelled'[o] \/ o \in swallowed'
         /\ scan'[r] = "failing" => scanCopy'[r][o].mark # "absent"
  <2> SUFFICES ASSUME NEW r \in Scans, NEW o \in current'[r]
               PROVE  /\ scan'[r] = "acking" => sends'[o] > 0 \/ cancelled'[o] \/ o \in swallowed'
                      /\ scan'[r] = "failing" => scanCopy'[r][o].mark # "absent"
    OBVIOUS
  <2>1. r # s /\ scan'[r] = scan[r] /\ o \in current[r]
    BY Released
  <2>2. o \in Entries
    BY <2>1 DEF TypeOK
  <2> QED
    BY <1>0, <2>1, <2>2 DEF LossInv, liveVars
<1> QED
  BY <1>1, <1>2, <1>3 DEF LossInv

\* A scan that works on an entry has that one and no other.
LEMMA CurrentOnly ==
    ASSUME TypeOK, NEW s \in Scans, NEW e \in Entries, e \in current[s]
    PROVE  current[s] = {e} /\ scan[s] \notin {"idle", "picking", "deferring"}
BY DEF TypeOK

\* After a failed replay the scan holds a copy of the file, or lets the entry go.
LEMMA ReadForFailure ==
    ASSUME TypeOK, NEW s \in Scans, NEW e \in Entries, e \in current[s],
           ScanReadsForFailure(s, e)
    PROVE  /\ \A r \in Scans \ {s} : /\ scan'[r] = scan[r] /\ current'[r] = current[r]
                                     /\ scanCopy'[r] = scanCopy[r]
           /\ scanCopy' \in [Scans -> [Entries -> Files]]
           /\ \/ /\ Exists(e)
                 /\ scan' = [scan EXCEPT ![s] = "failing"] /\ scan'[s] = "failing"
                 /\ scanCopy'[s][e] = json[e]
                 /\ UNCHANGED <<claims, current>>
              \/ /\ scan' = [scan EXCEPT ![s] = "picking"]
                 /\ current' = [current EXCEPT ![s] = {}] /\ current'[s] = {}
                 /\ claims' = claims \ {e}
                 /\ UNCHANGED scanCopy
<1>1. CASE Exists(e)
  <2>1. /\ scan' = [scan EXCEPT ![s] = "failing"]
        /\ scanCopy' = [scanCopy EXCEPT ![s][e] = json[e]]
        /\ UNCHANGED <<claims, current>>
    BY <1>1 DEF ScanReadsForFailure
  <2> QED
    BY <1>1, <2>1 DEF TypeOK
<1>2. CASE ~Exists(e)
  <2>1. current[s] = {e}
    BY CurrentOnly
  <2> QED
    BY <1>2, <2>1 DEF ScanReadsForFailure, Release, TypeOK
<1> QED
  BY <1>1, <1>2


-----------------------------------------------------------------------------
(* Every action preserves the invariant, part by part. *)

\* A scan takes an entry when it goes to work and lets it go when it is done.
LEMMA TypePreserved ==
    ASSUME IInv, [Next]_vars
    PROVE  TypeOK'
<1> USE DeliveryQueueAssumption DEF IInv, TypeOK, fileVars, liveVars, scanVars, options, history,
        LiveSteps, ScanSteps
<1>1. ASSUME NEW e \in Entries, EnqueueDelivery(e)
      PROVE  TypeOK'
  BY <1>1 DEF EnqueueDelivery, LiveStep, Write, Files, Marks, NewFile, NoFile
<1>2. ASSUME NEW e \in Entries, LiveClaims(e)
      PROVE  TypeOK'
  BY <1>2 DEF LiveClaims, LiveStep, Claimable
<1>3. ASSUME NEW e \in Entries, LiveReadsForMark(e)
      PROVE  TypeOK'
  BY <1>3 DEF LiveReadsForMark, LiveStep
<1>4. ASSUME NEW e \in Entries, LiveMarksStarted(e)
      PROVE  TypeOK'
  <2>1. json' = [json EXCEPT ![e] = StartMark(liveCopy[e])]
    BY <1>4 DEF LiveMarksStarted, Write
  <2>2. liveCopy[e] \in Files
    OBVIOUS
  <2>3. StartMark(liveCopy[e]) \in Files
    BY <2>2 DEF StartMark, Files, Marks
  <2>4. json' \in [Entries -> Files]
    BY <2>1, <2>3
  <2>5. live' \in [Entries -> LiveSteps]
    BY <1>4 DEF LiveMarksStarted, LiveStep
  <2> QED
    BY <1>4, <2>4, <2>5 DEF LiveMarksStarted
<1>5. ASSUME NEW e \in Entries, LiveMarkFails(e)
      PROVE  TypeOK'
  <2>1. NoFile \in Files
    BY DEF Files, Marks, NoFile
  <2>2. CASE e \in required
    BY <1>5, <2>2 DEF LiveMarkFails, LiveReadsForFailure
  <2>3. CASE e \notin required
    <3>1. /\ live' = [live EXCEPT ![e] = "sending"]
          /\ liveCopy' = [liveCopy EXCEPT ![e] = NoFile] /\ UNCHANGED claims
      BY <1>5, <2>3 DEF LiveMarkFails, LiveStep
    <3>2. live' \in [Entries -> LiveSteps] /\ liveCopy' \in [Entries -> Files]
      BY <2>1, <3>1
    <3> QED
      BY <1>5, <3>1, <3>2 DEF LiveMarkFails
  <2> QED
    BY <2>2, <2>3
<1>6. ASSUME NEW e \in Entries, LiveSendSucceeds(e)
      PROVE  TypeOK'
  <2>1. /\ live' \in [Entries -> LiveSteps] /\ claims' \subseteq Entries
        /\ liveCopy' \in [Entries -> Files]
    BY <1>6 DEF LiveSendSucceeds, LiveStep
  <2>2. sends' \in [Entries -> 0..MaxSends]
    BY <1>6, AcceptedOnce DEF LiveSendSucceeds, LiveAccepted
  <2>3. sentMarked' \subseteq Entries
    BY <1>6 DEF LiveSendSucceeds, LiveAccepted
  <2> QED
    BY <1>6, <2>1, <2>2, <2>3 DEF LiveSendSucceeds
<1>7. ASSUME NEW e \in Entries, LiveMarksUnknown(e)
      PROVE  TypeOK'
  <2>1. json' = [json EXCEPT ![e] = [liveCopy[e] EXCEPT !.mark = "unknown"]]
    BY <1>7 DEF LiveMarksUnknown, Write
  <2>2. liveCopy[e] \in Files
    OBVIOUS
  <2>3. [liveCopy[e] EXCEPT !.mark = "unknown"] \in Files
    BY <2>2 DEF Files, Marks
  <2>4. json' \in [Entries -> Files]
    BY <2>1, <2>3
  <2>5. live' \in [Entries -> LiveSteps]
    BY <1>7 DEF LiveMarksUnknown, LiveStep
  <2>6. liveCopy' \in [Entries -> Files]
    BY <1>7 DEF LiveMarksUnknown, Files, Marks, NoFile
  <2> QED
    BY <1>7, <2>4, <2>5, <2>6 DEF LiveMarksUnknown
<1>8. ASSUME NEW e \in Entries, LiveUnknownMarkFails(e)
      PROVE  TypeOK'
  BY <1>8 DEF LiveUnknownMarkFails, LiveStep
<1>9. ASSUME NEW e \in Entries, LiveSendFails(e)
      PROVE  TypeOK'
  <2>1. /\ live' \in [Entries -> LiveSteps] /\ claims' \subseteq Entries
        /\ liveCopy' \in [Entries -> Files]
    BY <1>9 DEF LiveSendFails, LiveReadsForFailure
  <2>2. sends' \in [Entries -> 0..MaxSends] /\ sentMarked' \subseteq Entries
    <3>1. CASE UNCHANGED <<sends, sentMarked>>
      BY <3>1
    <3>2. CASE LiveAccepted(e)
      BY <3>2, AcceptedOnce DEF LiveAccepted
    <3> QED
      BY <1>9, <3>1, <3>2 DEF LiveSendFails
  <2> QED
    BY <1>9, <2>1, <2>2 DEF LiveSendFails
<1>10. ASSUME NEW e \in Entries, LiveRecordsFailure(e)
       PROVE  TypeOK'
  <2>1. Retried(liveCopy[e]) \in Files
    BY RetriedFile
  <2>2. json' \in [Entries -> Files]
    BY <1>10, <2>1 DEF LiveRecordsFailure, Write
  <2>3. liveCopy' \in [Entries -> Files]
    BY <1>10 DEF LiveRecordsFailure, Files, Marks, NoFile
  <2> QED
    BY <1>10, <2>2, <2>3 DEF LiveRecordsFailure, LiveStep
<1>11. ASSUME NEW e \in Entries, LiveSendCancelled(e)
       PROVE  TypeOK'
  <2>1. sends' \in [Entries -> 0..MaxSends] /\ sentMarked' \subseteq Entries
    <3>1. CASE UNCHANGED <<sends, sentMarked>>
      BY <3>1
    <3>2. CASE LiveAccepted(e)
      BY <3>2, AcceptedOnce DEF LiveAccepted
    <3> QED
      BY <1>11, <3>1, <3>2 DEF LiveSendCancelled
  <2>2. /\ live' \in [Entries -> LiveSteps] /\ liveCopy' \in [Entries -> Files]
        /\ cancelled' \in [Entries -> BOOLEAN]
    BY <1>11 DEF LiveSendCancelled, Files, Marks, NoFile
  <2> QED
    BY <1>11, <2>1, <2>2 DEF LiveSendCancelled
<1>12. ASSUME NEW e \in Entries, LiveAcks(e)
       PROVE  TypeOK'
  BY <1>12 DEF LiveAcks, LiveStep, Write, RenameToDelivered, Files, Marks, NewFile, NoFile
<1>13. ASSUME NEW e \in Entries, LiveAckFails(e)
       PROVE  TypeOK'
  BY <1>13 DEF LiveAckFails, LiveStep
<1>14. ASSUME NEW e \in Entries, LiveUnlinks(e)
       PROVE  TypeOK'
  BY <1>14 DEF LiveUnlinks, LiveStep
<1>15. ASSUME NEW s \in Scans, ScanLoads(s)
       PROVE  TypeOK'
  BY <1>15 DEF ScanLoads, ScanStep
<1>16. ASSUME NEW s \in Scans, ScanEnds(s)
       PROVE  TypeOK'
  BY <1>16 DEF ScanEnds, ScanStep
<1>17. ASSUME NEW s \in Scans, BudgetExceeded(s)
       PROVE  TypeOK'
  BY <1>17 DEF BudgetExceeded, ScanStep, Files, Marks, NewFile, NoFile
<1>18. ASSUME NEW s \in Scans, NEW e \in Entries, ScanPicks(s, e)
       PROVE  TypeOK'
  <2>1. /\ todo' \in [Scans -> SUBSET Entries] /\ claims' \subseteq Entries
        /\ scan' \in [Scans -> ScanSteps] /\ current' \in [Scans -> SUBSET Entries]
    <3>1. /\ todo' \in [Scans -> SUBSET Entries] /\ claims' \subseteq Entries
          /\ current' \in [Scans -> SUBSET Entries]
      <4>1. CASE Claimable(e)
        BY <1>18, <4>1 DEF ScanPicks
      <4>2. CASE ~Claimable(e)
        BY <1>18, <4>2 DEF ScanPicks
      <4> QED
        BY <4>1, <4>2
    <3>2. scan' \in [Scans -> ScanSteps]
      BY <1>18 DEF ScanPicks, ScanStep
    <3> QED
      BY <3>1, <3>2
  <2>2. ASSUME NEW r \in Scans
        PROVE  IF scan'[r] \in {"idle", "picking", "deferring"} THEN current'[r] = {}
               ELSE \E o \in Entries : current'[r] = {o}
    <3>1. CASE r = s
      BY <1>18, <3>1 DEF ScanPicks, ScanStep
    <3>2. CASE r # s
      BY <1>18, <3>2 DEF ScanPicks, ScanStep
    <3> QED
      BY <3>1, <3>2
  <2> QED
    BY <1>18, <2>1, <2>2 DEF ScanPicks
<1>19. ASSUME NEW s \in Scans, NEW e \in Entries, ScanSkips(s, e)
       PROVE  TypeOK'
  BY <1>19 DEF ScanSkips, Release
<1>20. ASSUME NEW s \in Scans, NEW e \in Entries, ScanGivesUp(s, e)
       PROVE  TypeOK'
  BY <1>20 DEF ScanGivesUp, Write, Release, MoveToFailed, Files, Marks, NewFile, NoFile
<1>21. ASSUME NEW s \in Scans, NEW e \in Entries, ScanLoadsEntry(s, e)
       PROVE  TypeOK'
  BY <1>21 DEF ScanLoadsEntry, ScanStep
<1>22. ASSUME NEW s \in Scans, NEW e \in Entries, ReconciledSent(s, e)
       PROVE  TypeOK'
  BY <1>22 DEF ReconciledSent, ScanStep
<1>23. ASSUME NEW s \in Scans, NEW e \in Entries, ReconciledNotSent(s, e)
       PROVE  TypeOK'
  BY <1>23 DEF ReconciledNotSent, ScanStep
<1>24. ASSUME NEW s \in Scans, NEW e \in Entries, ReconcileRefused(s, e)
       PROVE  TypeOK'
  BY <1>24 DEF ReconcileRefused, Write, Release, MoveToFailed, Files, Marks, NewFile, NoFile
<1>25. ASSUME NEW s \in Scans, NEW e \in Entries, ReconcileUnresolved(s, e)
       PROVE  TypeOK'
  <2>1. /\ e \in current[s] /\ ScanReadsForFailure(s, e)
        /\ UNCHANGED <<fileVars, liveVars, todo, crashes, options, history>>
    BY <1>25 DEF ReconcileUnresolved
  <2>2. sends' \in [Entries -> 0..MaxSends]
    BY <1>25 DEF ReconcileUnresolved
  <2>3. \/ /\ scan' = [scan EXCEPT ![s] = "failing"] /\ UNCHANGED <<claims, current>>
        \/ /\ scan' = [scan EXCEPT ![s] = "picking"]
           /\ current' = [current EXCEPT ![s] = {}] /\ claims' = claims \ {e}
    BY <2>1, ReadForFailure
  <2>4. scanCopy' \in [Scans -> [Entries -> Files]]
    BY <2>1, ReadForFailure
  <2>5. current[s] = {e}
    BY <2>1, CurrentOnly
  <2>6. \A r \in Scans :
           IF scan'[r] \in {"idle", "picking", "deferring"} THEN current'[r] = {}
           ELSE \E o \in Entries : current'[r] = {o}
    <3> SUFFICES ASSUME NEW r \in Scans
                 PROVE  IF scan'[r] \in {"idle", "picking",
                      "deferring"} THEN current'[r] = {}
                        ELSE \E o \in Entries : current'[r] = {o}
      OBVIOUS
    <3>1. CASE r = s
      BY <2>3, <2>5, <3>1
    <3>2. CASE r # s
      BY <2>3, <3>2
    <3> QED
      BY <3>1, <3>2
  <2> QED
    BY <2>1, <2>2, <2>3, <2>4, <2>6
<1>26. ASSUME NEW s \in Scans, NEW e \in Entries, ReplaySucceeds(s, e)
       PROVE  TypeOK'
  BY <1>26 DEF ReplaySucceeds, ScanStep, Accepted
<1>27. ASSUME NEW s \in Scans, NEW e \in Entries, ReplaySuppressed(s, e)
       PROVE  TypeOK'
  BY <1>27 DEF ReplaySuppressed, ScanStep
<1>28. ASSUME NEW s \in Scans, NEW e \in Entries, ReplaySwallowed(s, e)
       PROVE  TypeOK'
  <2>1. sends' \in [Entries -> 0..MaxSends]
    BY <1>28, AcceptedOnce DEF ReplaySwallowed
  <2> QED
    BY <1>28, <2>1 DEF ReplaySwallowed, ScanStep
<1>29. ASSUME NEW s \in Scans, NEW e \in Entries, ReplayFails(s, e)
       PROVE  TypeOK'
  <2>1. /\ e \in current[s] /\ ScanReadsForFailure(s, e)
        /\ UNCHANGED <<fileVars, liveVars, todo, crashes, options, history>>
    BY <1>29 DEF ReplayFails
  <2>2. sends' \in [Entries -> 0..MaxSends]
    BY <1>29, AcceptedOnce DEF ReplayFails
  <2>3. \/ /\ scan' = [scan EXCEPT ![s] = "failing"] /\ UNCHANGED <<claims, current>>
        \/ /\ scan' = [scan EXCEPT ![s] = "picking"]
           /\ current' = [current EXCEPT ![s] = {}] /\ claims' = claims \ {e}
    BY <2>1, ReadForFailure
  <2>4. scanCopy' \in [Scans -> [Entries -> Files]]
    BY <2>1, ReadForFailure
  <2>5. current[s] = {e}
    BY <2>1, CurrentOnly
  <2>6. \A r \in Scans :
           IF scan'[r] \in {"idle", "picking", "deferring"} THEN current'[r] = {}
           ELSE \E o \in Entries : current'[r] = {o}
    <3> SUFFICES ASSUME NEW r \in Scans
                 PROVE  IF scan'[r] \in {"idle", "picking",
                      "deferring"} THEN current'[r] = {}
                        ELSE \E o \in Entries : current'[r] = {o}
      OBVIOUS
    <3>1. CASE r = s
      BY <2>3, <2>5, <3>1
    <3>2. CASE r # s
      BY <2>3, <3>2
    <3> QED
      BY <3>1, <3>2
  <2> QED
    BY <2>1, <2>2, <2>3, <2>4, <2>6
<1>30. ASSUME NEW s \in Scans, NEW e \in Entries, ReplayRejected(s, e)
       PROVE  TypeOK'
  <2>1. sends' \in [Entries -> 0..MaxSends]
    BY <1>30, AcceptedOnce DEF ReplayRejected
  <2>2. json' \in [Entries -> Files] /\ failed' \in [Entries -> BOOLEAN]
    BY <1>30 DEF ReplayRejected, Write, MoveToFailed, Files, Marks, NoFile
  <2> QED
    BY <1>30, <2>1, <2>2 DEF ReplayRejected, Release
<1>31. ASSUME NEW s \in Scans, NEW e \in Entries, ScanMoveFails(s, e)
       PROVE  TypeOK'
  <2>1. sends' \in [Entries -> 0..MaxSends]
    BY <1>31, AcceptedOnce DEF ScanMoveFails
  <2>2. todo' \in [Scans -> SUBSET Entries]
    BY <1>31 DEF ScanMoveFails
  <2> QED
    BY <1>31, <2>1, <2>2 DEF ScanMoveFails, Release
<1>32. ASSUME NEW s \in Scans, NEW e \in Entries, ScanRecordsFailure(s, e)
       PROVE  TypeOK'
  <2>1. Retried(scanCopy[s][e]) \in Files /\ NoFile \in Files
    BY RetriedFile DEF Files, Marks, NoFile
  <2>2. json' \in [Entries -> Files] /\ scanCopy' \in [Scans -> [Entries -> Files]]
    BY <1>32, <2>1 DEF ScanRecordsFailure, Write
  <2> QED
    BY <1>32, <2>2 DEF ScanRecordsFailure, Release
<1>33. ASSUME NEW s \in Scans, NEW e \in Entries, ScanAcks(s, e)
       PROVE  TypeOK'
  BY <1>33 DEF ScanAcks, Write, ScanStep, RenameToDelivered, Files, Marks, NewFile, NoFile
<1>34. ASSUME NEW s \in Scans, NEW e \in Entries, ScanAckFails(s, e)
       PROVE  TypeOK'
  <2>1. /\ e \in current[s] /\ ScanReadsForFailure(s, e)
        /\ UNCHANGED <<fileVars, liveVars, todo, crashes, options, history>>
    BY <1>34 DEF ScanAckFails
  <2>2. sends' \in [Entries -> 0..MaxSends]
    BY <1>34 DEF ScanAckFails
  <2>3. \/ /\ scan' = [scan EXCEPT ![s] = "failing"] /\ UNCHANGED <<claims, current>>
        \/ /\ scan' = [scan EXCEPT ![s] = "picking"]
           /\ current' = [current EXCEPT ![s] = {}] /\ claims' = claims \ {e}
    BY <2>1, ReadForFailure
  <2>4. scanCopy' \in [Scans -> [Entries -> Files]]
    BY <2>1, ReadForFailure
  <2>5. current[s] = {e}
    BY <2>1, CurrentOnly
  <2>6. \A r \in Scans :
           IF scan'[r] \in {"idle", "picking", "deferring"} THEN current'[r] = {}
           ELSE \E o \in Entries : current'[r] = {o}
    <3> SUFFICES ASSUME NEW r \in Scans
                 PROVE  IF scan'[r] \in {"idle", "picking",
                      "deferring"} THEN current'[r] = {}
                        ELSE \E o \in Entries : current'[r] = {o}
      OBVIOUS
    <3>1. CASE r = s
      BY <2>3, <2>5, <3>1
    <3>2. CASE r # s
      BY <2>3, <3>2
    <3> QED
      BY <3>1, <3>2
  <2> QED
    BY <2>1, <2>2, <2>3, <2>4, <2>6
<1>35. ASSUME NEW s \in Scans, NEW e \in Entries, ScanUnlinks(s, e)
       PROVE  TypeOK'
  BY <1>35 DEF ScanUnlinks, Release
<1>36. ASSUME NEW s \in Scans, NEW e \in Entries, DefersEntry(s, e)
       PROVE  TypeOK'
  <2>1. Retried(scanCopy[s][e]) \in Files /\ NoFile \in Files
    BY RetriedFile DEF Files, Marks, NoFile
  <2>2. json' \in [Entries -> Files] /\ scanCopy' \in [Scans -> [Entries -> Files]]
    BY SMTT(30), <1>36, <2>1 DEF DefersEntry, Write
  <2>3. /\ scan[s] = "deferring" /\ scan' \in [Scans -> ScanSteps]
        /\ scan'[s] \in {"idle", "deferring"} /\ \A r \in Scans \ {s} : scan'[r] = scan[r]
        /\ todo' \in [Scans -> SUBSET Entries]
    BY <1>36 DEF DefersEntry
  <2>4. clobbered' \subseteq Entries
    BY <1>36 DEF DefersEntry
  <2> QED
    BY <1>36, <2>2, <2>3, <2>4 DEF DefersEntry
<1>37. CASE Crash
  BY <1>37 DEF Crash, Files, Marks, NewFile, NoFile
<1>38. CASE UNCHANGED vars
  BY <1>38 DEF vars
<1> QED
  BY <1>1, <1>2, <1>3, <1>4, <1>5, <1>6, <1>7, <1>8, <1>9, <1>10,
     <1>11, <1>12, <1>13, <1>14, <1>15, <1>16, <1>17, <1>18, <1>19, <1>20,
     <1>21, <1>22, <1>23, <1>24, <1>25, <1>26, <1>27, <1>28, <1>29, <1>30,
     <1>31, <1>32, <1>33, <1>34, <1>35, <1>36, <1>37, <1>38
     DEF Next, LiveNext, ScanNext

\* What is claimed is owned until it is released.
LEMMA OwnerPreserved ==
    ASSUME IInv, [Next]_vars
    PROVE  OneOwner'
<1> USE DEF IInv, TypeOK, OneOwner, LiveOwns, fileVars, liveVars, scanVars, LiveSteps,
        ScanSteps
<1>1. ASSUME NEW e \in Entries, EnqueueDelivery(e)
      PROVE  OneOwner'
  BY <1>1 DEF EnqueueDelivery, LiveStep, Write
<1>2. ASSUME NEW e \in Entries, LiveClaims(e)
      PROVE  OneOwner'
  BY <1>2 DEF LiveClaims, LiveStep, Claimable
<1>3. ASSUME NEW e \in Entries, LiveReadsForMark(e)
      PROVE  OneOwner'
  BY <1>3 DEF LiveReadsForMark, LiveStep
<1>4. ASSUME NEW e \in Entries, LiveMarksStarted(e)
      PROVE  OneOwner'
  BY <1>4 DEF LiveMarksStarted, LiveStep, Write, StartMark
<1>5. ASSUME NEW e \in Entries, LiveMarkFails(e)
      PROVE  OneOwner'
  <2>1. /\ live[e] = "marking" /\ UNCHANGED <<scan, current>>
        /\ \A o \in Entries \ {e} : live'[o] = live[o]
        /\ \/ live'[e] \in {"failing", "sending"} /\ UNCHANGED claims
           \/ live'[e] = "done" /\ claims' = claims \ {e}
    BY <1>5 DEF LiveMarkFails, LiveReadsForFailure, LiveStep
  <2> QED
    BY <2>1
<1>6. ASSUME NEW e \in Entries, LiveSendSucceeds(e)
      PROVE  OneOwner'
  <2>1. /\ live[e] = "sending" /\ UNCHANGED <<scan, current>>
        /\ \A o \in Entries \ {e} : live'[o] = live[o]
    BY <1>6 DEF LiveSendSucceeds, LiveStep
  <2>2. \/ live'[e] \in {"acking", "confirming"} /\ UNCHANGED claims
        \/ live'[e] = "done" /\ claims' = claims \ {e}
    BY <1>6 DEF LiveSendSucceeds, LiveStep
  <2> QED
    BY <2>1, <2>2
<1>7. ASSUME NEW e \in Entries, LiveMarksUnknown(e)
      PROVE  OneOwner'
  BY <1>7 DEF LiveMarksUnknown, LiveStep, Write
<1>8. ASSUME NEW e \in Entries, LiveUnknownMarkFails(e)
      PROVE  OneOwner'
  BY <1>8 DEF LiveUnknownMarkFails, LiveStep
<1>9. ASSUME NEW e \in Entries, LiveSendFails(e)
      PROVE  OneOwner'
  <2>1. /\ live[e] \in {"claimed", "sending"} /\ UNCHANGED <<scan, current>>
        /\ \A o \in Entries \ {e} : live'[o] = live[o]
        /\ \/ live'[e] = "failing" /\ UNCHANGED claims
           \/ live'[e] = "done" /\ claims' = claims \ {e}
    BY <1>9 DEF LiveSendFails, LiveReadsForFailure
  <2> QED
    BY <2>1
<1>10. ASSUME NEW e \in Entries, LiveRecordsFailure(e)
       PROVE  OneOwner'
  BY <1>10 DEF LiveRecordsFailure, LiveStep, Write, Retried
<1>11. ASSUME NEW e \in Entries, LiveSendCancelled(e)
       PROVE  OneOwner'
  <2>1. /\ live[e] \in {"claimed", "sending"} /\ UNCHANGED <<scan, current, claims>>
        /\ live' = [live EXCEPT ![e] = "acking"]
    BY <1>11 DEF LiveSendCancelled
  <2> QED
    BY <2>1
<1>12. ASSUME NEW e \in Entries, LiveAcks(e)
       PROVE  OneOwner'
  BY <1>12 DEF LiveAcks, LiveStep, Write, RenameToDelivered
<1>13. ASSUME NEW e \in Entries, LiveAckFails(e)
       PROVE  OneOwner'
  BY <1>13 DEF LiveAckFails, LiveStep
<1>14. ASSUME NEW e \in Entries, LiveUnlinks(e)
       PROVE  OneOwner'
  BY <1>14 DEF LiveUnlinks, LiveStep
<1>15. ASSUME NEW s \in Scans, ScanLoads(s)
       PROVE  OneOwner'
  BY <1>15 DEF ScanLoads, ScanStep
<1>16. ASSUME NEW s \in Scans, ScanEnds(s)
       PROVE  OneOwner'
  BY <1>16 DEF ScanEnds, ScanStep
<1>17. ASSUME NEW s \in Scans, BudgetExceeded(s)
       PROVE  OneOwner'
  BY <1>17 DEF BudgetExceeded, ScanStep
<1>18. ASSUME NEW s \in Scans, NEW e \in Entries, ScanPicks(s, e)
       PROVE  OneOwner'
  <2>1. CASE Claimable(e)
    <3>1. /\ e \notin claims /\ claims' = claims \cup {e}
          /\ current'[s] = {e} /\ \A r \in Scans \ {s} : current'[r] = current[r]
          /\ UNCHANGED live
      BY <1>18, <2>1 DEF ScanPicks, Claimable
    <3>2. current[s] = {}
      BY <1>18, <2>1 DEF ScanPicks, ScanStep
    <3>3. \A o \in Entries \ {e} :
             (\E r \in Scans : o \in current'[r]) <=> (\E r \in Scans : o \in current[r])
      BY <3>1, <3>2
    <3>4. e \in current'[s] /\ \A r \in Scans \ {s} : e \notin current'[r]
      BY <3>1
    <3>5. \A o \in Entries : \A r, q \in Scans : o \in current'[r] \cap current'[q] => r = q
      BY <3>1, <3>2, <3>4
    <3>6. \A o \in Entries : LiveOwns(o)' => \A r \in Scans : o \notin current'[r]
      BY <3>1, <3>3
    <3>7. \A o \in Entries : o \in claims' <=> LiveOwns(o)' \/ \E r \in Scans : o \in current'[r]
      BY <3>1, <3>3, <3>4
    <3> QED
      BY <3>5, <3>6, <3>7
  <2>2. CASE ~Claimable(e)
    BY <1>18, <2>2 DEF ScanPicks
  <2> QED
    BY <2>1, <2>2
<1>19. ASSUME NEW s \in Scans, NEW e \in Entries, ScanSkips(s, e)
       PROVE  OneOwner'
  BY <1>19 DEF ScanSkips, Release
<1>20. ASSUME NEW s \in Scans, NEW e \in Entries, ScanGivesUp(s, e)
       PROVE  OneOwner'
  BY <1>20 DEF ScanGivesUp, Write, Release, MoveToFailed
<1>21. ASSUME NEW s \in Scans, NEW e \in Entries, ScanLoadsEntry(s, e)
       PROVE  OneOwner'
  BY <1>21 DEF ScanLoadsEntry, ScanStep
<1>22. ASSUME NEW s \in Scans, NEW e \in Entries, ReconciledSent(s, e)
       PROVE  OneOwner'
  BY <1>22 DEF ReconciledSent, ScanStep
<1>23. ASSUME NEW s \in Scans, NEW e \in Entries, ReconciledNotSent(s, e)
       PROVE  OneOwner'
  BY <1>23 DEF ReconciledNotSent, ScanStep
<1>24. ASSUME NEW s \in Scans, NEW e \in Entries, ReconcileRefused(s, e)
       PROVE  OneOwner'
  BY <1>24 DEF ReconcileRefused, Write, Release, MoveToFailed
<1>25. ASSUME NEW s \in Scans, NEW e \in Entries, ReconcileUnresolved(s, e)
       PROVE  OneOwner'
  <2>1. /\ e \in current[s] /\ ScanReadsForFailure(s, e) /\ UNCHANGED live
    BY <1>25 DEF ReconcileUnresolved
  <2>2. current[s] = {e}
    BY <2>1, CurrentOnly
  <2>3. \/ UNCHANGED <<claims, current>>
        \/ current' = [current EXCEPT ![s] = {}] /\ claims' = claims \ {e}
    BY <2>1, ReadForFailure
  <2>4. CASE UNCHANGED <<claims, current>>
    BY <2>1, <2>4
  <2>5. CASE current' = [current EXCEPT ![s] = {}] /\ claims' = claims \ {e}
    <3>1. /\ current'[s] = {} /\ \A r \in Scans \ {s} : current'[r] = current[r]
          /\ \A o \in Entries \ {e} : o \notin current[s]
      BY <2>2, <2>5
    <3>2. \A o \in Entries \ {e} :
             (\E r \in Scans : o \in current'[r]) <=> (\E r \in Scans : o \in current[r])
      BY <3>1
    <3>3. \A r \in Scans : e \notin current'[r]
      BY <2>1, <3>1
    <3> QED
      BY <2>1, <2>5, <3>1, <3>2, <3>3
  <2> QED
    BY <2>3, <2>4, <2>5
<1>26. ASSUME NEW s \in Scans, NEW e \in Entries, ReplaySucceeds(s, e)
       PROVE  OneOwner'
  BY <1>26 DEF ReplaySucceeds, ScanStep, Accepted
<1>27. ASSUME NEW s \in Scans, NEW e \in Entries, ReplaySuppressed(s, e)
       PROVE  OneOwner'
  BY <1>27 DEF ReplaySuppressed, ScanStep
<1>28. ASSUME NEW s \in Scans, NEW e \in Entries, ReplaySwallowed(s, e)
       PROVE  OneOwner'
  BY <1>28 DEF ReplaySwallowed, ScanStep, Accepted
<1>29. ASSUME NEW s \in Scans, NEW e \in Entries, ReplayFails(s, e)
       PROVE  OneOwner'
  <2>1. /\ e \in current[s] /\ ScanReadsForFailure(s, e) /\ UNCHANGED live
    BY <1>29 DEF ReplayFails
  <2>2. current[s] = {e}
    BY <2>1, CurrentOnly
  <2>3. \/ UNCHANGED <<claims, current>>
        \/ current' = [current EXCEPT ![s] = {}] /\ claims' = claims \ {e}
    BY <2>1, ReadForFailure
  <2>4. CASE UNCHANGED <<claims, current>>
    BY <2>1, <2>4
  <2>5. CASE current' = [current EXCEPT ![s] = {}] /\ claims' = claims \ {e}
    <3>1. /\ current'[s] = {} /\ \A r \in Scans \ {s} : current'[r] = current[r]
          /\ \A o \in Entries \ {e} : o \notin current[s]
      BY <2>2, <2>5
    <3>2. \A o \in Entries \ {e} :
             (\E r \in Scans : o \in current'[r]) <=> (\E r \in Scans : o \in current[r])
      BY <3>1
    <3>3. \A r \in Scans : e \notin current'[r]
      BY <2>1, <3>1
    <3> QED
      BY <2>1, <2>5, <3>1, <3>2, <3>3
  <2> QED
    BY <2>3, <2>4, <2>5
<1>30. ASSUME NEW s \in Scans, NEW e \in Entries, ReplayRejected(s, e)
       PROVE  OneOwner'
  <2>1. e \in current[s] /\ Release(s) /\ UNCHANGED live
    BY <1>30 DEF ReplayRejected
  <2> QED
    BY <2>1 DEF Release
<1>31. ASSUME NEW s \in Scans, NEW e \in Entries, ScanMoveFails(s, e)
       PROVE  OneOwner'
  <2>1. e \in current[s] /\ Release(s) /\ UNCHANGED live
    BY <1>31 DEF ScanMoveFails
  <2> QED
    BY <2>1 DEF Release
<1>32. ASSUME NEW s \in Scans, NEW e \in Entries, ScanRecordsFailure(s, e)
       PROVE  OneOwner'
  BY <1>32 DEF ScanRecordsFailure, Write, Release, Retried
<1>33. ASSUME NEW s \in Scans, NEW e \in Entries, ScanAcks(s, e)
       PROVE  OneOwner'
  BY <1>33 DEF ScanAcks, Write, ScanStep, RenameToDelivered
<1>34. ASSUME NEW s \in Scans, NEW e \in Entries, ScanAckFails(s, e)
       PROVE  OneOwner'
  <2>1. /\ e \in current[s] /\ ScanReadsForFailure(s, e) /\ UNCHANGED live
    BY <1>34 DEF ScanAckFails
  <2>2. current[s] = {e}
    BY <2>1, CurrentOnly
  <2>3. \/ UNCHANGED <<claims, current>>
        \/ current' = [current EXCEPT ![s] = {}] /\ claims' = claims \ {e}
    BY <2>1, ReadForFailure
  <2>4. CASE UNCHANGED <<claims, current>>
    BY <2>1, <2>4
  <2>5. CASE current' = [current EXCEPT ![s] = {}] /\ claims' = claims \ {e}
    <3>1. /\ current'[s] = {} /\ \A r \in Scans \ {s} : current'[r] = current[r]
          /\ \A o \in Entries \ {e} : o \notin current[s]
      BY <2>2, <2>5
    <3>2. \A o \in Entries \ {e} :
             (\E r \in Scans : o \in current'[r]) <=> (\E r \in Scans : o \in current[r])
      BY <3>1
    <3>3. \A r \in Scans : e \notin current'[r]
      BY <2>1, <3>1
    <3> QED
      BY <2>1, <2>5, <3>1, <3>2, <3>3
  <2> QED
    BY <2>3, <2>4, <2>5
<1>35. ASSUME NEW s \in Scans, NEW e \in Entries, ScanUnlinks(s, e)
       PROVE  OneOwner'
  BY <1>35 DEF ScanUnlinks, Release
<1>36. ASSUME NEW s \in Scans, NEW e \in Entries, DefersEntry(s, e)
       PROVE  OneOwner'
  BY <1>36 DEF DefersEntry, Write, Retried
<1>37. CASE Crash
  BY <1>37 DEF Crash
<1>38. CASE UNCHANGED vars
  BY <1>38 DEF vars
<1> QED
  BY <1>1, <1>2, <1>3, <1>4, <1>5, <1>6, <1>7, <1>8, <1>9, <1>10,
     <1>11, <1>12, <1>13, <1>14, <1>15, <1>16, <1>17, <1>18, <1>19, <1>20,
     <1>21, <1>22, <1>23, <1>24, <1>25, <1>26, <1>27, <1>28, <1>29, <1>30,
     <1>31, <1>32, <1>33, <1>34, <1>35, <1>36, <1>37, <1>38
     DEF Next, LiveNext, ScanNext

\* Whoever removes a file knows that the entry was sent, cancelled or swallowed, or keeps
\* a copy in failed/.
LEMMA LossPreserved ==
    ASSUME IInv, [Next]_vars
    PROVE  LossInv'
<1> USE DEF IInv, TypeOK, LossInv, NoSilentLoss, Exists, fileVars, liveVars, scanVars,
        history, LiveSteps, ScanSteps
<1>1. ASSUME NEW e \in Entries, EnqueueDelivery(e)
      PROVE  LossInv'
  BY <1>1 DEF EnqueueDelivery, LiveStep, Write, Files, Marks, NewFile, NoFile
<1>2. ASSUME NEW e \in Entries, LiveClaims(e)
      PROVE  LossInv'
  BY <1>2 DEF LiveClaims, LiveStep, Claimable
<1>3. ASSUME NEW e \in Entries, LiveReadsForMark(e)
      PROVE  LossInv'
  BY <1>3 DEF LiveReadsForMark, LiveStep
<1>4. ASSUME NEW e \in Entries, LiveMarksStarted(e)
      PROVE  LossInv'
  BY <1>4 DEF LiveMarksStarted, LiveStep, Write, StartMark, Files, Marks, NewFile, NoFile
<1>5. ASSUME NEW e \in Entries, LiveMarkFails(e)
      PROVE  LossInv'
  <2>1. /\ live[e] = "marking" /\ UNCHANGED <<fileVars, cancelled, scanVars, sends, swallowed>>
        /\ \A o \in Entries \ {e} : live'[o] = live[o] /\ liveCopy'[o] = liveCopy[o]
        /\ live'[e] \in {"failing", "sending", "done"}
        /\ live'[e] = "failing" => liveCopy'[e].mark # "absent"
    BY <1>5 DEF LiveMarkFails, LiveReadsForFailure, LiveStep
  <2> QED
    BY <2>1
<1>6. ASSUME NEW e \in Entries, LiveSendSucceeds(e)
      PROVE  LossInv'
  BY <1>6 DEF LiveSendSucceeds, LiveStep, LiveAccepted, Accepted
<1>7. ASSUME NEW e \in Entries, LiveMarksUnknown(e)
      PROVE  LossInv'
  BY <1>7 DEF LiveMarksUnknown, LiveStep, Write, Files, Marks, NewFile, NoFile
<1>8. ASSUME NEW e \in Entries, LiveUnknownMarkFails(e)
      PROVE  LossInv'
  BY <1>8 DEF LiveUnknownMarkFails, LiveStep
<1>9. ASSUME NEW e \in Entries, LiveSendFails(e)
      PROVE  LossInv'
  <2>1. /\ \A o \in Entries : sends'[o] >= sends[o] /\ sends[o] >= 0 /\ sends'[o] \in Nat
        /\ UNCHANGED <<fileVars, cancelled, scanVars, swallowed>>
    BY <1>9, SendsGrow DEF LiveSendFails, LiveAccepted
  <2>2. /\ live[e] \in {"claimed", "sending"} /\ liveCopy' = [liveCopy EXCEPT ![e] = json[e]]
        /\ \/ Exists(e) /\ live' = [live EXCEPT ![e] = "failing"]
           \/ live' = [live EXCEPT ![e] = "done"]
    BY <1>9 DEF LiveSendFails, LiveReadsForFailure
  <2> QED
    BY <2>1, <2>2
<1>10. ASSUME NEW e \in Entries, LiveRecordsFailure(e)
       PROVE  LossInv'
  <2>1. /\ live[e] = "failing" /\ live' = [live EXCEPT ![e] = "done"]
        /\ UNCHANGED <<delivered, failed, cancelled, scanVars, sends, swallowed>>
        /\ \A o \in Entries \ {e} : liveCopy'[o] = liveCopy[o]
    BY <1>10 DEF LiveRecordsFailure, LiveStep
  <2>2. Retried(liveCopy[e]).mark # "absent"
    BY <2>1, RetriedFile
  <2>3. \A o \in Entries : Exists(o) => Exists(o)'
    BY <1>10, <2>2 DEF LiveRecordsFailure, Write
  <2> QED
    BY <2>1, <2>3
<1>11. ASSUME NEW e \in Entries, LiveSendCancelled(e)
       PROVE  LossInv'
  <2>1. /\ \A o \in Entries : sends'[o] >= sends[o] /\ sends[o] >= 0 /\ sends'[o] \in Nat
        /\ UNCHANGED <<fileVars, scanVars, swallowed>>
    BY <1>11, SendsGrow DEF LiveSendCancelled, LiveAccepted
  <2>2. /\ live[e] \in {"claimed", "sending"} /\ live' = [live EXCEPT ![e] = "acking"]
        /\ cancelled' = [cancelled EXCEPT ![e] = TRUE]
        /\ \A o \in Entries \ {e} : liveCopy'[o] = liveCopy[o]
    BY <1>11 DEF LiveSendCancelled
  <2> QED
    BY <2>1, <2>2
<1>12. ASSUME NEW e \in Entries, LiveAcks(e)
       PROVE  LossInv'
  BY <1>12 DEF LiveAcks, LiveStep, Write, RenameToDelivered, Files, Marks, NewFile, NoFile
<1>13. ASSUME NEW e \in Entries, LiveAckFails(e)
       PROVE  LossInv'
  BY <1>13 DEF LiveAckFails, LiveStep
<1>14. ASSUME NEW e \in Entries, LiveUnlinks(e)
       PROVE  LossInv'
  BY <1>14 DEF LiveUnlinks, LiveStep
<1>15. ASSUME NEW s \in Scans, ScanLoads(s)
       PROVE  LossInv'
  BY <1>15 DEF ScanLoads, ScanStep
<1>16. ASSUME NEW s \in Scans, ScanEnds(s)
       PROVE  LossInv'
  BY <1>16 DEF ScanEnds, ScanStep
<1>17. ASSUME NEW s \in Scans, BudgetExceeded(s)
       PROVE  LossInv'
  BY <1>17 DEF BudgetExceeded, ScanStep, Files, Marks, NewFile, NoFile
<1>18. ASSUME NEW s \in Scans, NEW e \in Entries, ScanPicks(s, e)
       PROVE  LossInv'
  <2>1. UNCHANGED <<fileVars, liveVars, scanCopy, sends, swallowed>>
    BY <1>18 DEF ScanPicks
  <2>2. \A r \in Scans : scan'[r] \in {"acking", "failing"} =>
           scan'[r] = scan[r] /\ current'[r] = current[r]
    BY <1>18 DEF ScanPicks, ScanStep
  <2> QED
    BY <2>1, <2>2
<1>19. ASSUME NEW s \in Scans, NEW e \in Entries, ScanSkips(s, e)
       PROVE  LossInv'
  BY <1>19 DEF ScanSkips, Release
<1>20. ASSUME NEW s \in Scans, NEW e \in Entries, ScanGivesUp(s, e)
       PROVE  LossInv'
  <2>1. /\ MoveToFailed(e) /\ Release(s)
        /\ UNCHANGED <<liveVars, scanCopy, swallowed>> /\ (UNCHANGED sends \/ Accepted(e))
    BY <1>20 DEF ScanGivesUp
  <2> QED
    BY <2>1, MovedNotLost
<1>21. ASSUME NEW s \in Scans, NEW e \in Entries, ScanLoadsEntry(s, e)
       PROVE  LossInv'
  BY <1>21 DEF ScanLoadsEntry, ScanStep
<1>22. ASSUME NEW s \in Scans, NEW e \in Entries, ReconciledSent(s, e)
       PROVE  LossInv'
  <2>1. /\ e \in current[s] /\ sends[e] > 0 /\ scan' = [scan EXCEPT ![s] = "acking"]
        /\ UNCHANGED <<fileVars, liveVars, current, scanCopy, sends, swallowed>>
    BY <1>22 DEF ReconciledSent, ScanStep
  <2>2. current[s] = {e}
    BY <2>1, CurrentOnly
  <2> QED
    BY <2>1, <2>2
<1>23. ASSUME NEW s \in Scans, NEW e \in Entries, ReconciledNotSent(s, e)
       PROVE  LossInv'
  BY <1>23 DEF ReconciledNotSent, ScanStep
<1>24. ASSUME NEW s \in Scans, NEW e \in Entries, ReconcileRefused(s, e)
       PROVE  LossInv'
  <2>1. /\ MoveToFailed(e) /\ Release(s)
        /\ UNCHANGED <<liveVars, scanCopy, swallowed>> /\ (UNCHANGED sends \/ Accepted(e))
    BY <1>24 DEF ReconcileRefused
  <2> QED
    BY <2>1, MovedNotLost
<1>25. ASSUME NEW s \in Scans, NEW e \in Entries, ReconcileUnresolved(s, e)
       PROVE  LossInv'
  <2>1. /\ e \in current[s] /\ ScanReadsForFailure(s, e)
        /\ UNCHANGED <<fileVars, liveVars, swallowed>>
    BY <1>25 DEF ReconcileUnresolved
  <2>2. \A o \in Entries : sends'[o] >= sends[o] /\ sends[o] >= 0 /\ sends'[o] \in Nat
    BY <1>25 DEF ReconcileUnresolved
  <2>3. current[s] = {e}
    BY <2>1, CurrentOnly
  <2>4. /\ \A r \in Scans \ {s} : /\ scan'[r] = scan[r] /\ current'[r] = current[r]
                                  /\ scanCopy'[r] = scanCopy[r]
        /\ scan'[s] # "acking"
        /\ scan'[s] = "failing" =>
              current'[s] = {e} /\ scanCopy'[s][e].mark # "absent"
    BY <2>1, <2>3, ReadForFailure
  <2>5. NoSilentLoss'
    BY <2>1, <2>2
  <2>6. (\A o \in Entries : /\ live[o] = "confirming" => sends[o] > 0
                            /\ live[o] = "acking" => sends[o] > 0 \/ cancelled[o]
                            /\ live[o] = "failing" => liveCopy[o].mark # "absent")'
    BY <2>1, <2>2
  <2>7. \A r \in Scans \ {s} : \A o \in current'[r] :
           /\ scan'[r] = "acking" => sends'[o] > 0 \/ cancelled'[o] \/ o \in swallowed'
           /\ scan'[r] = "failing" => scanCopy'[r][o].mark # "absent"
    BY <2>1, <2>2, <2>4
  <2>8. \A o \in current'[s] :
           /\ scan'[s] = "acking" => sends'[o] > 0 \/ cancelled'[o] \/ o \in swallowed'
           /\ scan'[s] = "failing" => scanCopy'[s][o].mark # "absent"
    BY <2>4
  <2> QED
    BY <2>5, <2>6, <2>7, <2>8
<1>26. ASSUME NEW s \in Scans, NEW e \in Entries, ReplaySucceeds(s, e)
       PROVE  LossInv'
  <2>1. /\ e \in current[s] /\ scan' = [scan EXCEPT ![s] = "acking"]
        /\ UNCHANGED <<fileVars, liveVars, current, scanCopy, swallowed>>
    BY <1>26 DEF ReplaySucceeds, ScanStep
  <2>2. current[s] = {e}
    BY <2>1, CurrentOnly
  <2>3. /\ \A o \in Entries : sends'[o] >= sends[o] /\ sends[o] >= 0 /\ sends'[o] \in Nat
        /\ sends'[e] > 0
    BY <1>26, SendsGrow DEF ReplaySucceeds
  <2> QED
    BY <2>1, <2>2, <2>3
<1>27. ASSUME NEW s \in Scans, NEW e \in Entries, ReplaySuppressed(s, e)
       PROVE  LossInv'
  <2>1. /\ e \in current[s] /\ scan' = [scan EXCEPT ![s] = "acking"]
        /\ cancelled' = [cancelled EXCEPT ![e] = TRUE]
        /\ UNCHANGED <<fileVars, live, liveCopy, current, scanCopy, sends, swallowed>>
    BY <1>27 DEF ReplaySuppressed, ScanStep
  <2>2. current[s] = {e}
    BY <2>1, CurrentOnly
  <2>3. \A o \in Entries : cancelled[o] => cancelled'[o]
    BY <2>1
  <2> QED
    BY <2>1, <2>2, <2>3
<1>28. ASSUME NEW s \in Scans, NEW e \in Entries, ReplaySwallowed(s, e)
       PROVE  LossInv'
  <2>1. /\ e \in current[s] /\ scan' = [scan EXCEPT ![s] = "acking"]
        /\ swallowed' = swallowed \cup {e}
        /\ UNCHANGED <<fileVars, liveVars, current, scanCopy>>
    BY <1>28 DEF ReplaySwallowed, ScanStep
  <2>2. current[s] = {e}
    BY <2>1, CurrentOnly
  <2>3. \A o \in Entries : sends'[o] >= sends[o] /\ sends[o] >= 0 /\ sends'[o] \in Nat
    BY <1>28, SendsGrow DEF ReplaySwallowed
  <2> QED
    BY <2>1, <2>2, <2>3
<1>29. ASSUME NEW s \in Scans, NEW e \in Entries, ReplayFails(s, e)
       PROVE  LossInv'
  <2>1. /\ e \in current[s] /\ ScanReadsForFailure(s, e)
        /\ UNCHANGED <<fileVars, liveVars, swallowed>>
    BY <1>29 DEF ReplayFails
  <2>2. \A o \in Entries : sends'[o] >= sends[o] /\ sends[o] >= 0 /\ sends'[o] \in Nat
    BY <1>29, SendsGrow DEF ReplayFails
  <2>3. current[s] = {e}
    BY <2>1, CurrentOnly
  <2>4. /\ \A r \in Scans \ {s} : /\ scan'[r] = scan[r] /\ current'[r] = current[r]
                                  /\ scanCopy'[r] = scanCopy[r]
        /\ scan'[s] # "acking"
        /\ scan'[s] = "failing" =>
              current'[s] = {e} /\ scanCopy'[s][e].mark # "absent"
    BY <2>1, <2>3, ReadForFailure
  <2>5. NoSilentLoss'
    BY <2>1, <2>2
  <2>6. (\A o \in Entries : /\ live[o] = "confirming" => sends[o] > 0
                            /\ live[o] = "acking" => sends[o] > 0 \/ cancelled[o]
                            /\ live[o] = "failing" => liveCopy[o].mark # "absent")'
    BY <2>1, <2>2
  <2>7. \A r \in Scans \ {s} : \A o \in current'[r] :
           /\ scan'[r] = "acking" => sends'[o] > 0 \/ cancelled'[o] \/ o \in swallowed'
           /\ scan'[r] = "failing" => scanCopy'[r][o].mark # "absent"
    BY <2>1, <2>2, <2>4
  <2>8. \A o \in current'[s] :
           /\ scan'[s] = "acking" => sends'[o] > 0 \/ cancelled'[o] \/ o \in swallowed'
           /\ scan'[s] = "failing" => scanCopy'[s][o].mark # "absent"
    BY <2>4
  <2> QED
    BY <2>5, <2>6, <2>7, <2>8
<1>30. ASSUME NEW s \in Scans, NEW e \in Entries, ReplayRejected(s, e)
       PROVE  LossInv'
  <2>1. /\ MoveToFailed(e) /\ Release(s)
        /\ UNCHANGED <<liveVars, scanCopy, swallowed>> /\ (UNCHANGED sends \/ Accepted(e))
    BY <1>30 DEF ReplayRejected
  <2> QED
    BY <2>1, MovedNotLost
<1>31. ASSUME NEW s \in Scans, NEW e \in Entries, ScanMoveFails(s, e)
       PROVE  LossInv'
  <2>1. /\ e \in current[s] /\ Release(s) /\ UNCHANGED <<fileVars, liveVars, scanCopy, swallowed>>
        /\ UNCHANGED sends \/ Accepted(e)
    BY <1>31 DEF ScanMoveFails
  <2>2. \A o \in Entries : sends'[o] >= sends[o] /\ sends[o] >= 0 /\ sends'[o] \in Nat
    BY <2>1, SendsGrow
  <2>3. /\ scan'[s] = "picking" /\ current'[s] = {}
        /\ \A r \in Scans \ {s} : scan'[r] = scan[r] /\ current'[r] = current[r]
    BY <2>1, Released
  <2> QED
    BY SMTT(30), <2>1, <2>2, <2>3
<1>32. ASSUME NEW s \in Scans, NEW e \in Entries, ScanRecordsFailure(s, e)
       PROVE  LossInv'
  <2>1. /\ e \in current[s] /\ scan[s] = "failing" /\ Release(s)
        /\ UNCHANGED <<delivered, failed, liveVars, sends, swallowed>>
        /\ \A r \in Scans \ {s} : scanCopy'[r] = scanCopy[r]
    BY <1>32 DEF ScanRecordsFailure
  <2>2. /\ scan'[s] = "picking" /\ current'[s] = {}
        /\ \A r \in Scans \ {s} : scan'[r] = scan[r] /\ current'[r] = current[r]
    BY <2>1, Released
  <2>3. Retried(scanCopy[s][e]).mark # "absent"
    BY <2>1, RetriedFile
  <2>4. \A o \in Entries : Exists(o) => Exists(o)'
    BY <1>32, <2>3 DEF ScanRecordsFailure, Write
  <2> QED
    BY SMTT(30), <2>1, <2>2, <2>4
<1>33. ASSUME NEW s \in Scans, NEW e \in Entries, ScanAcks(s, e)
       PROVE  LossInv'
  BY <1>33 DEF ScanAcks, Write, ScanStep, RenameToDelivered, Files, Marks, NewFile, NoFile
<1>34. ASSUME NEW s \in Scans, NEW e \in Entries, ScanAckFails(s, e)
       PROVE  LossInv'
  <2>1. /\ e \in current[s] /\ ScanReadsForFailure(s, e)
        /\ UNCHANGED <<fileVars, liveVars, swallowed>>
    BY <1>34 DEF ScanAckFails
  <2>2. \A o \in Entries : sends'[o] >= sends[o] /\ sends[o] >= 0 /\ sends'[o] \in Nat
    BY <1>34 DEF ScanAckFails
  <2>3. current[s] = {e}
    BY <2>1, CurrentOnly
  <2>4. /\ \A r \in Scans \ {s} : /\ scan'[r] = scan[r] /\ current'[r] = current[r]
                                  /\ scanCopy'[r] = scanCopy[r]
        /\ scan'[s] # "acking"
        /\ scan'[s] = "failing" =>
              current'[s] = {e} /\ scanCopy'[s][e].mark # "absent"
    BY <2>1, <2>3, ReadForFailure
  <2>5. NoSilentLoss'
    BY <2>1, <2>2
  <2>6. (\A o \in Entries : /\ live[o] = "confirming" => sends[o] > 0
                            /\ live[o] = "acking" => sends[o] > 0 \/ cancelled[o]
                            /\ live[o] = "failing" => liveCopy[o].mark # "absent")'
    BY <2>1, <2>2
  <2>7. \A r \in Scans \ {s} : \A o \in current'[r] :
           /\ scan'[r] = "acking" => sends'[o] > 0 \/ cancelled'[o] \/ o \in swallowed'
           /\ scan'[r] = "failing" => scanCopy'[r][o].mark # "absent"
    BY <2>1, <2>2, <2>4
  <2>8. \A o \in current'[s] :
           /\ scan'[s] = "acking" => sends'[o] > 0 \/ cancelled'[o] \/ o \in swallowed'
           /\ scan'[s] = "failing" => scanCopy'[s][o].mark # "absent"
    BY <2>4
  <2> QED
    BY <2>5, <2>6, <2>7, <2>8
<1>35. ASSUME NEW s \in Scans, NEW e \in Entries, ScanUnlinks(s, e)
       PROVE  LossInv'
  BY <1>35 DEF ScanUnlinks, Release
<1>36. ASSUME NEW s \in Scans, NEW e \in Entries, DefersEntry(s, e)
       PROVE  LossInv'
  <2>1. /\ UNCHANGED <<delivered, failed, liveVars, current, sends, swallowed>>
        /\ \A r \in Scans : scan'[r] \in {"acking", "failing"} => scan'[r] = scan[r]
        /\ scan[s] = "deferring" /\ \A r \in Scans \ {s} : scanCopy'[r] = scanCopy[r]
    BY <1>36 DEF DefersEntry
  <2>2. \A o \in Entries : Exists(o) => Exists(o)'
    <3>1. Retried(scanCopy[s][e]).mark = scanCopy[s][e].mark
      BY RetriedFile
    <3> QED
      BY <1>36, <3>1 DEF DefersEntry, Write
  <2>3. current[s] = {}
    BY <2>1
  <2>4. NoSilentLoss'
    BY <2>1, <2>2
  <2>5. \A r \in Scans : \A o \in current'[r] :
           /\ scan'[r] = "acking" => sends'[o] > 0 \/ cancelled'[o] \/ o \in swallowed'
           /\ scan'[r] = "failing" => scanCopy'[r][o].mark # "absent"
    <3> SUFFICES ASSUME NEW r \in Scans, NEW o \in current'[r]
                 PROVE  /\ scan'[r] = "acking" => sends'[o] > 0 \/ cancelled'[o] \/ o \in swallowed'
                        /\ scan'[r] = "failing" => scanCopy'[r][o].mark # "absent"
      OBVIOUS
    <3>1. o \in current[r] /\ r # s
      BY <2>1, <2>3
    <3> QED
      BY <2>1, <3>1
  <2> QED
    BY <2>1, <2>4, <2>5
<1>37. CASE Crash
  BY <1>37 DEF Crash, Files, Marks, NewFile, NoFile
<1>38. CASE UNCHANGED vars
  BY <1>38 DEF vars
<1> QED
  BY <1>1, <1>2, <1>3, <1>4, <1>5, <1>6, <1>7, <1>8, <1>9, <1>10,
     <1>11, <1>12, <1>13, <1>14, <1>15, <1>16, <1>17, <1>18, <1>19, <1>20,
     <1>21, <1>22, <1>23, <1>24, <1>25, <1>26, <1>27, <1>28, <1>29, <1>30,
     <1>31, <1>32, <1>33, <1>34, <1>35, <1>36, <1>37, <1>38
     DEF Next, LiveNext, ScanNext

\* At first no entry has a file or an owner.
LEMMA InitInv == Init => IInv
BY DeliveryQueueAssumption
   DEF Init, IInv, TypeOK, OneOwner, LossInv, NoSilentLoss, LiveOwns, LiveSteps, ScanSteps, Files,
       Marks, NoFile

\* Every step keeps the types, the owners and the entries.
LEMMA NextPreserves == IInv /\ [Next]_vars => IInv'
BY TypePreserved, OwnerPreserved, LossPreserved DEF IInv

\* The inductive invariant holds in every state.
LEMMA Inductive == Spec => []IInv
BY InitInv, NextPreserves, PTL DEF Spec

-----------------------------------------------------------------------------
(* Types, owners and losses. *)

\* delivery-queue-recovery.ts: a scan has the entry it works on and no other.
THEOREM TypeCorrect == Spec => []TypeOK
BY Inductive, PTL DEF IInv

\* entriesInProgress: live sends and scans own an entry one at a time.
THEOREM OwnersAreExclusive == Spec => []OneOwner
BY Inductive, PTL DEF IInv

\* deliver.ts and delivery-queue-storage.ts: an entry whose file is gone was sent,
\* cancelled or moved to failed/, whatever is interleaved, crashes, fails or is retried,
\* unless the replay of a bestEffort send swallowed its errors.
THEOREM NothingIsLost == Spec => []NoSilentLoss
BY Inductive, PTL DEF IInv, LossInv

-----------------------------------------------------------------------------
(* What holds of an entry as long as no deferral has written an older copy back. *)

\* Whoever has read a file to write it again owns the entry, and the file is still
\* there; a failed entry has no file.
EntryOwned(e) ==
    /\ live[e] = "none" => ~Exists(e) /\ ~failed[e] /\ \A s \in Scans : e \notin todo[s]
    /\ live[e] \in {"marking", "confirming", "failing"} => Exists(e)
    /\ failed[e] => ~Exists(e)
    /\ \A s \in Scans : e \in current[s] =>
          live[e] # "none" /\ (scan[s] = "failing" => Exists(e))

OwnInv == \A e \in Entries \ clobbered : EntryOwned(e)

OInv == IInv /\ OwnInv

\* A deferral that undoes nothing leaves an entry as it is, but for the retry count.
LEMMA DefersHarmlessly ==
    ASSUME TypeOK, NEW s \in Scans, NEW e \in Entries, DefersEntry(s, e),
           NEW o \in Entries \ clobbered'
    PROVE  json'[o].mark = json[o].mark /\ o \notin clobbered
<1>1. o # e => json'[o] = json[o]
  BY DEF DefersEntry, Write, TypeOK
<1>2. ASSUME o = e, json' # json
      PROVE  json'[e] = Retried(json[e])
  BY <1>2 DEF DefersEntry, Write, TypeOK
<1>3. json[e] \in Files
  BY DEF TypeOK
<1>4. Retried(json[e]).mark = json[e].mark
  BY <1>3, RetriedFile
<1>5. o \notin clobbered
  BY DEF DefersEntry
<1> QED
  BY <1>1, <1>2, <1>4, <1>5

-----------------------------------------------------------------------------
(* Every action preserves it. *)

\* Nobody else removes or writes the file of an entry that its live send or a scan owns.
LEMMA OwnedPreserved ==
    ASSUME OInv, [Next]_vars, NEW o \in Entries \ clobbered'
    PROVE  EntryOwned(o)'
<1> USE DEF EntryOwned, Exists, fileVars, liveVars, scanVars, history
<1>t. TypeOK /\ OneOwner
  BY DEF OInv, IInv
<1>o. o \notin clobbered => EntryOwned(o)
  BY DEF OInv, OwnInv
<1>u. \A r \in Scans : o \in current[r] =>
         /\ live[o] \in {"none", "writing", "done"}
         /\ \A q \in Scans : o \in current[q] => q = r
  BY <1>t DEF TypeOK, OneOwner, LiveOwns
<1>1. ASSUME NEW e \in Entries, EnqueueDelivery(e)
      PROVE  EntryOwned(o)'
  <2>1. /\ o \notin clobbered /\ UNCHANGED <<failed, todo, scan, current>>
        /\ live[e] = "none" /\ live'[e] = "writing"
        /\ o # e => live'[o] = live[o] /\ json'[o] = json[o]
    BY <1>t, <1>1 DEF TypeOK, EnqueueDelivery, LiveStep, Write
  <2> QED
    BY <1>o, <1>u, <2>1
<1>2. ASSUME NEW e \in Entries, LiveClaims(e)
      PROVE  EntryOwned(o)'
  <2>1. /\ o \notin clobbered /\ UNCHANGED <<json, failed, todo, scan, current>>
        /\ live[e] # "none" /\ live'[e] # "none"
        /\ live'[e] \in {"marking", "confirming", "failing"} => Exists(e)
        /\ o # e => live'[o] = live[o]
    BY <1>t, <1>2 DEF TypeOK, LiveClaims, LiveStep
  <2> QED
    BY <1>o, <1>u, <2>1
<1>3. ASSUME NEW e \in Entries, LiveReadsForMark(e)
      PROVE  EntryOwned(o)'
  <2>1. /\ o \notin clobbered /\ UNCHANGED <<json, failed, todo, scan, current>>
        /\ live[e] # "none" /\ live'[e] # "none"
        /\ live'[e] \in {"marking", "confirming", "failing"} => Exists(e)
        /\ o # e => live'[o] = live[o]
    BY <1>t, <1>3 DEF TypeOK, LiveReadsForMark, LiveStep
  <2> QED
    BY <1>o, <1>u, <2>1
<1>4. ASSUME NEW e \in Entries, LiveMarksStarted(e)
      PROVE  EntryOwned(o)'
  <2>1. /\ o \notin clobbered /\ UNCHANGED <<failed, todo, scan, current>>
        /\ live[e] \in {"marking", "confirming", "failing"} /\ live'[e] \in {"sending",
             "acking", "done"}
        /\ o # e => live'[o] = live[o] /\ json'[o] = json[o]
    BY <1>t, <1>4 DEF TypeOK, LiveMarksStarted, LiveStep, Write
  <2> QED
    BY <1>o, <1>u, <2>1
<1>5. ASSUME NEW e \in Entries, LiveMarkFails(e)
      PROVE  EntryOwned(o)'
  <2>1. /\ o \notin clobbered /\ UNCHANGED <<json, failed, todo, scan, current>>
        /\ live[e] # "none" /\ live'[e] # "none"
        /\ live'[e] \in {"marking", "confirming", "failing"} => Exists(e)
        /\ o # e => live'[o] = live[o]
    BY <1>t, <1>5 DEF TypeOK, LiveMarkFails, LiveReadsForFailure, LiveStep
  <2> QED
    BY <1>o, <1>u, <2>1
<1>6. ASSUME NEW e \in Entries, LiveSendSucceeds(e)
      PROVE  EntryOwned(o)'
  <2>1. /\ o \notin clobbered /\ UNCHANGED <<json, failed, todo, scan, current>>
        /\ live[e] # "none" /\ live'[e] # "none"
        /\ live'[e] \in {"marking", "confirming", "failing"} => Exists(e)
        /\ o # e => live'[o] = live[o]
    BY <1>t, <1>6 DEF TypeOK, LiveSendSucceeds, LiveStep
  <2> QED
    BY <1>o, <1>u, <2>1
<1>7. ASSUME NEW e \in Entries, LiveMarksUnknown(e)
      PROVE  EntryOwned(o)'
  <2>1. /\ o \notin clobbered /\ UNCHANGED <<failed, todo, scan, current>>
        /\ live[e] \in {"marking", "confirming", "failing"} /\ live'[e] \in {"sending",
             "acking", "done"}
        /\ o # e => live'[o] = live[o] /\ json'[o] = json[o]
    BY <1>t, <1>7 DEF TypeOK, LiveMarksUnknown, LiveStep, Write
  <2> QED
    BY <1>o, <1>u, <2>1
<1>8. ASSUME NEW e \in Entries, LiveUnknownMarkFails(e)
      PROVE  EntryOwned(o)'
  <2>1. /\ o \notin clobbered /\ UNCHANGED <<json, failed, todo, scan, current>>
        /\ live[e] # "none" /\ live'[e] # "none"
        /\ live'[e] \in {"marking", "confirming", "failing"} => Exists(e)
        /\ o # e => live'[o] = live[o]
    BY <1>t, <1>8 DEF TypeOK, LiveUnknownMarkFails, LiveStep
  <2> QED
    BY <1>o, <1>u, <2>1
<1>9. ASSUME NEW e \in Entries, LiveSendFails(e)
      PROVE  EntryOwned(o)'
  <2>1. /\ o \notin clobbered /\ UNCHANGED <<json, failed, todo, scan, current>>
        /\ live[e] # "none" /\ live'[e] # "none"
        /\ live'[e] \in {"marking", "confirming", "failing"} => Exists(e)
        /\ o # e => live'[o] = live[o]
    BY <1>t, <1>9 DEF TypeOK, LiveSendFails, LiveReadsForFailure
  <2> QED
    BY <1>o, <1>u, <2>1
<1>10. ASSUME NEW e \in Entries, LiveRecordsFailure(e)
       PROVE  EntryOwned(o)'
  <2>1. /\ o \notin clobbered /\ UNCHANGED <<failed, todo, scan, current>>
        /\ live[e] \in {"marking", "confirming", "failing"} /\ live'[e] \in {"sending",
             "acking", "done"}
        /\ o # e => live'[o] = live[o] /\ json'[o] = json[o]
    BY <1>t, <1>10 DEF TypeOK, LiveRecordsFailure, LiveStep, Write
  <2> QED
    BY <1>o, <1>u, <2>1
<1>11. ASSUME NEW e \in Entries, LiveSendCancelled(e)
       PROVE  EntryOwned(o)'
  <2>1. /\ o \notin clobbered /\ UNCHANGED <<json, failed, todo, scan, current>>
        /\ live[e] # "none" /\ live'[e] # "none"
        /\ live'[e] \in {"marking", "confirming", "failing"} => Exists(e)
        /\ o # e => live'[o] = live[o]
    BY <1>t, <1>11 DEF TypeOK, LiveSendCancelled
  <2> QED
    BY <1>o, <1>u, <2>1
<1>12. ASSUME NEW e \in Entries, LiveAcks(e)
       PROVE  EntryOwned(o)'
  <2>1. /\ o \notin clobbered /\ UNCHANGED <<failed, todo, scan, current>>
        /\ live[e] = "acking" /\ live'[e] = "unlinking" /\ json'[e] = NoFile
        /\ o # e => live'[o] = live[o] /\ json'[o] = json[o]
    BY <1>t, <1>12 DEF TypeOK, LiveAcks, LiveStep, RenameToDelivered, Write
  <2>2. json'[e].mark = "absent"
    BY <1>o, <1>u, <2>1 DEF NoFile
  <2>3. o = e => \A r \in Scans : o \notin current[r]
    BY <1>o, <1>u, <2>1
  <2>8. CASE o = e
    BY <1>o, <1>u, <2>8, <2>1, <2>2, <2>3
  <2>9. CASE o # e
    BY <1>o, <1>u, <2>9, <2>1, <2>2, <2>3
  <2> QED
    BY <2>8, <2>9
<1>13. ASSUME NEW e \in Entries, LiveAckFails(e)
       PROVE  EntryOwned(o)'
  <2>1. /\ o \notin clobbered /\ UNCHANGED <<json, failed, todo, scan, current>>
        /\ live[e] # "none" /\ live'[e] # "none"
        /\ live'[e] \in {"marking", "confirming", "failing"} => Exists(e)
        /\ o # e => live'[o] = live[o]
    BY <1>t, <1>13 DEF TypeOK, LiveAckFails, LiveStep
  <2> QED
    BY <1>o, <1>u, <2>1
<1>14. ASSUME NEW e \in Entries, LiveUnlinks(e)
       PROVE  EntryOwned(o)'
  <2>1. /\ o \notin clobbered /\ UNCHANGED <<json, failed, todo, scan, current>>
        /\ live[e] # "none" /\ live'[e] # "none"
        /\ live'[e] \in {"marking", "confirming", "failing"} => Exists(e)
        /\ o # e => live'[o] = live[o]
    BY <1>t, <1>14 DEF TypeOK, LiveUnlinks, LiveStep
  <2> QED
    BY <1>o, <1>u, <2>1
<1>15. ASSUME NEW s \in Scans, ScanLoads(s)
       PROVE  EntryOwned(o)'
  <2>1. /\ o \notin clobbered /\ UNCHANGED <<json, failed, live, current>>
        /\ \A r \in Scans : scan'[r] = "failing" => scan[r] = "failing"
        /\ \A r \in Scans : o \in todo'[r] => o \in todo[r] \/ Exists(o)
    BY <1>t, <1>15 DEF TypeOK, ScanLoads, ScanStep
  <2> QED
    BY <1>o, <1>u, <2>1
<1>16. ASSUME NEW s \in Scans, ScanEnds(s)
       PROVE  EntryOwned(o)'
  <2>1. /\ o \notin clobbered /\ UNCHANGED <<json, failed, live, current, todo>>
        /\ \A r \in Scans : scan'[r] = "failing" => scan[r] = "failing"
    BY <1>t, <1>16 DEF TypeOK, ScanEnds, ScanStep
  <2> QED
    BY <1>o, <1>u, <2>1
<1>17. ASSUME NEW s \in Scans, BudgetExceeded(s)
       PROVE  EntryOwned(o)'
  <2>1. /\ o \notin clobbered /\ UNCHANGED <<json, failed, live, current, todo>>
        /\ \A r \in Scans : scan'[r] = "failing" => scan[r] = "failing"
    BY <1>t, <1>17 DEF TypeOK, BudgetExceeded, ScanStep
  <2> QED
    BY <1>o, <1>u, <2>1
<1>18. ASSUME NEW s \in Scans, NEW e \in Entries, ScanPicks(s, e)
       PROVE  EntryOwned(o)'
  <2>1. /\ o \notin clobbered /\ UNCHANGED <<json, failed, live>>
        /\ e \in todo[s] /\ \A r \in Scans : todo'[r] \subseteq todo[r]
    BY <1>t, <1>18 DEF TypeOK, ScanPicks
  <2>2. \A r \in Scans : o \in current'[r] => o \in current[r] \/ o = e
    BY <1>t, <1>18 DEF TypeOK, ScanPicks
  <2>3. \A r \in Scans : scan'[r] = "failing" => scan[r] = "failing" /\ current'[r] = current[r]
    BY <1>t, <1>18 DEF TypeOK, ScanPicks, ScanStep
  <2> QED
    BY <1>o, <1>u, <2>1, <2>2, <2>3
<1>19. ASSUME NEW s \in Scans, NEW e \in Entries, ScanSkips(s, e)
       PROVE  EntryOwned(o)'
  <2>1. /\ o \notin clobbered /\ UNCHANGED <<json, failed, live>>
        /\ \A r \in Scans : todo'[r] \subseteq todo[r]
        /\ \A r \in Scans : o \in current'[r] => o \in current[r]
        /\ \A r \in Scans : o \in current'[r] /\ scan'[r] = "failing" => scan[r] = "failing"
    BY <1>t, <1>19 DEF TypeOK, ScanSkips, Release
  <2> QED
    BY <1>o, <1>u, <2>1
<1>20. ASSUME NEW s \in Scans, NEW e \in Entries, ScanGivesUp(s, e)
       PROVE  EntryOwned(o)'
  <2>1. /\ o \notin clobbered /\ e \in current[s] /\ MoveToFailed(e) /\ Release(s)
        /\ UNCHANGED <<live, todo>>
    BY <1>t, <1>20 DEF TypeOK, ScanGivesUp
  <2>2. /\ \A x \in Entries \ {e} : json'[x] = json[x] /\ failed'[x] = failed[x]
        /\ json'[e].mark = "absent"
    BY <1>t, <2>1, FailedFile
  <2>3. \A r \in Scans : o \in current'[r] => o \in current[r] /\ scan'[r] = scan[r] /\ r # s
    BY <1>t, <2>1, Released
  <2>4. o = e => /\ live[e] \notin {"none", "marking", "confirming", "failing"}
                 /\ \A r \in Scans : e \in current[r] => r = s
    BY <1>o, <1>u, <2>1
  <2>8. CASE o = e
    BY <1>o, <1>u, <2>8, <2>1, <2>2, <2>3, <2>4
  <2>9. CASE o # e
    BY <1>o, <1>u, <2>9, <2>1, <2>2, <2>3, <2>4
  <2> QED
    BY <2>8, <2>9
<1>21. ASSUME NEW s \in Scans, NEW e \in Entries, ScanLoadsEntry(s, e)
       PROVE  EntryOwned(o)'
  <2>1. /\ o \notin clobbered /\ UNCHANGED <<json, failed, live>>
        /\ \A r \in Scans : todo'[r] \subseteq todo[r]
        /\ \A r \in Scans : o \in current'[r] => o \in current[r]
        /\ \A r \in Scans : o \in current'[r] /\ scan'[r] = "failing" => scan[r] = "failing"
    BY <1>t, <1>21 DEF TypeOK, ScanLoadsEntry, ScanStep
  <2> QED
    BY <1>o, <1>u, <2>1
<1>22. ASSUME NEW s \in Scans, NEW e \in Entries, ReconciledSent(s, e)
       PROVE  EntryOwned(o)'
  <2>1. /\ o \notin clobbered /\ UNCHANGED <<json, failed, live>>
        /\ \A r \in Scans : todo'[r] \subseteq todo[r]
        /\ \A r \in Scans : o \in current'[r] => o \in current[r]
        /\ \A r \in Scans : o \in current'[r] /\ scan'[r] = "failing" => scan[r] = "failing"
    BY <1>t, <1>22 DEF TypeOK, ReconciledSent, ScanStep
  <2> QED
    BY <1>o, <1>u, <2>1
<1>23. ASSUME NEW s \in Scans, NEW e \in Entries, ReconciledNotSent(s, e)
       PROVE  EntryOwned(o)'
  <2>1. /\ o \notin clobbered /\ UNCHANGED <<json, failed, live>>
        /\ \A r \in Scans : todo'[r] \subseteq todo[r]
        /\ \A r \in Scans : o \in current'[r] => o \in current[r]
        /\ \A r \in Scans : o \in current'[r] /\ scan'[r] = "failing" => scan[r] = "failing"
    BY <1>t, <1>23 DEF TypeOK, ReconciledNotSent, ScanStep
  <2> QED
    BY <1>o, <1>u, <2>1
<1>24. ASSUME NEW s \in Scans, NEW e \in Entries, ReconcileRefused(s, e)
       PROVE  EntryOwned(o)'
  <2>1. /\ o \notin clobbered /\ e \in current[s] /\ MoveToFailed(e) /\ Release(s)
        /\ UNCHANGED <<live, todo>>
    BY <1>t, <1>24 DEF TypeOK, ReconcileRefused
  <2>2. /\ \A x \in Entries \ {e} : json'[x] = json[x] /\ failed'[x] = failed[x]
        /\ json'[e].mark = "absent"
    BY <1>t, <2>1, FailedFile
  <2>3. \A r \in Scans : o \in current'[r] => o \in current[r] /\ scan'[r] = scan[r] /\ r # s
    BY <1>t, <2>1, Released
  <2>4. o = e => /\ live[e] \notin {"none", "marking", "confirming", "failing"}
                 /\ \A r \in Scans : e \in current[r] => r = s
    BY <1>o, <1>u, <2>1
  <2>8. CASE o = e
    BY <1>o, <1>u, <2>8, <2>1, <2>2, <2>3, <2>4
  <2>9. CASE o # e
    BY <1>o, <1>u, <2>9, <2>1, <2>2, <2>3, <2>4
  <2> QED
    BY <2>8, <2>9
<1>25. ASSUME NEW s \in Scans, NEW e \in Entries, ReconcileUnresolved(s, e)
       PROVE  EntryOwned(o)'
  <2>1. /\ o \notin clobbered /\ e \in current[s] /\ ScanReadsForFailure(s, e)
        /\ UNCHANGED <<json, failed, live, todo>>
    BY <1>t, <1>25 DEF TypeOK, ReconcileUnresolved
  <2>2. current[s] = {e}
    BY <1>t, <2>1, CurrentOnly
  <2>3. /\ \A r \in Scans \ {s} : scan'[r] = scan[r] /\ current'[r] = current[r]
        /\ \/ Exists(e) /\ current'[s] = {e}
           \/ current'[s] = {}
    BY <1>t, <2>1, <2>2, ReadForFailure
  <2>8. CASE o = e
    BY <1>o, <1>u, <2>8, <2>1, <2>2, <2>3
  <2>9. CASE o # e
    BY <1>o, <1>u, <2>9, <2>1, <2>2, <2>3
  <2> QED
    BY <2>8, <2>9
<1>26. ASSUME NEW s \in Scans, NEW e \in Entries, ReplaySucceeds(s, e)
       PROVE  EntryOwned(o)'
  <2>1. /\ o \notin clobbered /\ UNCHANGED <<json, failed, live>>
        /\ \A r \in Scans : todo'[r] \subseteq todo[r]
        /\ \A r \in Scans : o \in current'[r] => o \in current[r]
        /\ \A r \in Scans : o \in current'[r] /\ scan'[r] = "failing" => scan[r] = "failing"
    BY <1>t, <1>26 DEF TypeOK, ReplaySucceeds, ScanStep
  <2> QED
    BY <1>o, <1>u, <2>1
<1>27. ASSUME NEW s \in Scans, NEW e \in Entries, ReplaySuppressed(s, e)
       PROVE  EntryOwned(o)'
  <2>1. /\ o \notin clobbered /\ UNCHANGED <<json, failed, live>>
        /\ \A r \in Scans : todo'[r] \subseteq todo[r]
        /\ \A r \in Scans : o \in current'[r] => o \in current[r]
        /\ \A r \in Scans : o \in current'[r] /\ scan'[r] = "failing" => scan[r] = "failing"
    BY <1>t, <1>27 DEF TypeOK, ReplaySuppressed, ScanStep
  <2> QED
    BY <1>o, <1>u, <2>1
<1>28. ASSUME NEW s \in Scans, NEW e \in Entries, ReplaySwallowed(s, e)
       PROVE  EntryOwned(o)'
  <2>1. /\ o \notin clobbered /\ UNCHANGED <<json, failed, live>>
        /\ \A r \in Scans : todo'[r] \subseteq todo[r]
        /\ \A r \in Scans : o \in current'[r] => o \in current[r]
        /\ \A r \in Scans : o \in current'[r] /\ scan'[r] = "failing" => scan[r] = "failing"
    BY <1>t, <1>28 DEF TypeOK, ReplaySwallowed, ScanStep
  <2> QED
    BY <1>o, <1>u, <2>1
<1>29. ASSUME NEW s \in Scans, NEW e \in Entries, ReplayFails(s, e)
       PROVE  EntryOwned(o)'
  <2>1. /\ o \notin clobbered /\ e \in current[s] /\ ScanReadsForFailure(s, e)
        /\ UNCHANGED <<json, failed, live, todo>>
    BY <1>t, <1>29 DEF TypeOK, ReplayFails
  <2>2. current[s] = {e}
    BY <1>t, <2>1, CurrentOnly
  <2>3. /\ \A r \in Scans \ {s} : scan'[r] = scan[r] /\ current'[r] = current[r]
        /\ \/ Exists(e) /\ current'[s] = {e}
           \/ current'[s] = {}
    BY <1>t, <2>1, <2>2, ReadForFailure
  <2>8. CASE o = e
    BY <1>o, <1>u, <2>8, <2>1, <2>2, <2>3
  <2>9. CASE o # e
    BY <1>o, <1>u, <2>9, <2>1, <2>2, <2>3
  <2> QED
    BY <2>8, <2>9
<1>30. ASSUME NEW s \in Scans, NEW e \in Entries, ReplayRejected(s, e)
       PROVE  EntryOwned(o)'
  <2>1. /\ o \notin clobbered /\ e \in current[s] /\ MoveToFailed(e) /\ Release(s)
        /\ UNCHANGED <<live, todo>>
    BY <1>t, <1>30 DEF TypeOK, ReplayRejected
  <2>2. /\ \A x \in Entries \ {e} : json'[x] = json[x] /\ failed'[x] = failed[x]
        /\ json'[e].mark = "absent"
    BY <1>t, <2>1, FailedFile
  <2>3. \A r \in Scans : o \in current'[r] => o \in current[r] /\ scan'[r] = scan[r] /\ r # s
    BY <1>t, <2>1, Released
  <2>4. o = e => /\ live[e] \notin {"none", "marking", "confirming", "failing"}
                 /\ \A r \in Scans : e \in current[r] => r = s
    BY <1>o, <1>u, <2>1
  <2>8. CASE o = e
    BY <1>o, <1>u, <2>8, <2>1, <2>2, <2>3, <2>4
  <2>9. CASE o # e
    BY <1>o, <1>u, <2>9, <2>1, <2>2, <2>3, <2>4
  <2> QED
    BY <2>8, <2>9
<1>31. ASSUME NEW s \in Scans, NEW e \in Entries, ScanMoveFails(s, e)
       PROVE  EntryOwned(o)'
  <2>1. /\ o \notin clobbered /\ UNCHANGED <<json, failed, live>>
        /\ \A r \in Scans : todo'[r] \subseteq todo[r]
        /\ \A r \in Scans : o \in current'[r] => o \in current[r]
        /\ \A r \in Scans : o \in current'[r] /\ scan'[r] = "failing" => scan[r] = "failing"
    BY <1>t, <1>31 DEF TypeOK, ScanMoveFails, Release
  <2> QED
    BY <1>o, <1>u, <2>1
<1>32. ASSUME NEW s \in Scans, NEW e \in Entries, ScanRecordsFailure(s, e)
       PROVE  EntryOwned(o)'
  <2>1. /\ o \notin clobbered /\ e \in current[s] /\ scan[s] = "failing" /\ Release(s)
        /\ UNCHANGED <<failed, live, todo>> /\ (o # e => json'[o] = json[o])
    BY <1>t, <1>32 DEF TypeOK, ScanRecordsFailure, Write
  <2>2. \A r \in Scans : o \in current'[r] => o \in current[r] /\ scan'[r] = scan[r] /\ r # s
    BY <1>t, <2>1, Released
  <2>8. CASE o = e
    BY <1>o, <1>u, <2>8, <2>1, <2>2
  <2>9. CASE o # e
    BY <1>o, <1>u, <2>9, <2>1, <2>2
  <2> QED
    BY <2>8, <2>9
<1>33. ASSUME NEW s \in Scans, NEW e \in Entries, ScanAcks(s, e)
       PROVE  EntryOwned(o)'
  <2>1. /\ o \notin clobbered /\ e \in current[s] /\ UNCHANGED <<failed, live, todo, current>>
        /\ \A r \in Scans : scan'[r] = "failing" => scan[r] = "failing" /\ r # s
        /\ json'[e].mark = "absent" /\ (o # e => json'[o] = json[o])
    BY <1>t, <1>33 DEF TypeOK, ScanAcks, ScanStep, RenameToDelivered, Write, NoFile
  <2>2. o = e => \A r \in Scans \ {s} : o \notin current[r]
    BY <1>o, <1>u, <2>1
  <2>8. CASE o = e
    BY <1>o, <1>u, <2>8, <2>1, <2>2
  <2>9. CASE o # e
    BY <1>o, <1>u, <2>9, <2>1, <2>2
  <2> QED
    BY <2>8, <2>9
<1>34. ASSUME NEW s \in Scans, NEW e \in Entries, ScanAckFails(s, e)
       PROVE  EntryOwned(o)'
  <2>1. /\ o \notin clobbered /\ e \in current[s] /\ ScanReadsForFailure(s, e)
        /\ UNCHANGED <<json, failed, live, todo>>
    BY <1>t, <1>34 DEF TypeOK, ScanAckFails
  <2>2. current[s] = {e}
    BY <1>t, <2>1, CurrentOnly
  <2>3. /\ \A r \in Scans \ {s} : scan'[r] = scan[r] /\ current'[r] = current[r]
        /\ \/ Exists(e) /\ current'[s] = {e}
           \/ current'[s] = {}
    BY <1>t, <2>1, <2>2, ReadForFailure
  <2>8. CASE o = e
    BY <1>o, <1>u, <2>8, <2>1, <2>2, <2>3
  <2>9. CASE o # e
    BY <1>o, <1>u, <2>9, <2>1, <2>2, <2>3
  <2> QED
    BY <2>8, <2>9
<1>35. ASSUME NEW s \in Scans, NEW e \in Entries, ScanUnlinks(s, e)
       PROVE  EntryOwned(o)'
  <2>1. /\ o \notin clobbered /\ UNCHANGED <<json, failed, live>>
        /\ \A r \in Scans : todo'[r] \subseteq todo[r]
        /\ \A r \in Scans : o \in current'[r] => o \in current[r]
        /\ \A r \in Scans : o \in current'[r] /\ scan'[r] = "failing" => scan[r] = "failing"
    BY <1>t, <1>35 DEF TypeOK, ScanUnlinks, Release
  <2> QED
    BY <1>o, <1>u, <2>1
<1>36. ASSUME NEW s \in Scans, NEW e \in Entries, DefersEntry(s, e)
       PROVE  EntryOwned(o)'
  <2>1. json'[o].mark = json[o].mark /\ o \notin clobbered
    BY <1>t, <1>36, DefersHarmlessly
  <2>2. /\ UNCHANGED <<failed, live, current>>
        /\ \A r \in Scans : todo'[r] \subseteq todo[r]
        /\ \A r \in Scans : scan'[r] = "failing" => scan[r] = "failing"
    BY <1>t, <1>36 DEF TypeOK, DefersEntry
  <2>8. CASE o = e
    BY <1>o, <1>u, <2>8, <2>1, <2>2
  <2>9. CASE o # e
    BY <1>o, <1>u, <2>9, <2>1, <2>2
  <2> QED
    BY <2>8, <2>9
<1>37. CASE Crash
  BY <1>t, <1>o, <1>u, <1>37 DEF TypeOK, Crash
<1>38. CASE UNCHANGED vars
  BY <1>t, <1>o, <1>38 DEF TypeOK, vars
<1> QED
  BY <1>1, <1>2, <1>3, <1>4, <1>5, <1>6, <1>7, <1>8, <1>9, <1>10,
     <1>11, <1>12, <1>13, <1>14, <1>15, <1>16, <1>17, <1>18, <1>19, <1>20,
     <1>21, <1>22, <1>23, <1>24, <1>25, <1>26, <1>27, <1>28, <1>29, <1>30,
     <1>31, <1>32, <1>33, <1>34, <1>35, <1>36, <1>37, <1>38
     DEF Next, LiveNext, ScanNext

\* At first there are no files.
LEMMA OwnInit == Init => OwnInv
BY DEF Init, OwnInv, EntryOwned, Exists, NoFile

\* Every step keeps the files with their owners.
LEMMA OwnNext == OInv /\ [Next]_vars => OInv'
<1> SUFFICES ASSUME OInv, [Next]_vars
             PROVE  OInv'
  OBVIOUS
<1>1. IInv'
  BY NextPreserves DEF OInv
<1>2. OwnInv'
  BY OwnedPreserved DEF OwnInv
<1> QED
  BY <1>1, <1>2 DEF OInv

\* The invariant holds in every state.
LEMMA OwnInductive == Spec => []OInv
<1>1. Init => OInv
  BY InitInv, OwnInit DEF OInv
<1> QED
  BY <1>1, OwnNext, PTL DEF Spec

\* moveToFailed: what was given up is not pending again, unless a deferral undid the
\* move.
THEOREM FailedStaysFailed == Spec => []FailedIsFinal
<1>1. OInv => FailedIsFinal
  BY DEF OInv, OwnInv, EntryOwned, FailedIsFinal
<1> QED
  BY <1>1, OwnInductive, PTL

\* What NoResurrection says of one step.
StaysGone ==
    \A e \in Entries :
        live[e] # "none" /\ ~Exists(e) => json'[e].mark = "absent" \/ e \in clobbered'

\* Who writes a file holds its entry and finds the file there.
LEMMA NextStaysGone ==
    ASSUME OInv, [Next]_vars, NEW o \in Entries \ clobbered', live[o] # "none", ~Exists(o)
    PROVE  json'[o].mark = "absent"
<1> USE DEF Exists, fileVars, history
<1>1. ASSUME NEW e \in Entries, EnqueueDelivery(e)
      PROVE  json'[o].mark = "absent"
  BY <1>1 DEF EnqueueDelivery, LiveStep, Write, OInv, IInv, TypeOK
<1>2. ASSUME NEW e \in Entries, LiveClaims(e)
      PROVE  json'[o].mark = "absent"
  BY <1>2 DEF LiveClaims
<1>3. ASSUME NEW e \in Entries, LiveReadsForMark(e)
      PROVE  json'[o].mark = "absent"
  BY <1>3 DEF LiveReadsForMark
<1>4. ASSUME NEW e \in Entries, LiveMarksStarted(e)
      PROVE  json'[o].mark = "absent"
  <2>1. o \notin clobbered /\ live[e] = "marking" /\ (o # e => json'[o] = json[o])
    BY <1>4 DEF LiveMarksStarted, LiveStep, Write, OInv, IInv, TypeOK
  <2>2. o # e
    BY <2>1 DEF OInv, OwnInv, EntryOwned
  <2> QED
    BY <2>1, <2>2
<1>5. ASSUME NEW e \in Entries, LiveMarkFails(e)
      PROVE  json'[o].mark = "absent"
  BY <1>5 DEF LiveMarkFails
<1>6. ASSUME NEW e \in Entries, LiveSendSucceeds(e)
      PROVE  json'[o].mark = "absent"
  BY <1>6 DEF LiveSendSucceeds
<1>7. ASSUME NEW e \in Entries, LiveMarksUnknown(e)
      PROVE  json'[o].mark = "absent"
  <2>1. o \notin clobbered /\ live[e] = "confirming" /\ (o # e => json'[o] = json[o])
    BY <1>7 DEF LiveMarksUnknown, LiveStep, Write, OInv, IInv, TypeOK
  <2>2. o # e
    BY <2>1 DEF OInv, OwnInv, EntryOwned
  <2> QED
    BY <2>1, <2>2
<1>8. ASSUME NEW e \in Entries, LiveUnknownMarkFails(e)
      PROVE  json'[o].mark = "absent"
  BY <1>8 DEF LiveUnknownMarkFails
<1>9. ASSUME NEW e \in Entries, LiveSendFails(e)
      PROVE  json'[o].mark = "absent"
  BY <1>9 DEF LiveSendFails
<1>10. ASSUME NEW e \in Entries, LiveRecordsFailure(e)
       PROVE  json'[o].mark = "absent"
  <2>1. o \notin clobbered /\ live[e] = "failing" /\ (o # e => json'[o] = json[o])
    BY <1>10 DEF LiveRecordsFailure, LiveStep, Write, OInv, IInv, TypeOK
  <2>2. o # e
    BY <2>1 DEF OInv, OwnInv, EntryOwned
  <2> QED
    BY <2>1, <2>2
<1>11. ASSUME NEW e \in Entries, LiveSendCancelled(e)
       PROVE  json'[o].mark = "absent"
  BY <1>11 DEF LiveSendCancelled
<1>12. ASSUME NEW e \in Entries, LiveAcks(e)
       PROVE  json'[o].mark = "absent"
  BY <1>12 DEF LiveAcks, RenameToDelivered, Write, NoFile, OInv, IInv, TypeOK
<1>13. ASSUME NEW e \in Entries, LiveAckFails(e)
       PROVE  json'[o].mark = "absent"
  BY <1>13 DEF LiveAckFails
<1>14. ASSUME NEW e \in Entries, LiveUnlinks(e)
       PROVE  json'[o].mark = "absent"
  BY <1>14 DEF LiveUnlinks
<1>15. ASSUME NEW s \in Scans, ScanLoads(s)
       PROVE  json'[o].mark = "absent"
  BY <1>15 DEF ScanLoads
<1>16. ASSUME NEW s \in Scans, ScanEnds(s)
       PROVE  json'[o].mark = "absent"
  BY <1>16 DEF ScanEnds
<1>17. ASSUME NEW s \in Scans, BudgetExceeded(s)
       PROVE  json'[o].mark = "absent"
  BY <1>17 DEF BudgetExceeded
<1>18. ASSUME NEW s \in Scans, NEW e \in Entries, ScanPicks(s, e)
       PROVE  json'[o].mark = "absent"
  BY <1>18 DEF ScanPicks
<1>19. ASSUME NEW s \in Scans, NEW e \in Entries, ScanSkips(s, e)
       PROVE  json'[o].mark = "absent"
  BY <1>19 DEF ScanSkips
<1>20. ASSUME NEW s \in Scans, NEW e \in Entries, ScanGivesUp(s, e)
       PROVE  json'[o].mark = "absent"
  BY <1>20 DEF ScanGivesUp, MoveToFailed, Write, NoFile, OInv, IInv, TypeOK
<1>21. ASSUME NEW s \in Scans, NEW e \in Entries, ScanLoadsEntry(s, e)
       PROVE  json'[o].mark = "absent"
  BY <1>21 DEF ScanLoadsEntry
<1>22. ASSUME NEW s \in Scans, NEW e \in Entries, ReconciledSent(s, e)
       PROVE  json'[o].mark = "absent"
  BY <1>22 DEF ReconciledSent
<1>23. ASSUME NEW s \in Scans, NEW e \in Entries, ReconciledNotSent(s, e)
       PROVE  json'[o].mark = "absent"
  BY <1>23 DEF ReconciledNotSent
<1>24. ASSUME NEW s \in Scans, NEW e \in Entries, ReconcileRefused(s, e)
       PROVE  json'[o].mark = "absent"
  BY <1>24 DEF ReconcileRefused, MoveToFailed, Write, NoFile, OInv, IInv, TypeOK
<1>25. ASSUME NEW s \in Scans, NEW e \in Entries, ReconcileUnresolved(s, e)
       PROVE  json'[o].mark = "absent"
  BY <1>25 DEF ReconcileUnresolved
<1>26. ASSUME NEW s \in Scans, NEW e \in Entries, ReplaySucceeds(s, e)
       PROVE  json'[o].mark = "absent"
  BY <1>26 DEF ReplaySucceeds
<1>27. ASSUME NEW s \in Scans, NEW e \in Entries, ReplaySuppressed(s, e)
       PROVE  json'[o].mark = "absent"
  BY <1>27 DEF ReplaySuppressed
<1>28. ASSUME NEW s \in Scans, NEW e \in Entries, ReplaySwallowed(s, e)
       PROVE  json'[o].mark = "absent"
  BY <1>28 DEF ReplaySwallowed
<1>29. ASSUME NEW s \in Scans, NEW e \in Entries, ReplayFails(s, e)
       PROVE  json'[o].mark = "absent"
  BY <1>29 DEF ReplayFails
<1>30. ASSUME NEW s \in Scans, NEW e \in Entries, ReplayRejected(s, e)
       PROVE  json'[o].mark = "absent"
  BY <1>30 DEF ReplayRejected, MoveToFailed, Write, NoFile, OInv, IInv, TypeOK
<1>31. ASSUME NEW s \in Scans, NEW e \in Entries, ScanMoveFails(s, e)
       PROVE  json'[o].mark = "absent"
  BY <1>31 DEF ScanMoveFails
<1>32. ASSUME NEW s \in Scans, NEW e \in Entries, ScanRecordsFailure(s, e)
       PROVE  json'[o].mark = "absent"
  <2>1. /\ o \notin clobbered /\ e \in current[s] /\ scan[s] = "failing"
        /\ o # e => json'[o] = json[o]
    BY <1>32 DEF ScanRecordsFailure, Write, OInv, IInv, TypeOK
  <2>2. o # e
    BY <2>1 DEF OInv, OwnInv, EntryOwned
  <2> QED
    BY <2>1, <2>2
<1>33. ASSUME NEW s \in Scans, NEW e \in Entries, ScanAcks(s, e)
       PROVE  json'[o].mark = "absent"
  BY <1>33 DEF ScanAcks, RenameToDelivered, Write, NoFile, OInv, IInv, TypeOK
<1>34. ASSUME NEW s \in Scans, NEW e \in Entries, ScanAckFails(s, e)
       PROVE  json'[o].mark = "absent"
  BY <1>34 DEF ScanAckFails
<1>35. ASSUME NEW s \in Scans, NEW e \in Entries, ScanUnlinks(s, e)
       PROVE  json'[o].mark = "absent"
  BY <1>35 DEF ScanUnlinks
<1>36. ASSUME NEW s \in Scans, NEW e \in Entries, DefersEntry(s, e)
       PROVE  json'[o].mark = "absent"
  BY <1>36, DefersHarmlessly DEF OInv, IInv
<1>37. CASE Crash
  BY <1>37 DEF Crash
<1>38. CASE UNCHANGED vars
  BY <1>38 DEF vars
<1> QED
  BY <1>1, <1>2, <1>3, <1>4, <1>5, <1>6, <1>7, <1>8, <1>9, <1>10,
     <1>11, <1>12, <1>13, <1>14, <1>15, <1>16, <1>17, <1>18, <1>19, <1>20,
     <1>21, <1>22, <1>23, <1>24, <1>25, <1>26, <1>27, <1>28, <1>29, <1>30,
     <1>31, <1>32, <1>33, <1>34, <1>35, <1>36, <1>37, <1>38
     DEF Next, LiveNext, ScanNext

\* delivery-queue-storage.ts: a read-modify-write never brings an acked or failed
\* entry back, but for a deferral that undoes a write.
THEOREM NoEntryReturns == Spec => NoResurrection
<1>1. OInv /\ [Next]_vars => [StaysGone]_vars
  BY NextStaysGone DEF StaysGone
<1>2. Spec => [][StaysGone]_vars
  BY <1>1, OwnInductive, PTL DEF Spec
<1> QED
  BY <1>2 DEF NoResurrection, StaysGone

-----------------------------------------------------------------------------
(* The mark of an attempt, from before the platform is called. *)

\* A live send that marked its attempt finds the mark in the file; once the platform has
\* accepted it, no file and no copy about to be written is without a mark, the live send
\* is past its attempt, and no scan replays the entry.
EntryMarked(e) ==
    /\ live[e] = "sending" /\ liveCopy[e].mark # "absent" => json[e].mark # "none"
    /\ e \in sentMarked =>
          /\ sends[e] > 0 /\ json[e].mark # "none"
          /\ live[e] \in {"confirming", "acking", "failing", "unlinking", "done"}
          /\ live[e] = "failing" => liveCopy[e].mark # "none"
          /\ \A s \in Scans : e \in current[s] =>
                /\ scan[s] # "replaying"
                /\ scan[s] = "failing" => scanCopy[s][e].mark # "none"

MarkInv == \A e \in Entries \ clobbered : EntryMarked(e)

MInv == IInv /\ MarkInv

\* No step takes a mark away from an entry that was sent, but a deferral.
LEMMA MarkedPreserved ==
    ASSUME MInv, [Next]_vars, NEW o \in Entries \ clobbered'
    PROVE  EntryMarked(o)'
<1> USE DEF EntryMarked, Exists, fileVars, liveVars, scanVars, history
<1>t. TypeOK /\ OneOwner
  BY DEF MInv, IInv
<1>o. o \notin clobbered => EntryMarked(o)
  BY DEF MInv, MarkInv
<1>u. \A r \in Scans : o \in current[r] =>
         /\ live[o] \in {"none", "writing", "done"}
         /\ \A q \in Scans : o \in current[q] => q = r
  BY <1>t DEF TypeOK, OneOwner, LiveOwns
<1>1. ASSUME NEW e \in Entries, EnqueueDelivery(e)
      PROVE  EntryMarked(o)'
  <2>1. /\ o \notin clobbered /\ UNCHANGED <<sends, sentMarked, scan, current, scanCopy>>
        /\ o # e => live'[o] = live[o] /\ liveCopy'[o] = liveCopy[o] /\ json'[o] = json[o]
        /\ live[e] = "none" /\ live'[e] = "writing"
    BY <1>t, <1>1 DEF TypeOK, EnqueueDelivery, LiveStep, Write
  <2> QED
    BY <1>o, <1>u, <2>1
<1>2. ASSUME NEW e \in Entries, LiveClaims(e)
      PROVE  EntryMarked(o)'
  <2>1. /\ o \notin clobbered /\ UNCHANGED <<sends, sentMarked, scan, current, scanCopy, json>>
        /\ o # e => live'[o] = live[o] /\ liveCopy'[o] = liveCopy[o] /\ json'[o] = json[o]
        /\ live[e] = "writing" /\ live'[e] \in {"claimed", "done"}
    BY <1>t, <1>2 DEF TypeOK, LiveClaims, LiveStep
  <2> QED
    BY <1>o, <1>u, <2>1
<1>3. ASSUME NEW e \in Entries, LiveReadsForMark(e)
      PROVE  EntryMarked(o)'
  <2>1. /\ o \notin clobbered /\ UNCHANGED <<sends, sentMarked, scan, current, scanCopy, json>>
        /\ o # e => live'[o] = live[o] /\ liveCopy'[o] = liveCopy[o] /\ json'[o] = json[o]
        /\ live[e] = "claimed" /\ live'[e] \in {"marking", "sending", "done"}
        /\ live'[e] = "sending" => liveCopy'[e].mark = "absent"
    BY <1>t, <1>3 DEF TypeOK, LiveReadsForMark, LiveStep
  <2> QED
    BY <1>o, <1>u, <2>1
<1>4. ASSUME NEW e \in Entries, LiveMarksStarted(e)
      PROVE  EntryMarked(o)'
  <2>1. /\ o \notin clobbered /\ UNCHANGED <<sends, sentMarked, scan, current, scanCopy>>
        /\ o # e => live'[o] = live[o] /\ liveCopy'[o] = liveCopy[o] /\ json'[o] = json[o]
        /\ live[e] = "marking" /\ live'[e] = "sending" /\ json'[e].mark = "started"
    BY <1>t, <1>4 DEF TypeOK, LiveMarksStarted, LiveStep, Write, StartMark, Files
  <2> QED
    BY <1>o, <1>u, <2>1
<1>5. ASSUME NEW e \in Entries, LiveMarkFails(e)
      PROVE  EntryMarked(o)'
  <2>1. /\ o \notin clobbered /\ UNCHANGED <<sends, sentMarked, scan, current, scanCopy, json>>
        /\ o # e => live'[o] = live[o] /\ liveCopy'[o] = liveCopy[o] /\ json'[o] = json[o]
        /\ live[e] = "marking" /\ live'[e] \in {"failing", "sending", "done"}
        /\ live'[e] = "sending" => liveCopy'[e].mark = "absent"
    BY <1>t, <1>5 DEF TypeOK, LiveMarkFails, LiveReadsForFailure, LiveStep, NoFile
  <2> QED
    BY <1>o, <1>u, <2>1
<1>6. ASSUME NEW e \in Entries, LiveSendSucceeds(e)
      PROVE  EntryMarked(o)'
  <2>0. /\ o # e => sends'[o] = sends[o] /\ (o \in sentMarked' <=> o \in sentMarked)
        /\ e \in sentMarked' =>
              e \in sentMarked \/ (sends'[e] > 0 /\ live[e] = "sending" /\ liveCopy[e].mark # "absent")
        /\ sends[e] > 0 => sends'[e] > 0
    <3>1. CASE UNCHANGED <<sends, sentMarked>>
      BY <3>1
    <3>2. CASE live[e] = "sending" /\ LiveAccepted(e)
      <4>1. /\ sends'[e] = sends[e] + 1 /\ \A x \in Entries \ {e} : sends'[x] = sends[x]
        BY <1>t, <3>2, AcceptedOnce DEF LiveAccepted
      <4>2. sends[e] \in Nat
        BY <1>t, DeliveryQueueAssumption DEF TypeOK
      <4> QED
        BY <3>2, <4>1, <4>2 DEF LiveAccepted
    <3> QED
      BY <1>t, <1>6, <3>1, <3>2 DEF TypeOK, LiveSendSucceeds
  <2>1. /\ o \notin clobbered /\ UNCHANGED <<scan, current, scanCopy, json>>
        /\ o # e => live'[o] = live[o] /\ liveCopy'[o] = liveCopy[o] /\ json'[o] = json[o]
        /\ live[e] = "sending" /\ live'[e] \in {"confirming", "acking", "done"}
    BY <1>t, <1>6 DEF TypeOK, LiveSendSucceeds, LiveStep
  <2> QED
    BY <1>o, <1>u, <2>1, <2>0
<1>7. ASSUME NEW e \in Entries, LiveMarksUnknown(e)
      PROVE  EntryMarked(o)'
  <2>1. /\ o \notin clobbered /\ UNCHANGED <<sends, sentMarked, scan, current, scanCopy>>
        /\ o # e => live'[o] = live[o] /\ liveCopy'[o] = liveCopy[o] /\ json'[o] = json[o]
        /\ live[e] = "confirming" /\ live'[e] = "acking" /\ json'[e].mark = "unknown"
    BY <1>t, <1>7 DEF TypeOK, LiveMarksUnknown, LiveStep, Write, Files
  <2> QED
    BY <1>o, <1>u, <2>1
<1>8. ASSUME NEW e \in Entries, LiveUnknownMarkFails(e)
      PROVE  EntryMarked(o)'
  <2>1. /\ o \notin clobbered /\ UNCHANGED <<sends, sentMarked, scan, current, scanCopy, json>>
        /\ o # e => live'[o] = live[o] /\ liveCopy'[o] = liveCopy[o] /\ json'[o] = json[o]
        /\ live[e] = "confirming" /\ live'[e] \in {"acking", "done"}
    BY <1>t, <1>8 DEF TypeOK, LiveUnknownMarkFails, LiveStep
  <2> QED
    BY <1>o, <1>u, <2>1
<1>9. ASSUME NEW e \in Entries, LiveSendFails(e)
      PROVE  EntryMarked(o)'
  <2>0. /\ o # e => sends'[o] = sends[o] /\ (o \in sentMarked' <=> o \in sentMarked)
        /\ e \in sentMarked' =>
              e \in sentMarked \/ (sends'[e] > 0 /\ live[e] = "sending" /\ liveCopy[e].mark # "absent")
        /\ sends[e] > 0 => sends'[e] > 0
    <3>1. CASE UNCHANGED <<sends, sentMarked>>
      BY <3>1
    <3>2. CASE live[e] = "sending" /\ LiveAccepted(e)
      <4>1. /\ sends'[e] = sends[e] + 1 /\ \A x \in Entries \ {e} : sends'[x] = sends[x]
        BY <1>t, <3>2, AcceptedOnce DEF LiveAccepted
      <4>2. sends[e] \in Nat
        BY <1>t, DeliveryQueueAssumption DEF TypeOK
      <4> QED
        BY <3>2, <4>1, <4>2 DEF LiveAccepted
    <3> QED
      BY <1>t, <1>9, <3>1, <3>2 DEF TypeOK, LiveSendFails
  <2>1. /\ o \notin clobbered /\ UNCHANGED <<scan, current, scanCopy, json>>
        /\ o # e => live'[o] = live[o] /\ liveCopy'[o] = liveCopy[o] /\ json'[o] = json[o]
        /\ live[e] \in {"claimed", "sending"} /\ live'[e] \in {"failing", "done"}
        /\ liveCopy'[e] = json[e]
    BY <1>t, <1>9 DEF TypeOK, LiveSendFails, LiveReadsForFailure
  <2> QED
    BY <1>o, <1>u, <2>1, <2>0
<1>10. ASSUME NEW e \in Entries, LiveRecordsFailure(e)
       PROVE  EntryMarked(o)'
  <2>1. Retried(liveCopy[e]).mark = liveCopy[e].mark
    BY <1>t, RetriedFile DEF TypeOK
  <2>2. /\ o \notin clobbered /\ UNCHANGED <<sends, sentMarked, scan, current, scanCopy>>
        /\ o # e => live'[o] = live[o] /\ liveCopy'[o] = liveCopy[o] /\ json'[o] = json[o]
        /\ live[e] = "failing" /\ live'[e] = "done"
        /\ json'[e].mark \in {json[e].mark, liveCopy[e].mark}
    BY <1>t, <1>10, <2>1 DEF TypeOK, LiveRecordsFailure, LiveStep, Write
  <2> QED
    BY <1>o, <1>u, <2>2
<1>11. ASSUME NEW e \in Entries, LiveSendCancelled(e)
       PROVE  EntryMarked(o)'
  <2>0. /\ o # e => sends'[o] = sends[o] /\ (o \in sentMarked' <=> o \in sentMarked)
        /\ e \in sentMarked' =>
              e \in sentMarked \/ (sends'[e] > 0 /\ live[e] = "sending" /\ liveCopy[e].mark # "absent")
        /\ sends[e] > 0 => sends'[e] > 0
    <3>1. CASE UNCHANGED <<sends, sentMarked>>
      BY <3>1
    <3>2. CASE live[e] = "sending" /\ LiveAccepted(e)
      <4>1. /\ sends'[e] = sends[e] + 1 /\ \A x \in Entries \ {e} : sends'[x] = sends[x]
        BY <1>t, <3>2, AcceptedOnce DEF LiveAccepted
      <4>2. sends[e] \in Nat
        BY <1>t, DeliveryQueueAssumption DEF TypeOK
      <4> QED
        BY <3>2, <4>1, <4>2 DEF LiveAccepted
    <3> QED
      BY <1>t, <1>11, <3>1, <3>2 DEF TypeOK, LiveSendCancelled
  <2>1. /\ o \notin clobbered /\ UNCHANGED <<scan, current, scanCopy, json>>
        /\ o # e => live'[o] = live[o] /\ liveCopy'[o] = liveCopy[o] /\ json'[o] = json[o]
        /\ live[e] \in {"claimed", "sending"} /\ live'[e] = "acking"
    BY <1>t, <1>11 DEF TypeOK, LiveSendCancelled
  <2> QED
    BY <1>o, <1>u, <2>1, <2>0
<1>12. ASSUME NEW e \in Entries, LiveAcks(e)
       PROVE  EntryMarked(o)'
  <2>1. /\ o \notin clobbered /\ UNCHANGED <<sends, sentMarked, scan, current, scanCopy>>
        /\ o # e => live'[o] = live[o] /\ liveCopy'[o] = liveCopy[o] /\ json'[o] = json[o]
        /\ live[e] = "acking" /\ live'[e] = "unlinking" /\ json'[e].mark = "absent"
    BY <1>t, <1>12 DEF TypeOK, LiveAcks, LiveStep, RenameToDelivered, Write, NoFile
  <2> QED
    BY <1>o, <1>u, <2>1
<1>13. ASSUME NEW e \in Entries, LiveAckFails(e)
       PROVE  EntryMarked(o)'
  <2>1. /\ o \notin clobbered /\ UNCHANGED <<sends, sentMarked, scan, current, scanCopy, json>>
        /\ o # e => live'[o] = live[o] /\ liveCopy'[o] = liveCopy[o] /\ json'[o] = json[o]
        /\ live[e] = "acking" /\ live'[e] = "done"
    BY <1>t, <1>13 DEF TypeOK, LiveAckFails, LiveStep
  <2> QED
    BY <1>o, <1>u, <2>1
<1>14. ASSUME NEW e \in Entries, LiveUnlinks(e)
       PROVE  EntryMarked(o)'
  <2>1. /\ o \notin clobbered /\ UNCHANGED <<sends, sentMarked, scan, current, scanCopy, json>>
        /\ o # e => live'[o] = live[o] /\ liveCopy'[o] = liveCopy[o] /\ json'[o] = json[o]
        /\ live[e] = "unlinking" /\ live'[e] = "done"
    BY <1>t, <1>14 DEF TypeOK, LiveUnlinks, LiveStep
  <2> QED
    BY <1>o, <1>u, <2>1
<1>15. ASSUME NEW s \in Scans, ScanLoads(s)
       PROVE  EntryMarked(o)'
  <2>1. /\ o \notin clobbered /\ UNCHANGED <<live, liveCopy, json, sends, sentMarked, current>>
        /\ \A r \in Scans \ {s} : scan'[r] = scan[r] /\ scanCopy'[r] = scanCopy[r]
        /\ scan'[s] \notin {"replaying", "failing"}
    BY <1>t, <1>15 DEF TypeOK, ScanLoads, ScanStep
  <2> QED
    BY <1>o, <1>u, <2>1
<1>16. ASSUME NEW s \in Scans, ScanEnds(s)
       PROVE  EntryMarked(o)'
  <2>1. /\ o \notin clobbered /\ UNCHANGED <<live, liveCopy, json, sends, sentMarked, current>>
        /\ \A r \in Scans \ {s} : scan'[r] = scan[r] /\ scanCopy'[r] = scanCopy[r]
        /\ scan'[s] \notin {"replaying", "failing"}
    BY <1>t, <1>16 DEF TypeOK, ScanEnds, ScanStep
  <2> QED
    BY <1>o, <1>u, <2>1
<1>17. ASSUME NEW s \in Scans, BudgetExceeded(s)
       PROVE  EntryMarked(o)'
  <2>1. /\ o \notin clobbered /\ UNCHANGED <<live, liveCopy, json, sends, sentMarked, current>>
        /\ \A r \in Scans \ {s} : scan'[r] = scan[r] /\ scanCopy'[r] = scanCopy[r]
        /\ scan'[s] \notin {"replaying", "failing"}
    BY <1>t, <1>17 DEF TypeOK, BudgetExceeded, ScanStep
  <2> QED
    BY <1>o, <1>u, <2>1
<1>18. ASSUME NEW s \in Scans, NEW e \in Entries, ScanPicks(s, e)
       PROVE  EntryMarked(o)'
  <2>1. /\ o \notin clobbered /\ UNCHANGED <<live, liveCopy, json, sends, sentMarked>>
        /\ \A r \in Scans \ {s} : /\ scan'[r] = scan[r] /\ current'[r] = current[r]
                                  /\ scanCopy'[r] = scanCopy[r]
        /\ scan'[s] \notin {"replaying", "failing"}
    BY <1>t, <1>18 DEF TypeOK, ScanPicks, ScanStep
  <2> QED
    BY <1>o, <1>u, <2>1
<1>19. ASSUME NEW s \in Scans, NEW e \in Entries, ScanSkips(s, e)
       PROVE  EntryMarked(o)'
  <2>1. /\ o \notin clobbered /\ UNCHANGED <<live, liveCopy, json, sends, sentMarked>>
        /\ \A r \in Scans \ {s} : /\ scan'[r] = scan[r] /\ current'[r] = current[r]
                                  /\ scanCopy'[r] = scanCopy[r]
        /\ current'[s] = {}
    BY <1>t, <1>19 DEF TypeOK, ScanSkips, Release
  <2> QED
    BY <1>o, <1>u, <2>1
<1>20. ASSUME NEW s \in Scans, NEW e \in Entries, ScanGivesUp(s, e)
       PROVE  EntryMarked(o)'
  <2>1. /\ o \notin clobbered /\ UNCHANGED <<live, liveCopy, sends, sentMarked>>
        /\ \A r \in Scans \ {s} : /\ scan'[r] = scan[r] /\ current'[r] = current[r]
                                  /\ scanCopy'[r] = scanCopy[r]
        /\ current'[s] = {}
        /\ json'[o].mark \in {json[o].mark, "absent"}
    BY <1>t, <1>20 DEF TypeOK, ScanGivesUp, MoveToFailed, Write, Release, NoFile
  <2> QED
    BY <1>o, <1>u, <2>1
<1>21. ASSUME NEW s \in Scans, NEW e \in Entries, ScanLoadsEntry(s, e)
       PROVE  EntryMarked(o)'
  <2>1. /\ o \notin clobbered /\ UNCHANGED <<live, liveCopy, json, sends, sentMarked>>
        /\ \A r \in Scans \ {s} : /\ scan'[r] = scan[r] /\ current'[r] = current[r]
                                  /\ scanCopy'[r] = scanCopy[r]
        /\ e \in current[s] /\ UNCHANGED current
        /\ scan'[s] \in {"replaying", "reconciling"}
        /\ scan'[s] = "replaying" => json[e].mark = "none"
    BY <1>t, <1>21 DEF TypeOK, ScanLoadsEntry, ScanStep, Blind
  <2>2. current[s] = {e}
    BY <1>t, <2>1, CurrentOnly
  <2> QED
    BY <1>o, <1>u, <2>1, <2>2
<1>22. ASSUME NEW s \in Scans, NEW e \in Entries, ReconciledSent(s, e)
       PROVE  EntryMarked(o)'
  <2>1. /\ o \notin clobbered /\ UNCHANGED <<live, liveCopy, json, sends, sentMarked>>
        /\ \A r \in Scans \ {s} : /\ scan'[r] = scan[r] /\ current'[r] = current[r]
                                  /\ scanCopy'[r] = scanCopy[r]
        /\ scan'[s] \notin {"replaying", "failing"}
    BY <1>t, <1>22 DEF TypeOK, ReconciledSent, ScanStep
  <2> QED
    BY <1>o, <1>u, <2>1
<1>23. ASSUME NEW s \in Scans, NEW e \in Entries, ReconciledNotSent(s, e)
       PROVE  EntryMarked(o)'
  <2>1. /\ o \notin clobbered /\ UNCHANGED <<live, liveCopy, json, sends, sentMarked>>
        /\ \A r \in Scans \ {s} : /\ scan'[r] = scan[r] /\ current'[r] = current[r]
                                  /\ scanCopy'[r] = scanCopy[r]
        /\ e \in current[s] /\ UNCHANGED current
        /\ scan'[s] = "replaying" /\ sends[e] = 0
    BY <1>t, <1>23 DEF TypeOK, ReconciledNotSent, ScanStep
  <2>2. current[s] = {e}
    BY <1>t, <2>1, CurrentOnly
  <2> QED
    BY <1>o, <1>u, <2>1, <2>2
<1>24. ASSUME NEW s \in Scans, NEW e \in Entries, ReconcileRefused(s, e)
       PROVE  EntryMarked(o)'
  <2>1. /\ o \notin clobbered /\ UNCHANGED <<live, liveCopy, sends, sentMarked>>
        /\ \A r \in Scans \ {s} : /\ scan'[r] = scan[r] /\ current'[r] = current[r]
                                  /\ scanCopy'[r] = scanCopy[r]
        /\ current'[s] = {}
        /\ json'[o].mark \in {json[o].mark, "absent"}
    BY <1>t, <1>24 DEF TypeOK, ReconcileRefused, MoveToFailed, Write, Release, NoFile
  <2> QED
    BY <1>o, <1>u, <2>1
<1>25. ASSUME NEW s \in Scans, NEW e \in Entries, ReconcileUnresolved(s, e)
       PROVE  EntryMarked(o)'
  <2>1. /\ o \notin clobbered /\ e \in current[s] /\ ScanReadsForFailure(s, e)
        /\ UNCHANGED <<live, liveCopy, json, sentMarked, sends>>
    BY <1>t, <1>25 DEF TypeOK, ReconcileUnresolved
  <2>2. current[s] = {e}
    BY <1>t, <2>1, CurrentOnly
  <2>3. /\ \A r \in Scans \ {s} : /\ scan'[r] = scan[r] /\ current'[r] = current[r]
                                  /\ scanCopy'[r] = scanCopy[r]
        /\ \/ scan'[s] = "failing" /\ current'[s] = {e} /\ scanCopy'[s][e] = json[e]
           \/ current'[s] = {}
    BY <1>t, <2>1, <2>2, ReadForFailure
  <2> QED
    BY <1>o, <1>u, <2>1, <2>2, <2>3
<1>26. ASSUME NEW s \in Scans, NEW e \in Entries, ReplaySucceeds(s, e)
       PROVE  EntryMarked(o)'
  <2>0. \/ UNCHANGED sends
        \/ /\ e \in current[s] /\ scan[s] = "replaying"
           /\ o # e => sends'[o] = sends[o]
    <3>1. CASE UNCHANGED sends
      BY <3>1
    <3>2. CASE scan[s] = "replaying" /\ Accepted(e)
      BY <1>t, <1>26, <3>2, AcceptedOnce DEF TypeOK, ReplaySucceeds
    <3> QED
      BY <1>t, <1>26, <3>1, <3>2 DEF TypeOK, ReplaySucceeds, ScanStep
  <2>1. /\ o \notin clobbered /\ UNCHANGED <<live, liveCopy, json, sentMarked>>
        /\ \A r \in Scans \ {s} : /\ scan'[r] = scan[r] /\ current'[r] = current[r]
                                  /\ scanCopy'[r] = scanCopy[r]
        /\ scan'[s] \notin {"replaying", "failing"}
    BY <1>t, <1>26 DEF TypeOK, ReplaySucceeds, ScanStep
  <2> QED
    BY <1>o, <1>u, <2>1, <2>0
<1>27. ASSUME NEW s \in Scans, NEW e \in Entries, ReplaySuppressed(s, e)
       PROVE  EntryMarked(o)'
  <2>1. /\ o \notin clobbered /\ UNCHANGED <<live, liveCopy, json, sends, sentMarked>>
        /\ \A r \in Scans \ {s} : /\ scan'[r] = scan[r] /\ current'[r] = current[r]
                                  /\ scanCopy'[r] = scanCopy[r]
        /\ scan'[s] \notin {"replaying", "failing"}
    BY <1>t, <1>27 DEF TypeOK, ReplaySuppressed, ScanStep
  <2> QED
    BY <1>o, <1>u, <2>1
<1>28. ASSUME NEW s \in Scans, NEW e \in Entries, ReplaySwallowed(s, e)
       PROVE  EntryMarked(o)'
  <2>0. \/ UNCHANGED sends
        \/ /\ e \in current[s] /\ scan[s] = "replaying"
           /\ o # e => sends'[o] = sends[o]
    <3>1. CASE UNCHANGED sends
      BY <3>1
    <3>2. CASE scan[s] = "replaying" /\ Accepted(e)
      BY <1>t, <1>28, <3>2, AcceptedOnce DEF TypeOK, ReplaySwallowed
    <3> QED
      BY <1>t, <1>28, <3>1, <3>2 DEF TypeOK, ReplaySwallowed, ScanStep
  <2>1. /\ o \notin clobbered /\ UNCHANGED <<live, liveCopy, json, sentMarked>>
        /\ \A r \in Scans \ {s} : /\ scan'[r] = scan[r] /\ current'[r] = current[r]
                                  /\ scanCopy'[r] = scanCopy[r]
        /\ scan'[s] \notin {"replaying", "failing"}
    BY <1>t, <1>28 DEF TypeOK, ReplaySwallowed, ScanStep
  <2> QED
    BY <1>o, <1>u, <2>1, <2>0
<1>29. ASSUME NEW s \in Scans, NEW e \in Entries, ReplayFails(s, e)
       PROVE  EntryMarked(o)'
  <2>0. \/ UNCHANGED sends
        \/ /\ e \in current[s] /\ scan[s] = "replaying"
           /\ o # e => sends'[o] = sends[o]
    <3>1. CASE UNCHANGED sends
      BY <3>1
    <3>2. CASE scan[s] = "replaying" /\ Accepted(e)
      BY <1>t, <1>29, <3>2, AcceptedOnce DEF TypeOK, ReplayFails
    <3> QED
      BY <1>t, <1>29, <3>1, <3>2 DEF TypeOK, ReplayFails
  <2>1. /\ o \notin clobbered /\ e \in current[s] /\ ScanReadsForFailure(s, e)
        /\ UNCHANGED <<live, liveCopy, json, sentMarked>>
    BY <1>t, <1>29 DEF TypeOK, ReplayFails
  <2>2. current[s] = {e}
    BY <1>t, <2>1, CurrentOnly
  <2>3. /\ \A r \in Scans \ {s} : /\ scan'[r] = scan[r] /\ current'[r] = current[r]
                                  /\ scanCopy'[r] = scanCopy[r]
        /\ \/ scan'[s] = "failing" /\ current'[s] = {e} /\ scanCopy'[s][e] = json[e]
           \/ current'[s] = {}
    BY <1>t, <2>1, <2>2, ReadForFailure
  <2> QED
    BY <1>o, <1>u, <2>1, <2>2, <2>3, <2>0
<1>30. ASSUME NEW s \in Scans, NEW e \in Entries, ReplayRejected(s, e)
       PROVE  EntryMarked(o)'
  <2>0. \/ UNCHANGED sends
        \/ /\ e \in current[s] /\ scan[s] = "replaying"
           /\ o # e => sends'[o] = sends[o]
    <3>1. CASE UNCHANGED sends
      BY <3>1
    <3>2. CASE scan[s] = "replaying" /\ Accepted(e)
      BY <1>t, <1>30, <3>2, AcceptedOnce DEF TypeOK, ReplayRejected
    <3> QED
      BY <1>t, <1>30, <3>1, <3>2 DEF TypeOK, ReplayRejected
  <2>1. /\ o \notin clobbered /\ UNCHANGED <<live, liveCopy, sentMarked>>
        /\ \A r \in Scans \ {s} : /\ scan'[r] = scan[r] /\ current'[r] = current[r]
                                  /\ scanCopy'[r] = scanCopy[r]
        /\ current'[s] = {}
        /\ json'[o].mark \in {json[o].mark, "absent"}
    BY <1>t, <1>30 DEF TypeOK, ReplayRejected, MoveToFailed, Write, Release, NoFile
  <2>2. e \in current[s] /\ scan[s] = "replaying"
    BY <1>t, <1>30 DEF TypeOK, ReplayRejected
  <2>3. o = e => e \notin sentMarked /\ live[e] # "sending"
    BY <1>o, <1>u, <2>1, <2>2
  <2>4. \A r \in Scans : o \in current'[r] =>
            o \in current[r] /\ scan'[r] = scan[r] /\ scanCopy'[r] = scanCopy[r]
    BY <1>o, <1>u, <2>1
  <2>8. CASE o = e
    BY <1>o, <1>u, <2>8, <2>1, <2>0, <2>2, <2>3, <2>4
  <2>9. CASE o # e
    BY <1>o, <1>u, <2>9, <2>1, <2>0, <2>2, <2>3, <2>4
  <2> QED
    BY <2>8, <2>9
<1>31. ASSUME NEW s \in Scans, NEW e \in Entries, ScanMoveFails(s, e)
       PROVE  EntryMarked(o)'
  <2>0. \/ UNCHANGED sends
        \/ /\ e \in current[s] /\ scan[s] = "replaying"
           /\ o # e => sends'[o] = sends[o]
    <3>1. CASE UNCHANGED sends
      BY <3>1
    <3>2. CASE scan[s] = "replaying" /\ Accepted(e)
      BY <1>t, <1>31, <3>2, AcceptedOnce DEF TypeOK, ScanMoveFails
    <3> QED
      BY <1>t, <1>31, <3>1, <3>2 DEF TypeOK, ScanMoveFails
  <2>1. /\ o \notin clobbered /\ UNCHANGED <<live, liveCopy, json, sentMarked>>
        /\ \A r \in Scans \ {s} : /\ scan'[r] = scan[r] /\ current'[r] = current[r]
                                  /\ scanCopy'[r] = scanCopy[r]
        /\ current'[s] = {}
    BY <1>t, <1>31 DEF TypeOK, ScanMoveFails, Release
  <2>8. CASE o = e
    BY <1>o, <1>u, <2>8, <2>1, <2>0
  <2>9. CASE o # e
    BY <1>o, <1>u, <2>9, <2>1, <2>0
  <2> QED
    BY <2>8, <2>9
<1>32. ASSUME NEW s \in Scans, NEW e \in Entries, ScanRecordsFailure(s, e)
       PROVE  EntryMarked(o)'
  <2>1. Retried(scanCopy[s][e]).mark = scanCopy[s][e].mark
    BY <1>t, RetriedFile DEF TypeOK
  <2>2. /\ o \notin clobbered /\ UNCHANGED <<live, liveCopy, sends, sentMarked>>
        /\ e \in current[s] /\ scan[s] = "failing" /\ current'[s] = {}
        /\ \A r \in Scans \ {s} : /\ scan'[r] = scan[r] /\ current'[r] = current[r]
                                  /\ scanCopy'[r] = scanCopy[r]
    BY <1>t, <1>32 DEF TypeOK, ScanRecordsFailure, Release
  <2>3. /\ o # e => json'[o] = json[o]
        /\ json'[e].mark \in {json[e].mark, scanCopy[s][e].mark}
    BY <1>t, <1>32, <2>1 DEF TypeOK, ScanRecordsFailure, Write
  <2>4. o = e => live[o] # "sending"
    BY <1>o, <1>u, <2>2
  <2>5. o = e => \A r \in Scans : o \notin current'[r]
    BY <1>o, <1>u, <2>2
  <2>6. \A r \in Scans : o \in current'[r] =>
            o \in current[r] /\ scan'[r] = scan[r] /\ scanCopy'[r] = scanCopy[r]
    BY <1>o, <1>u, <2>2
  <2>8. CASE o = e
    BY <1>o, <1>u, <2>8, <2>2, <2>3, <2>4, <2>5, <2>6
  <2>9. CASE o # e
    BY <1>o, <1>u, <2>9, <2>2, <2>3, <2>4, <2>5, <2>6
  <2> QED
    BY <2>8, <2>9
<1>33. ASSUME NEW s \in Scans, NEW e \in Entries, ScanAcks(s, e)
       PROVE  EntryMarked(o)'
  <2>1. /\ o \notin clobbered /\ UNCHANGED <<live, liveCopy, sends, sentMarked>>
        /\ \A r \in Scans \ {s} : /\ scan'[r] = scan[r] /\ current'[r] = current[r]
                                  /\ scanCopy'[r] = scanCopy[r]
        /\ scan'[s] \notin {"replaying", "failing"}
        /\ json'[o].mark \in {json[o].mark, "absent"}
    BY <1>t, <1>33 DEF TypeOK, ScanAcks, ScanStep, RenameToDelivered, Write, NoFile
  <2> QED
    BY <1>o, <1>u, <2>1
<1>34. ASSUME NEW s \in Scans, NEW e \in Entries, ScanAckFails(s, e)
       PROVE  EntryMarked(o)'
  <2>1. /\ o \notin clobbered /\ e \in current[s] /\ ScanReadsForFailure(s, e)
        /\ UNCHANGED <<live, liveCopy, json, sentMarked, sends>>
    BY <1>t, <1>34 DEF TypeOK, ScanAckFails
  <2>2. current[s] = {e}
    BY <1>t, <2>1, CurrentOnly
  <2>3. /\ \A r \in Scans \ {s} : /\ scan'[r] = scan[r] /\ current'[r] = current[r]
                                  /\ scanCopy'[r] = scanCopy[r]
        /\ \/ scan'[s] = "failing" /\ current'[s] = {e} /\ scanCopy'[s][e] = json[e]
           \/ current'[s] = {}
    BY <1>t, <2>1, <2>2, ReadForFailure
  <2> QED
    BY <1>o, <1>u, <2>1, <2>2, <2>3
<1>35. ASSUME NEW s \in Scans, NEW e \in Entries, ScanUnlinks(s, e)
       PROVE  EntryMarked(o)'
  <2>1. /\ o \notin clobbered /\ UNCHANGED <<live, liveCopy, json, sends, sentMarked>>
        /\ \A r \in Scans \ {s} : /\ scan'[r] = scan[r] /\ current'[r] = current[r]
                                  /\ scanCopy'[r] = scanCopy[r]
        /\ current'[s] = {}
    BY <1>t, <1>35 DEF TypeOK, ScanUnlinks, Release
  <2> QED
    BY <1>o, <1>u, <2>1
<1>36. ASSUME NEW s \in Scans, NEW e \in Entries, DefersEntry(s, e)
       PROVE  EntryMarked(o)'
  <2>1. json'[o].mark = json[o].mark /\ o \notin clobbered
    BY <1>t, <1>36, DefersHarmlessly
  <2>2. /\ UNCHANGED <<live, liveCopy, sends, sentMarked, current>> /\ current[s] = {}
        /\ \A r \in Scans \ {s} : scan'[r] = scan[r] /\ scanCopy'[r] = scanCopy[r]
    BY <1>t, <1>36 DEF TypeOK, DefersEntry
  <2>8. CASE o = e
    BY <1>o, <1>u, <2>8, <2>1, <2>2
  <2>9. CASE o # e
    BY <1>o, <1>u, <2>9, <2>1, <2>2
  <2> QED
    BY <2>8, <2>9
<1>37. CASE Crash
  BY <1>t, <1>o, <1>u, <1>37 DEF TypeOK, Crash
<1>38. CASE UNCHANGED vars
  BY <1>t, <1>o, <1>38 DEF TypeOK, vars
<1> QED
  BY <1>1, <1>2, <1>3, <1>4, <1>5, <1>6, <1>7, <1>8, <1>9, <1>10,
     <1>11, <1>12, <1>13, <1>14, <1>15, <1>16, <1>17, <1>18, <1>19, <1>20,
     <1>21, <1>22, <1>23, <1>24, <1>25, <1>26, <1>27, <1>28, <1>29, <1>30,
     <1>31, <1>32, <1>33, <1>34, <1>35, <1>36, <1>37, <1>38
     DEF Next, LiveNext, ScanNext

\* At first nothing is sent.
LEMMA MarkInit == Init => MarkInv
BY DEF Init, MarkInv, EntryMarked

\* The invariant holds in every state.
LEMMA MarkInductive == Spec => []MInv
<1>1. Init => MInv
  BY InitInv, MarkInit DEF MInv
<1>2. MInv /\ [Next]_vars => MInv'
  <2> SUFFICES ASSUME MInv, [Next]_vars
               PROVE  MInv'
    OBVIOUS
  <2>1. IInv'
    BY NextPreserves DEF MInv
  <2>2. MarkInv'
    BY MarkedPreserved DEF MarkInv
  <2> QED
    BY <2>1, <2>2 DEF MInv
<1> QED
  BY <1>1, <1>2, PTL DEF Spec

\* What MarkedSendNotReplayed says of one step.
NotSentAgain == \A e \in sentMarked \ clobbered : sends'[e] = sends[e]

\* The platform accepts an entry from a live send under way or from a replay.
LEMMA NextNotSentAgain ==
    ASSUME MInv, [Next]_vars, NEW o \in sentMarked \ clobbered
    PROVE  sends'[o] = sends[o]
<1>0. /\ o \in Entries /\ live[o] \notin {"claimed", "sending"}
      /\ \A s \in Scans : o \in current[s] => scan[s] # "replaying"
  BY DEF MInv, IInv, TypeOK, MarkInv, EntryMarked
<1>1. ASSUME NEW e \in Entries, o # e, Accepted(e)
      PROVE  sends'[o] = sends[o]
  BY <1>0, <1>1 DEF Accepted, MInv, IInv, TypeOK
<1>2. ASSUME NEW e \in Entries,
             LiveSendSucceeds(e) \/ LiveSendFails(e) \/ LiveSendCancelled(e)
      PROVE  sends'[o] = sends[o]
  BY <1>0, <1>1, <1>2 DEF LiveSendSucceeds, LiveSendFails, LiveSendCancelled, LiveAccepted
<1>3. ASSUME NEW e \in Entries,
             EnqueueDelivery(e) \/ LiveClaims(e) \/ LiveReadsForMark(e) \/ LiveMarksStarted(e)
             \/ LiveMarkFails(e) \/ LiveMarksUnknown(e) \/ LiveUnknownMarkFails(e)
             \/ LiveRecordsFailure(e) \/ LiveAcks(e) \/ LiveAckFails(e) \/ LiveUnlinks(e)
      PROVE  sends'[o] = sends[o]
  BY <1>3 DEF EnqueueDelivery, LiveClaims, LiveReadsForMark, LiveMarksStarted, LiveMarkFails,
     LiveMarksUnknown, LiveUnknownMarkFails, LiveRecordsFailure, LiveAcks, LiveAckFails, LiveUnlinks
<1>4. ASSUME NEW s \in Scans, ScanLoads(s) \/ ScanEnds(s) \/ BudgetExceeded(s)
      PROVE  sends'[o] = sends[o]
  BY <1>4 DEF ScanLoads, ScanEnds, BudgetExceeded
<1>5. ASSUME NEW s \in Scans, NEW e \in Entries,
             ReplaySucceeds(s, e) \/ ReplaySwallowed(s, e) \/ ReplayFails(s, e)
             \/ ReplayRejected(s, e) \/ ScanMoveFails(s, e)
      PROVE  sends'[o] = sends[o]
  BY <1>0, <1>1, <1>5 DEF ReplaySucceeds, ReplaySwallowed, ReplayFails, ReplayRejected,
     ScanMoveFails, ScanStep
<1>6. ASSUME NEW s \in Scans, NEW e \in Entries,
             ScanPicks(s, e) \/ ScanSkips(s, e) \/ ScanGivesUp(s, e) \/ ScanLoadsEntry(s, e)
             \/ ReconciledSent(s, e) \/ ReconciledNotSent(s, e) \/ ReconcileRefused(s, e)
             \/ ReconcileUnresolved(s, e) \/ ReplaySuppressed(s, e) \/ ScanRecordsFailure(s, e)
             \/ ScanAcks(s, e) \/ ScanAckFails(s, e) \/ ScanUnlinks(s, e) \/ DefersEntry(s, e)
      PROVE  sends'[o] = sends[o]
  BY <1>6 DEF ScanPicks, ScanSkips, ScanGivesUp, ScanLoadsEntry, ReconciledSent,
     ReconciledNotSent, ReconcileRefused, ReconcileUnresolved, ReplaySuppressed,
     ScanRecordsFailure, ScanAcks, ScanAckFails, ScanUnlinks, DefersEntry
<1>7. CASE Crash
  BY <1>7 DEF Crash
<1>8. CASE UNCHANGED vars
  BY <1>8 DEF vars
<1> QED
  BY <1>2, <1>3, <1>4, <1>5, <1>6, <1>7, <1>8 DEF Next, LiveNext, ScanNext

\* deliver.ts and delivery-queue-recovery.ts: a live send that marked its attempt and
\* was accepted is never replayed, for any crashes, scans and failures, unless a
\* deferral undid its mark.
THEOREM MarkedSendsNotReplayed == Spec => MarkedSendNotReplayed
<1>1. MInv /\ [Next]_vars => [NotSentAgain]_vars
  BY NextNotSentAgain DEF NotSentAgain
<1>2. Spec => [][NotSentAgain]_vars
  BY <1>1, MarkInductive, PTL DEF Spec
<1> QED
  BY <1>2 DEF MarkedSendNotReplayed, NotSentAgain
=============================================================================
