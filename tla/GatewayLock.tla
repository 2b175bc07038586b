---------------------------- MODULE GatewayLock ----------------------------
(***************************************************************************)
(* Gateway processes of one host and configuration that compete for the    *)
(* lock file (src/src/infra/gateway-lock.ts) and then for the port, all on *)
(* the bind address of that configuration.                                 *)
(*                                                                         *)
(* Every file operation and the probe of the port is awaited, so each is a *)
(* step and processes interleave between any two; fs.rm removes whatever   *)
(* file has the name by then. A process is crashed at any step. A process  *)
(* id is never reused here: the start time in the payload tells a process  *)
(* from an earlier one with its pid (Linux). The probe of the port goes to *)
(* 127.0.0.1 and may stay unanswered although a gateway is up.             *)
(***************************************************************************)
EXTENDS Naturals

CONSTANTS
    Procs,      \* gateway processes, each started once
    Nobody      \* not a process

ASSUME GatewayLockAssumption == Nobody \notin Procs

VARIABLES
    at,         \* where acquireGatewayLock and the process around it are
    file,       \* the lock file
    listener,   \* who listens on the port
    seen,       \* the owner and the age of the payload this round read
    rounds,     \* rounds this attempt has behind it, up to MinRounds
    \* history variables
    alone,      \* nobody else has been running since the attempt began
    blankSeen,  \* the attempt met a file without a payload
    upSince,    \* who has listened since this round read the file and did not
                \* leave its probe unanswered
    evicted     \* processes whose lock file was removed by somebody else

historyVars == <<alone, blankSeen, upSince, evicted>>
vars == <<at, file, listener, seen, rounds, alone, blankSeen, upSince, evicted>>

\* timeoutMs is never spent in the first round: a probe of the port takes at most
\* a fifth of it.
MinRounds == 2

Attempt == {"opening", "writing", "reading", "probing", "statting", "removing", "waiting"}
Running == Attempt \cup {"holding", "serving", "releasing"}
Over == {"off", "refused", "gone"}

\* The file's creator, whether it still lacks its payload, and whether it is
\* older than staleMs.
NoFile == [owner |-> Nobody, blank |-> FALSE, old |-> FALSE]
NoPayload == [owner |-> Nobody, old |-> FALSE]
Files == [owner : Procs, blank : BOOLEAN, old : BOOLEAN] \cup {NoFile}

\* The types, and that a process listens exactly while it serves.
TypeOK ==
    /\ at \in [Procs -> Running \cup Over]
    /\ file \in Files
    /\ listener \in Procs \cup {Nobody}
    /\ seen \in [Procs -> [owner : Procs \cup {Nobody}, old : BOOLEAN]]
    /\ rounds \in [Procs -> 0..MinRounds]
    /\ alone \in [Procs -> BOOLEAN]
    /\ blankSeen \in [Procs -> BOOLEAN]
    /\ upSince \in [Procs -> Procs \cup {Nobody}]
    /\ evicted \subseteq Procs
    /\ \A p \in Procs : listener = p <=> at[p] = "serving"

Init ==
    /\ at = [p \in Procs |-> "off"]
    /\ file = NoFile
    /\ listener = Nobody
    /\ seen = [p \in Procs |-> NoPayload]
    /\ rounds = [p \in Procs |-> 0]
    /\ alone = [p \in Procs |-> FALSE]
    /\ blankSeen = [p \in Procs |-> FALSE]
    /\ upSince = [p \in Procs |-> Nobody]
    /\ evicted = {}

Alive(p) == at[p] \in Running

Step(p, from, to) ==
    /\ at[p] = from
    /\ at' = [at EXCEPT ![p] = to]

\* Removing the file by its name evicts whoever else created it and counts on it.
EvictedBy(p) ==
    IF /\ file.owner \in Procs \ {p}
       /\ at[file.owner] \in {"writing", "holding", "serving", "releasing"}
    THEN evicted \cup {file.owner} ELSE evicted

-----------------------------------------------------------------------------
(* acquireGatewayLock *)

\* The start of the attempt; to the others p is no longer absent.
BeginAttempt(p) ==
    /\ rounds' = [rounds EXCEPT ![p] = 0]
    /\ alone' = [q \in Procs |-> IF q = p THEN \A o \in Procs \ {p} : ~Alive(o) ELSE FALSE]
    /\ blankSeen' = [blankSeen EXCEPT ![p] = FALSE]

StartProcess(p) ==
    /\ Step(p, "off", "opening")
    /\ BeginAttempt(p)
    /\ UNCHANGED <<file, listener, seen, upSince, evicted>>

\* fs.open(lockPath, "wx") creates an empty file or fails with EEXIST.
CreateFile(p) ==
    /\ file = NoFile
    /\ Step(p, "opening", "writing")
    /\ file' = [owner |-> p, blank |-> TRUE, old |-> FALSE]
    /\ UNCHANGED <<listener, seen, rounds, historyVars>>

FileExists(p) ==
    /\ file # NoFile
    /\ Step(p, "opening", "reading")
    /\ UNCHANGED <<file, listener, seen, rounds, historyVars>>

\* handle.writeFile, which also renews the file's time; the file may have lost
\* its name in between.
WritePayload(p) ==
    /\ Step(p, "writing", "holding")
    /\ file' = IF file.owner = p THEN [file EXCEPT !.blank = FALSE, !.old = FALSE] ELSE file
    /\ UNCHANGED <<listener, seen, rounds, historyVars>>

\* A failed write is a GatewayLockError; the empty file stays.
WriteFails(p) ==
    /\ Step(p, "writing", "gone")
    /\ UNCHANGED <<file, listener, seen, rounds, historyVars>>

\* readLockPayload: null for a file that is gone or has no payload yet. Then the
\* port and the pid are not looked at.
ReadLockPayload(p) ==
    LET payload == IF file.blank THEN NoPayload ELSE [owner |-> file.owner, old |-> file.old]
    IN  /\ Step(p, "reading", IF payload = NoPayload THEN "statting" ELSE "probing")
        /\ seen' = [seen EXCEPT ![p] = payload]
        /\ blankSeen' = [blankSeen EXCEPT ![p] = blankSeen[p] \/ file.blank]
        /\ upSince' = [upSince EXCEPT ![p] = listener]
        /\ UNCHANGED <<file, listener, rounds, alone, evicted>>

\* checkPortFree: does the probe connect? Not when nobody listens; and perhaps not
\* when somebody does: on another address than 127.0.0.1 (the binds tailnet and
\* custom), or too slowly for the probe's timeout, which counts as a free port.
ProbeAnswers == IF listener = Nobody THEN {FALSE} ELSE BOOLEAN

\* Mutants of OwnerStatus: the probe's answer is inverted; a recorded owner is
\* taken to be alive.
OwnerStatusInverted(owner, answered) ==
    IF answered THEN {"dead"}
    ELSE IF Alive(owner) THEN {"alive"} ELSE {"dead", "unknown"}
OwnerStatusTrusting(owner, answered) == {"alive"}

\* resolveGatewayOwnerStatus: a port without an answer, or a pid or start time that
\* is gone, means the owner is dead; a process that goes away between the check of
\* its pid and the read of its start time is unknown.
OwnerStatus(owner, answered) ==
    IF ~answered THEN {"dead"}
    ELSE IF Alive(owner) THEN {"alive"} ELSE {"dead", "unknown"}

\* The probe of the port and the checks of the pid that follow it. Only an owner
\* that stays unknown leaves the payload's age to look at.
JudgeOwner(p) ==
    /\ at[p] = "probing"
    /\ \E answered \in ProbeAnswers :
          /\ upSince' = [upSince EXCEPT ![p] = IF answered THEN @ ELSE Nobody]
          /\ \E status \in OwnerStatus(seen[p].owner, answered) :
                /\ Step(p, "probing", CASE status = "dead" -> "removing"
                                        [] status = "alive" -> "waiting"
                                        [] status = "unknown" -> "statting")
                /\ seen' = IF status = "unknown" THEN seen ELSE [seen EXCEPT ![p] = NoPayload]
    /\ UNCHANGED <<file, listener, rounds, alone, blankSeen, evicted>>

\* Otherwise the age of the payload or of the file decides; a file that is gone by
\* now is not stale. An attempt is over before a payload it read grows old.
StatFile(p) ==
    /\ Step(p, "statting", IF seen[p].old \/ file.old THEN "removing" ELSE "waiting")
    /\ seen' = [seen EXCEPT ![p] = NoPayload]
    /\ UNCHANGED <<file, listener, rounds, historyVars>>

EndRound(p) == rounds' = [rounds EXCEPT ![p] = IF @ < MinRounds THEN @ + 1 ELSE @]

\* fs.rm and the next round.
ReclaimFile(p) ==
    /\ Step(p, "removing", "opening")
    /\ file' = NoFile
    /\ evicted' = EvictedBy(p)
    /\ EndRound(p)
    /\ UNCHANGED <<listener, seen, alone, blankSeen, upSince>>

\* sleep(pollIntervalMs) and the next round.
PollAgain(p) ==
    /\ Step(p, "waiting", "opening")
    /\ EndRound(p)
    /\ UNCHANGED <<file, listener, seen, historyVars>>

\* GatewayLockError: gateway already running.
TimesOut(p) ==
    /\ rounds[p] >= MinRounds
    /\ Step(p, "opening", "refused")
    /\ UNCHANGED <<file, listener, seen, rounds, historyVars>>

-----------------------------------------------------------------------------
(* The process around it *)

BindPort(p) ==
    /\ listener = Nobody
    /\ Step(p, "holding", "serving")
    /\ listener' = p
    /\ UNCHANGED <<file, seen, rounds, historyVars>>

\* EADDRINUSE, or another failure of the first start: release and exit.
BindFails(p) ==
    /\ listener # Nobody
    /\ Step(p, "holding", "releasing")
    /\ UNCHANGED <<file, listener, seen, rounds, historyVars>>

\* Mutant of CloseServer: the port is not given up.
CloseServerStuck(p) ==
    /\ Step(p, "serving", "releasing")
    /\ UNCHANGED <<file, listener, seen, rounds, historyVars>>

\* A stop or a restart: the server is closed before the lock is released.
CloseServer(p) ==
    /\ Step(p, "serving", "releasing")
    /\ listener' = Nobody
    /\ upSince' = [q \in Procs |-> Nobody]
    /\ UNCHANGED <<file, seen, rounds, alone, blankSeen, evicted>>

\* release(): close the handle, then remove the file by its name. The process
\* exits, or restarts in place and acquires the lock again.
ReleaseAndExit(p) ==
    /\ Step(p, "releasing", "gone")
    /\ file' = NoFile
    /\ evicted' = EvictedBy(p)
    /\ UNCHANGED <<listener, seen, rounds, alone, blankSeen, upSince>>

ReleaseAndRestart(p) ==
    /\ Step(p, "releasing", "opening")
    /\ file' = NoFile
    /\ evicted' = EvictedBy(p) \ {p}
    /\ BeginAttempt(p)
    /\ UNCHANGED <<listener, seen, upSince>>

\* SIGKILL: the port is free at once, the file stays.
Crash(p) ==
    /\ Alive(p)
    /\ at' = [at EXCEPT ![p] = "gone"]
    /\ listener' = IF listener = p THEN Nobody ELSE listener
    /\ upSince' = [q \in Procs |-> IF upSince[q] = p THEN Nobody ELSE upSince[q]]
    /\ UNCHANGED <<file, seen, rounds, alone, blankSeen, evicted>>

\* The file outlives staleMs.
FileAges ==
    /\ file # NoFile
    /\ ~file.old
    /\ file' = [file EXCEPT !.old = TRUE]
    /\ UNCHANGED <<at, listener, seen, rounds, historyVars>>

Next ==
    \/ \E p \in Procs :
          \/ StartProcess(p) \/ CreateFile(p) \/ FileExists(p)
          \/ WritePayload(p) \/ WriteFails(p)
          \/ ReadLockPayload(p) \/ JudgeOwner(p) \/ StatFile(p) \/ ReclaimFile(p)
          \/ PollAgain(p) \/ TimesOut(p)
          \/ BindPort(p) \/ BindFails(p) \/ CloseServer(p)
          \/ ReleaseAndExit(p) \/ ReleaseAndRestart(p) \/ Crash(p)
    \/ FileAges

Spec == Init /\ [][Next]_vars

-----------------------------------------------------------------------------
(* Properties *)

\* A crashed gateway does not keep the next one out: a process that was alone on
\* the host during its whole attempt gives up with "gateway already running" only
\* if it met a file without a payload, whose port is never probed.
RefusedOnlyByOthers ==
    \A p \in Procs : at[p] = "refused" => ~alone[p] \/ blankSeen[p]

\* A gateway that is up and answers probes loses its lock file to another process
\* only by a race that began before it was up: the process that removes the file
\* read it while somebody else or nobody listened, or probed this gateway and got
\* no answer, or is releasing a lock it had itself lost.
ServingLosesFileOnlyToRace ==
    [][\A p \in Procs :
          /\ at[p] = "serving"
          /\ file.owner = p
          /\ file'.owner # p
          => \E q \in Procs \ {p} :
                \/ at[q] = "removing" /\ at'[q] # "removing" /\ upSince[q] # p
                \/ at[q] = "releasing" /\ at'[q] # "releasing" /\ q \in evicted]_vars
=============================================================================
