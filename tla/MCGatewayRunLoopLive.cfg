\* Liveness and the drain, with a signal at any moment, the startup included;
\* the lane is a probe lane, which cannot be suspended.
SPECIFICATION RunLoopFairSpec
CONSTANTS
    l1 = l1
    Lanes = {l1}
    ProbeLanes = {l1}
    Tasks = {t1, t2}
    TimedTasks = {t1, t2}
    LaneOf <- OneLane
    Waiters <- RequestWaiters
    MaxLimit = 1
    MaxGeneration = 2
    MaxRequests = 1
    SignalsDuringStart = TRUE
INVARIANTS
    RunLoopTypeOK
    DrainedBeforeClose
PROPERTIES
    ShutdownEnds
    QueuedWorkSurvivesRestart
CHECK_DEADLOCK FALSE
