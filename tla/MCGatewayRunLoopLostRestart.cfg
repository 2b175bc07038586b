\* A restart signal during the first start, restarting in process.
SPECIFICATION RunLoopSpec
CONSTANTS
    l1 = l1
    Lanes = {l1}
    ProbeLanes = {}
    Tasks = {t1, t2}
    TimedTasks = {t1}
    LaneOf <- OneLane
    Waiters <- RequestWaiters
    MaxLimit = 1
    MaxGeneration = 2
    MaxRequests = 1
    SignalsDuringStart = TRUE
INVARIANTS
    OpenUnlessShuttingDown
CHECK_DEADLOCK FALSE
