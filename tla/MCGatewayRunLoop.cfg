\* Two signals that arrive while the loop waits, two commands of one lane.
SPECIFICATION RunLoopSpec
CONSTANTS
    l1 = l1
    Lanes = {l1}
    ProbeLanes = {}
    Tasks = {t1, t2}
    TimedTasks = {t1}
    LaneOf <- OneLane
    Waiters <- RequestWaiters
    MaxLimit = 1
    MaxGeneration = 3
    MaxRequests = 2
    SignalsDuringStart = FALSE
INVARIANTS
    OpenUnlessShuttingDown
    CleanExitHandsOver
CHECK_DEADLOCK FALSE
