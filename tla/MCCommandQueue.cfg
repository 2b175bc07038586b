\* One lane shared by three entries with lane timeouts: completions, bodies that
\* hang, limit changes, clears, a waiter and a reset interleave.
SPECIFICATION FairSpec
CONSTANTS
    l1 = l1
    Lanes = {l1}
    ProbeLanes = {}
    Tasks = {t1, t2, t3}
    TimedTasks = {t1, t2, t3}
    LaneOf <- OneLane
    Waiters = {w1}
    MaxLimit = 2
    MaxGeneration = 1
INVARIANTS
    TypeOK
    EntriesQueuedOnce
    SlotsMatchRunningEntries
    WorkConserving
    NoLostWaiterWakeup
    DrainedTasksStayReleased
PROPERTIES
    StartsWithinLimit
    KeepsLaneService
    LaneNeverStuck
