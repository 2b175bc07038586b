\* Two targets, a handler that fails, hangs once and is replaced.
SPECIFICATION FairSpec
CONSTANTS
    Targets = {a, b}
    Priorities <- TwoPriorities
    NoopRetryCap = 1
    MaxRequests = 2
    MaxFaults = 1
    MaxHung = 1
    MaxRegistrations = 3
INVARIANTS
    TypeOK
    NoStrandedWake
    NoRequestLost
    RetriesPaidFor
    BatchesSerialized
PROPERTIES
    WakeClaimed
CHECK_DEADLOCK FALSE
