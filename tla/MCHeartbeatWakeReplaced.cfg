\* A handler is replaced while its batch is in flight.
SPECIFICATION Spec
CONSTANTS
    Targets = {a}
    Priorities <- TwoPriorities
    NoopRetryCap = 1
    MaxRequests = 3
    MaxFaults = 0
    MaxHung = 0
    MaxRegistrations = 2
INVARIANT NewestBatchAlone
CHECK_DEADLOCK FALSE
