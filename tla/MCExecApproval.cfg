\* Two ids with a common prefix, two requests that may share an id, a waiter.
SPECIFICATION FairSpec
CONSTANTS
    Requests = {r1, r2}
    StrictRequests = {r2}
    Ids = {i1, i2}
    Prefixes = {x}
    Matching <- AllMatch
    Waiters = {w}
    Nobody = Nobody
    MaxRuns = 2
INVARIANTS
    TypeOK
    RunsAuthorised
    OneDecision
    TimesOutAtOwnDeadline
PROPERTIES
    ApprovalsSettle
CHECK_DEADLOCK FALSE
