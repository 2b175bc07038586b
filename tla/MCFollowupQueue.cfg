\* Three messages of two senders over two channels, settings that change with
\* every message, two queue objects and a run that throws.
SPECIFICATION FairSpec
CONSTANTS
    m1 = m1
    m2 = m2
    m3 = m3
    Messages = {m1, m2, m3}
    RouteOf <- TwoRoutes
    AuthOf <- TwoSenders
    Settings <- CollectAndFollowup
    MaxQueues = 2
    MaxFailures = 1
INVARIANTS
    TypeOK
    RunsOnce
    NothingLostBelowCap
PROPERTIES
    QueueDrains
CHECK_DEADLOCK FALSE
