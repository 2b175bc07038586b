\* Follow-up mode with the default drop policy and room for one message.
SPECIFICATION Spec
CONSTANTS
    m1 = m1
    m2 = m2
    m3 = m3
    Messages = {m1, m2, m3}
    RouteOf <- TwoRoutes
    AuthOf <- TwoSenders
    Settings <- FollowupSummarize
    MaxQueues = 1
    MaxFailures = 0
INVARIANTS
    NothingLost
CHECK_DEADLOCK FALSE
