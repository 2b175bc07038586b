\* One send, the scan at startup and two crashes.
SPECIFICATION Spec
CONSTANTS
    Entries = {e1}
    Reconcilable = {e1}
    startup = startup
    Scans = {startup}
    StartupScan = startup
    MaxRetries = 2
    MaxCrashes = 2
    MaxSends = 2
INVARIANTS
    NotReplayedAfterCrash
CHECK_DEADLOCK FALSE
