\* One send with any options, two scans and two crashes.
SPECIFICATION Spec
CONSTANTS
    Entries = {e1}
    Reconcilable = {e1}
    startup = startup
    Scans = {startup, reconnect}
    StartupScan = startup
    MaxRetries = 2
    MaxCrashes = 2
    MaxSends = 2
INVARIANTS
    TypeOK
    OneOwner
    NoSilentLoss
    FailedIsFinal
PROPERTIES
    MarkedSendNotReplayed
    NoResurrection
CHECK_DEADLOCK FALSE
