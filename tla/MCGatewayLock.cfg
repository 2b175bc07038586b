\* Three processes that start, crash, stop and restart in place at any step.
SPECIFICATION Spec
CONSTANTS
    Procs = {p1, p2, p3}
    Nobody = Nobody
INVARIANTS
    TypeOK
    RefusedOnlyByOthers
PROPERTIES
    ServingLosesFileOnlyToRace
SYMMETRY Symmetry
CHECK_DEADLOCK FALSE
