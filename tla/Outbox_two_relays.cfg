CONSTANTS
    p1 = p1
    p2 = p2
    Row = {1}
    Relay = {p1, p2}
    Legs <- MCLegs
    BatchSize = 1
    MaxAttempts = 3
    LeaseCoversDispatch = FALSE
    EvictsJobs = TRUE
    MaxCrashes = 2
SPECIFICATION Spec
SYMMETRY Symmetry
INVARIANTS
    TypeOK
    SentMeansQueued
    FailedMeansExhausted
CHECK_DEADLOCK FALSE
