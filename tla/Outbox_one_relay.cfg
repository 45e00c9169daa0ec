CONSTANTS
    p1 = p1
    p2 = p2
    Row = {1, 2}
    Relay = {p1}
    Legs <- MCLegs
    BatchSize = 2
    MaxAttempts = 2
    LeaseCoversDispatch = FALSE
    EvictsJobs = FALSE
    MaxCrashes = 1
SPECIFICATION FairSpec
INVARIANT AttemptsExact
PROPERTIES
    EveryRowSettles
    ImplementsPromise
CHECK_DEADLOCK FALSE
