CONSTANTS
    Rescans = {s1}
    MaxScans = 1
    MaxEdits = 1
    MaxAttempts = 1
    MaxStalls = 0
SPECIFICATION Spec
INVARIANTS
    StrongestKept
CHECK_DEADLOCK FALSE
