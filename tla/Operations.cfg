CONSTANTS
    Rescans = {s1}
    MaxScans = 1
    MaxEdits = 1
    MaxAttempts = 2
    MaxStalls = 1
    App = {a1, a2}
    Stage = {g1, g2, g3}
    Closed = {g3}
    First = g1
    Drag = {m1, m2}
    MaxMoves = 3
    MaxFaults = 1
    Work = {w1, w2, w3}
SPECIFICATION MCSpec
INVARIANTS
    TypesOK
    LinkIsConsistent
    AloneIsKept
    
    BoardIsTrue
    CleanExit
CHECK_DEADLOCK FALSE
