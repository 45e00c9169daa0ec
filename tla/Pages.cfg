CONSTANTS
    Request = {q1, q2}
    Stage = {a, b, c}
    a = a
    b = b
    Template <- MCTemplate
    MaxOrder = 3
    MaxVersion = 3
    Mark = {r1, r2}
    MaxUpdates = 2
    MaxClock = 3
    MaxBells = 1
    MaxFaults = 1
SPECIFICATION MCSpec
INVARIANTS
    TypesOK
    OrdersAreDense
    OwnWritesShown
PROPERTIES
    ReorderIsPermutation
    PolledCatchUp
    BadgeClears
CHECK_DEADLOCK FALSE
