CONSTANTS
    a1 = a1
    a2 = a2
    r1 = r1
    r2 = r2
    r3 = r3
    applied = applied
    offer = offer
    hired = hired
    rejected = rejected
    extra = extra
    App = {a1}
    Req = {r1, r2}
    Stage = {applied, hired, extra}
    InitStages = {applied, hired}
    InitKind <- MCInitKind
    NewKinds = {"APPLIED", "OFFER"}
    EditKinds = {"SCREEN", "REJECTED"}
    NoApp = NoApp
    NoStage = NoStage
    MaxEvents = 3
SPECIFICATION Spec
SYMMETRY Symmetry
INVARIANTS
    TypeOK
    AuditTrail
    StageReferences
    OutboxMirrorsTrail
    StatusMatchesOutbox
CHECK_DEADLOCK FALSE
