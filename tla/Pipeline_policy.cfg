CONSTANTS
    a1 = a1
    a2 = a2
    r1 = r1
    r2 = r2
    r3 = r3
    applied = applied
    offer = offer
    hired = hired
    rejected = rejected
    extra = extra
    App = {a1}
    Req = {r1, r2, r3}
    Stage = {applied, offer, hired, rejected, extra}
    InitStages = {applied, offer, hired, rejected}
    InitKind <- MCInitKind
    NewKinds = {"SCREEN"}
    EditKinds = {}
    NoApp = NoApp
    NoStage = NoStage
    MaxEvents = 3
SPECIFICATION Spec
INVARIANT OneOutcome
PROPERTY ImplementsPolicy
SYMMETRY Symmetry
CHECK_DEADLOCK FALSE
