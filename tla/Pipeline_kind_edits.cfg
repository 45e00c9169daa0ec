CONSTANTS
    a1 = a1
    a2 = a2
    r1 = r1
    r2 = r2
    r3 = r3
    applied = applied
    offer = offer
    hired = hired
    rejected = rejected
    extra = extra
    App = {a1}
    Req = {r1, r2}
    Stage = {applied, offer, hired}
    InitStages = {applied, offer, hired}
    InitKind <- MCInitKind
    NewKinds = {}
    EditKinds = {"SCREEN"}
    NoApp = NoApp
    NoStage = NoStage
    MaxEvents = 4
SPECIFICATION Spec
PROPERTY ClosedNeverMoves
