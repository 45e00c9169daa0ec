CONSTANTS
    Request = {q1, q2}
    Password = {w1, w2}
    ResetToken = {t1, t2}
    NoPassword = NoPassword
    MaxVersion = 2
    Tab = {tab1, tab2}
    None = None
    SessionVersions = 2
    MaxFailures = 1
SPECIFICATION MCSpec
INVARIANTS
    TypesOK
    LiveSessionsKnowPassword
    LogoutRevokes
    NoSpuriousSignOut
PROPERTY CallsEnd
CHECK_DEADLOCK FALSE
