CONSTANTS
    Job <- MCJob
    Kind = {"INTERVIEW", "REJECTED"}
    Alice = Alice
    Bob = Bob
    Panel <- MCPanel
    Request = {q1, q2}
    MaxMoves = 2
    MaxAttempts = 2
    MaxStalls = 1
    Workers = 2
SPECIFICATION MCSpec
INVARIANTS
    TypeOK
    DoneMeansTold
    NoticeOncePerStall
    LastStageIsNamed
    CompletedMeansScored
CHECK_DEADLOCK FALSE
