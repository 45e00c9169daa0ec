CONSTANTS
    c1 = c1
    c2 = c2
    c3 = c3
    j1 = j1
    j2 = j2
    r1 = r1
    r2 = r2
    MaxStored = 1
    Cand = {c1, c2, c3}
    Job = {j1}
    Req = {r1, r2}
    None = None
    ConcurrentMerges = FALSE
    Manual = TRUE
    Alike = TRUE
SPECIFICATION MCSpec
SYMMETRY Symmetry
INVARIANTS
    TypeOK
    MergeForest
    NothingLost
    SurvivorShowsJob
    MergedLinks
