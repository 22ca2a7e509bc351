CONSTANTS
    Jobs = {j1, j2}
    Workers = {w1, w2}
    People = {p1, p2}
    NoJob = NoJob
    MaxClaims = 3
SYMMETRY QueueSymmetry
SPECIFICATION MCSpec
INVARIANTS
    JobTypeOK
    TwoWorkersNeedACancel
PROPERTIES
    SuccessStays
