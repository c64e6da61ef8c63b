SPECIFICATION Spec
CONSTANTS
    w1 = w1
    w2 = w2
    c1 = c1
    c2 = c2
    m1 = m1
    SubjectIds = {w1, w2}
    Workers = {w1, w2}
    TaskOf <- MCTaskOf
    Controllers = {c1, c2}
    Sessions = {}
    NoController = NoController
    Fresh = Fresh
    MutationIds = {m1}
    LeaseDuration = 1
    GracePeriod = 1
    MaxNow = 0
    MaxVersion = 2
    MaxHandoffs = 1
INVARIANTS HandoffsWhole GrantedOnce
SYMMETRY MCSymmetry
CHECK_DEADLOCK FALSE
