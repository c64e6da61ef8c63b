SPECIFICATION Spec
CONSTANTS
    w1 = w1
    c1 = c1
    c2 = c2
    SubjectIds = {w1}
    Workers = {w1}
    TaskOf <- MCTaskOf
    Controllers = {c1, c2}
    Sessions = {c1}
    NoController = NoController
    Fresh = Fresh
    MutationIds = {}
    LeaseDuration = 2
    GracePeriod = 1
    MaxNow = 2
    MaxVersion = 3
    MaxHandoffs = 1
INVARIANTS TypeOK SingleAuthority
PROPERTIES NoResurrection DispossessedByRight
CHECK_DEADLOCK FALSE
