SPECIFICATION MCSpec
CONSTANTS
    e1 = e1
    e2 = e2
    e3 = e3
    w1 = w1
    k1 = k1
    r1 = r1
    r2 = r2
    inside = inside
    beside = beside
    outside = outside
    Nothing = Nothing
    Roots = {r1, r2}
    Worktrees = {inside, beside, outside}
    RootOf <- JournalRootOf
    Clients = {"left", "right"}
    Sessions = {"s1", "s2"}
    Texts = {"done", "next"}
    MaxAppends = 4
    MaxMoves = 2
    Starts = {"s1", "s2"}
    Scouts = {"k1", "k2"}
    Scenes <- TreeScenes
    MaxCommits = 2
    MaxFaults = 2
    Absent = Absent
    EventIds = {e1, e2, e3}
    WorkerOf <- MCWorkerOf
    Watched = {w1}
    Payloads <- MCPayloads
    Items = {}
    Facts = Facts
    Correlations = {k1}
    CheckpointOf <- MCCheckpointOf
    NoCorrelation = NoCorrelation
    Resolutions = {"answered"}
    MaxQueued = 2
    RateLimit = 2
    RateWindow = 1
    PageLimit = 1
    MaxNow = 1
    MaxLease = 2
    MaxOrdinal = 5
INVARIANTS GateAnswerable NothingSkipped RevokedIsRefused PruneKeepsCommits AckKept TurnOnce
SYMMETRY MCSymmetry
CHECK_DEADLOCK FALSE
