SPECIFICATION MCSpec
CONSTANTS
    p1 = p1
    p2 = p2
    k1 = k1
    k2 = k2
    k3 = k3
    s1 = s1
    s2 = s2
    f1 = f1
    f2 = f2
    f3 = f3
    Procs = {p1, p2}
    Keys = {k1, k2}
    MaxTxn = 3
    MaxFaults = 2
    Sources = {k1, k2, k3}
    Runs = {"r1", "r2"}
    Cap = 2
    Batch = 1
    MaxOps = 5
    Chunks <- ArchiveChunks
    MaxTrace = 10
    PageBytes = 4
    Writers = {1, 2, 3}
    DigestOf <- ArchiveDigestOf
    Faults = {"write"}
INVARIANTS AckedSurvives ListedIsReadable ReadsAsWhole
PROPERTIES CheckpointLossless NoForeignTurns
CHECK_DEADLOCK FALSE
