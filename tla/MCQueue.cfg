SPECIFICATION MCSpec
CONSTANTS
    m1 = m1
    m2 = m2
    lead = lead
    hand = hand
    scout = scout
    NoOne = NoOne
    w1 = w1
    w2 = w2
    Targets = {w1, w2}
    Scouts = {w2}
    Retained = 1
    MaxTurns = 2
    MaxMoves = 3
    Orchestrators = {lead}
    Workers = {hand}
    ScoutIds = {scout}
    AtStart = {lead}
    ParentOf <- LifeParentOf
    MaxWorkers = 1
    MaxProcs = 3
    MaxEvents = 3
    MaxFaults = 1
INVARIANTS WrittenOnce HeldIsWatched OneProcess SlotsAgree DeliveredStays NoSettledWaitHangs
CHECK_DEADLOCK FALSE
