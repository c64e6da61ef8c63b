SPECIFICATION MCSpec
CONSTANTS
    m1 = m1
    m2 = m2
    m3 = m3
    stop = stop
    Nobody = Nobody
    Sends <- WorkflowSends
    Cancels = {stop}
    MaxMessages = 3
    MaxTurns = 1
    MaxHops = 1
    MaxCrashes = 2
    Widths = {1, 2}
    Setups <- MCSetups
    Allocation = 2
    Steps = {1}
    SoftPercent = 50
    Full = 3
    MaxSpent = 3
    MaxRevision = 3
    MaxGeneration = 2
    MaxFaults = 1
INVARIANTS StopRecordedMeansStopped CounterNeverOvercharges ChainsEnd
PROPERTIES OverrunIsStopped
CHECK_DEADLOCK FALSE
