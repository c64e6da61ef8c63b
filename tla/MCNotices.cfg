SPECIFICATION MCSpec
CONSTANTS
    w1 = w1
    w2 = w2
    Orc = o1
    None = None
    FleetWorkers = {w1, w2}
    MaxFleetMoves = 1
    MaxDrops = 1
    MaxGestures = 1
    Workers = {w1}
    MaxTurns = 2
    MaxReports = 1
    Capacity = 2
    PageMax = 1
    MaxWakes = 1
    MaxHead = 3
    MaxMoves = 3
    MaxHours = 1
    MaxFaults = 1
    Awaited <- AwaitedPair
    ReportKinds = {"ask"}
    MaxWaitTurns = 1
    MaxWaitReports = 2
    PageReports = 1
    ScanMax = 1
    ReceiptMax = 1
    HourlyWakes = 1
    MaxEpochs = 2
    MaxReads = 2
    MaxWaitMoves = 3
    MaxWaitFaults = 1
INVARIANTS SettledTold ConsumedWasRead
PROPERTIES ReplyNeverRewinds
CHECK_DEADLOCK FALSE
