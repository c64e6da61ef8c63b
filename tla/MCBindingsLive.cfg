SPECIFICATION MCSpec
CONSTANTS
    s1 = s1
    s2 = s2
    s3 = s3
    o1 = o1
    o2 = o2
    selA = selA
    selB = selB
    w1 = w1
    c1 = c1
    c2 = c2
    trust = trust
    login = login
    other = other
    NoController = NoController
    Fresh = Fresh
    NoDialog = NoDialog
    NoSession = NoSession
    Primary = Primary
    SessionIds = {s1, s2, s3}
    First = s1
    Operators = {o1, o2}
    Selectable = {selA, selB}
    AnySelection = any
    Intents = {"m"}
    NoIntent = "none"
    MaxRequests = 3
    MaxBindingMoves = 2
    MaxGeneration = 2
    SubjectIds = {w1}
    Workers = {w1}
    TaskOf <- ControlTaskOf
    CreatorOf <- ControlCreatorOf
    Controllers = {c1, c2}
    Sessions = {c1}
    MutationIds = {}
    LeaseDuration = 2
    GracePeriod = 1
    MaxNow = 2
    MaxVersion = 3
    MaxHandoffs = 1
    Dialogs = {trust, login, other}
    Answerable = {trust, login}
    Allowed = {trust}
    ForceStopGrace = 1
    Setups <- ControlSetups
    MaxCalls = 3
    MaxMoves = 2
    Calls = {"c1", "c2"}
    Targets = {"w1", "w2"}
    Scenes <- ToolScenes
    Timeout = 3
    Segment = 2
    Grace = 1
    MaxClock = 5
    MaxLost = 2
INVARIANTS LiveIsConnected
SYMMETRY Interchangeable
CHECK_DEADLOCK FALSE
