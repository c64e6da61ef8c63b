SPECIFICATION MCSpec
CONSTANTS
    j1 = j1
    j2 = j2
    j3 = j3
    s1 = s1
    s2 = s2
    Nothing = Nothing
    NoJob = NoJob
    Jobs = {j1, j2, j3}
    Setups <- MCSetups
    Runs = {j1, j2}
    Scenes <- DispatchScenes
    Sessions = {s1, s2}
    SessionOrder <- ContainerOrder
    Slots = 1
    Allowances <- ContainerAllowances
    MaxFaults = 2
    MaxPerBucket = 1
    MaxJobs = 2
    MaxDelegationDepth = 2
    MaxDisturbances = 1
INVARIANTS AdmissionMatchesJobs ReportedExactlyOnce WritersFenced GuestsFitTheSlots SlotsComeBack
CHECK_DEADLOCK FALSE
