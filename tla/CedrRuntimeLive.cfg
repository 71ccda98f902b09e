SPECIFICATION FairSpec

CONSTANTS
    a1 = a1
    a2 = a2
    Apps = {a1, a2}
    NumPEs = 2
    CanRun <- OneAccelerated
    MaxCalls <- TwoCallsAlone
    MaxBatch = 2
    Queueing = TRUE
    ExitWhenIdle = TRUE
    LateStart = TRUE
    NoTask = NoTask
    NoApp = NoApp

PROPERTIES
    CallsReturn
    AppsAreReaped
    KillEndsDaemon
