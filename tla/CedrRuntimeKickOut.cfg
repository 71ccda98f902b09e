SPECIFICATION Spec

CONSTANTS
    a1 = a1
    a2 = a2
    Apps = {a1, a2}
    NumPEs = 2
    CanRun <- OneAccelerated
    MaxCalls <- OneCallEach
    MaxBatch = 1
    Queueing = TRUE
    ExitWhenIdle = FALSE
    LateStart = TRUE
    NoTask = NoTask
    NoApp = NoApp

INVARIANTS
    RunningAppsKickedOut
