SPECIFICATION Spec

CONSTANTS
    a1 = a1
    a2 = a2
    Apps = {a1, a2}
    NumPEs = 2
    CanRun <- OneAccelerated
    MaxCalls <- TwoCallsAndOne
    MaxBatch = 2
    Queueing = TRUE
    ExitWhenIdle = FALSE
    LateStart = TRUE
    NoTask = NoTask
    NoApp = NoApp

INVARIANTS
    EveryTaskInOnePlace
    BarrierAlive
    FreedIsUnreferenced
    StoppedIsIdle
    SleeperIsOwed
    WaitsEnd
    NoNullDereference

PROPERTIES
    StopIsFinal
    ServiceSpec
