SPECIFICATION Spec

CONSTANTS
    a1 = a1
    a2 = a2
    Apps = {a1, a2}
    NumPEs = 2
    CanRun <- OneAccelerated
    MaxCalls <- TwoCallsAndOne
    MaxBatch = 2
    Queueing = FALSE
    ExitWhenIdle = TRUE
    LateStart = FALSE
    NoTask = NoTask
    NoApp = NoApp

INVARIANTS
    IInv
    OneTaskPerPE
    IdleExitIsClean

PROPERTIES
    RoundSpec
