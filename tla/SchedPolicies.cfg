SPECIFICATION FairSpec

CONSTANTS
    both = both
    cpu = cpu
    acc = acc
    odd = odd
    Task <- FourTasks
    Supports <- TaskTypes
    Exec <- TaskTimes
    Key <- TaskKeys
    NumPEs = 2
    TypeOf <- TwoTypes
    Configs <- SomeConfigs
    MaxTime = 1
    CountMod = 1000

INVARIANTS
    CountIsNeverShort
    SchedInv

PROPERTIES
    GivesEarliest
    RoundSpec
    ReadyIsServed

\* When all tasks are done, or the daemon is, nothing moves any more.
CHECK_DEADLOCK FALSE
