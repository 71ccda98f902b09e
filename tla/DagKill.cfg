SPECIFICATION FairSpec

CONSTANTS
    dbl = dbl
    one = one
    seq = seq
    sgl = sgl
    Apps = {one}
    Node <- KillNode
    AppOf <- KillApp
    Pred <- KillPred
    Mode <- KillMode
    Frames <- KillFrames
    CanRun <- KillRun
    NumPEs = 2
    Queueing = TRUE
    ExitWhenIdle = FALSE
    Counting = TRUE
    NoNode = NoNode

\* A daemon that is killed may never finish joining its workers.
CHECK_DEADLOCK FALSE

PROPERTIES
    KillEndsDaemon
