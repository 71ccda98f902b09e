SPECIFICATION FairSpec

CONSTANTS
    dbl = dbl
    one = one
    seq = seq
    sgl = sgl
    Apps = {seq, sgl}
    Node <- RingNode
    AppOf <- RingApp
    Pred <- RingPred
    Mode <- RingMode
    Frames <- RingFrames
    CanRun <- RingRun
    NumPEs = 2
    Queueing = FALSE
    ExitWhenIdle = TRUE
    Counting = TRUE
    NoNode = NoNode

\* A daemon that is killed may never finish joining its workers.
CHECK_DEADLOCK FALSE

INVARIANTS
    DagInv
    PipelinesMove
    OneFrameAtATime
    FreeCountExact
    IdleExitIsClean

PROPERTIES
    StreamsFinish
    IdleExitEnds
    RoundSpec
