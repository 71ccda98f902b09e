SPECIFICATION Spec

CONSTANTS
    dbl = dbl
    one = one
    seq = seq
    sgl = sgl
    Apps = {dbl, one}
    Node <- PipeNode
    AppOf <- PipeApp
    Pred <- PipePred
    Mode <- PipeMode
    Frames <- PipeFrames
    CanRun <- PipeRun
    NumPEs = 2
    Queueing = TRUE
    ExitWhenIdle = FALSE
    Counting = TRUE
    NoNode = NoNode

\* A daemon that is killed may never finish joining its workers.
CHECK_DEADLOCK FALSE

INVARIANTS
    NodeInOnePlace
    BufferExclusion
    GivenUpIsDone
    FramesBounded

PROPERTIES
    DataflowSpec
