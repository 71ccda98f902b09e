---------------------------- MODULE MCDagRuntime ----------------------------
(***************************************************************************)
(* Instances of DagRuntime for TLC.  A node is named by its application    *)
(* and its number in the graph.                                            *)
(***************************************************************************)
EXTENDS DagRuntime

CONSTANTS dbl, one, seq, sgl

\* The graphs: the predecessors of each node.
Chain2  == <<{}, {1}>>
Diamond == <<{}, {1}, {1}, {2, 3}>>

NodesFor(graphs) ==
    UNION {{<<a, i>> : i \in DOMAIN graphs[a]} : a \in DOMAIN graphs}
PredFor(graphs) ==
    [n \in NodesFor(graphs) |-> {<<n[1], p>> : p \in graphs[n[1]][n[2]]}]
AppFor(graphs) == [n \in NodesFor(graphs) |-> n[1]]

\* A double-buffered stream next to an application that runs once.
PipeGraphs == (dbl :> Chain2) @@ (one :> Diamond)
PipeNode   == NodesFor(PipeGraphs)
PipePred   == PredFor(PipeGraphs)
PipeApp    == AppFor(PipeGraphs)
PipeMode   == (dbl :> "double") @@ (one :> "none")
PipeFrames == (dbl :> 3) @@ (one :> 0)
\* Only PE 2 runs the last node of each graph.
PipeRun    == [n \in PipeNode |-> IF n \in {<<dbl, 2>>, <<one, 4>>} THEN {2} ELSE {1, 2}]

\* A sequential stream next to one with single buffers.
RingGraphs == (seq :> Diamond) @@ (sgl :> Chain2)
RingNode   == NodesFor(RingGraphs)
RingPred   == PredFor(RingGraphs)
RingApp    == AppFor(RingGraphs)
RingMode   == (seq :> "sequential") @@ (sgl :> "single")
RingFrames == (seq :> 2) @@ (sgl :> 2)
RingRun    == [n \in RingNode |-> IF n = <<seq, 4>> THEN {1} ELSE {1, 2}]

\* One application that runs once.
KillNode   == NodesFor(one :> Chain2)
KillPred   == PredFor(one :> Chain2)
KillApp    == AppFor(one :> Chain2)
KillMode   == one :> "none"
KillFrames == one :> 0
KillRun    == [n \in KillNode |-> {1, 2}]

=============================================================================
