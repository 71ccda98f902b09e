------------------------------ MODULE DagGraph ------------------------------
(***************************************************************************)
(* The application graphs of the DAG-based CEDR daemon (src-dag), as       *)
(* parse_dag_and_binary builds them from the application's JSON file.      *)
(*                                                                         *)
(* An instance of an application is a directed acyclic graph of task       *)
(* nodes.  It runs once ("none"), or as a pipeline through which a number  *)
(* of input frames flow, in one of three streaming modes: every edge has   *)
(* one buffer ("single"), two buffers ("double"), or the frames go through *)
(* the graph one after the other ("sequential").                           *)
(***************************************************************************)
EXTENDS Integers, FiniteSets

CONSTANTS
    Apps,    \* the application instances that may ever be submitted
    Node,    \* their task nodes
    AppOf,   \* AppOf[n]: the instance n belongs to (app_pnt)
    Pred,    \* Pred[n]: the "predecessors" of n
    Mode,    \* Mode[a]: the "Stream_enable" of a
    Frames   \* Frames[a]: the "Max_stream_frame_count" of a

ASSUME GraphAssumption ==
    /\ IsFiniteSet(Node)
    /\ AppOf \in [Node -> Apps]
    /\ Pred \in [Node -> SUBSET Node]
    /\ \A n \in Node : \A p \in Pred[n] : AppOf[p] = AppOf[n]
    /\ Mode \in [Apps -> {"none", "single", "double", "sequential"}]
    /\ Frames \in [Apps -> Nat]

\* The graph has no cycle: every part of it has a first and a last node.
ASSUME AcyclicAssumption ==
    \A S \in SUBSET Node : S # {} =>
        /\ \E n \in S : Pred[n] \cap S = {}
        /\ \E n \in S : \A m \in S : n \notin Pred[m]

NodesOf(a) == {n \in Node : AppOf[n] = a}

\* The "successors" of n, which the file gives besides the predecessors.
Succ(n) == {m \in Node : n \in Pred[m]}

\* Nodes without predecessors are head nodes, nodes without successors are
\* tail nodes.
IsHead(n) == Pred[n] = {}
IsTail(n) == Succ(n) = {}
Heads(a) == {n \in NodesOf(a) : IsHead(n)}
Tails(a) == {n \in NodesOf(a) : IsTail(n)}

Sequential(n) == Mode[AppOf[n]] = "sequential"
Streaming(a) == Mode[a] # "none"

\* The pred and succ arrays of a node: in sequential mode the graph is closed
\* to a ring, the tails leading back to the heads.
WiredPred(n) ==
    IF Sequential(n) /\ IsHead(n) THEN Tails(AppOf[n]) ELSE Pred[n]

WiredSucc(n) ==
    IF Sequential(n) /\ IsTail(n) THEN Heads(AppOf[n]) ELSE Succ(n)

\* How many frames each node of a processes when all goes well.
Goal(a) == IF Streaming(a) THEN Frames[a] ELSE 1

\* In sequential mode a node that is head and tail at once would wait for
\* itself.
Ringable(a) == Mode[a] = "sequential" => Heads(a) \cap Tails(a) = {}
=============================================================================
