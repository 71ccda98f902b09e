------------------------------ MODULE Dataflow ------------------------------
(***************************************************************************)
(* What the DAG daemon promises an application: its graph is executed as a *)
(* dataflow.  A node processes frame k once, after all its predecessors    *)
(* did, and not before the frame whose buffer it will overwrite has been   *)
(* consumed by all its successors; in sequential mode, not before every    *)
(* node is done with all earlier frames.  An instance is given up only     *)
(* when all its nodes have processed all frames.                           *)
(***************************************************************************)
EXTENDS DagGraph

VARIABLES
    done,   \* done[n]: the frames n has processed
    busy,   \* the nodes that process a frame
    retired \* the instances that were given up

dataflowVars == <<done, busy, retired>>

Init ==
    /\ done = [n \in Node |-> 0]
    /\ busy = {}
    /\ retired = {}

\* The inputs of frame done[n] are there ...
InputsReady(n) == \A p \in Pred[n] : done[p] > done[n]

\* ... and its outputs have room: one frame on every edge, or two.
OutputsFree(n) ==
    \A c \in Succ(n) :
        done[c] >= IF Mode[AppOf[n]] = "double" THEN done[n] - 1 ELSE done[n]

\* A sequential application has one frame in its graph at a time.
FrameIsNext(n) ==
    Sequential(n) /\ Ringable(AppOf[n]) =>
        \A m \in NodesOf(AppOf[n]) : done[m] >= done[n]

Begin(n) ==
    /\ n \notin busy
    /\ AppOf[n] \notin retired
    /\ InputsReady(n) /\ OutputsFree(n) /\ FrameIsNext(n)
    /\ busy' = busy \cup {n}
    /\ UNCHANGED <<done, retired>>

End(n) ==
    /\ n \in busy
    /\ busy' = busy \ {n}
    /\ done' = [done EXCEPT ![n] = @ + 1]
    /\ UNCHANGED retired

Retire(a) ==
    /\ \A n \in NodesOf(a) : done[n] = Goal(a) /\ n \notin busy
    /\ retired' = retired \cup {a}
    /\ UNCHANGED <<done, busy>>

Next ==
    \/ \E n \in Node : Begin(n) \/ End(n)
    \/ \E a \in Apps : Retire(a)

Spec == Init /\ [][Next]_dataflowVars
=============================================================================
