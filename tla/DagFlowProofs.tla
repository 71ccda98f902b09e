---------------------------- MODULE DagFlowProofs ----------------------------
(***************************************************************************)
(* Theorems about DagRuntime: the pipeline keeps its frames apart, an      *)
(* instance is given up when it is done, the count of free PEs is exact,   *)
(* and the daemon implements Dataflow and SchedRound.                      *)
(***************************************************************************)
EXTENDS DagProofs, FiniteSetTheorems, WellFoundedInduction

-----------------------------------------------------------------------------
(* Bounds, and what the two checks establish.                              *)

\* The bounds of an instance.
LEMMA Bounds ==
    ASSUME NEW a \in Apps
    PROVE  /\ Goal(a) \in Nat /\ Limit(a) \in Nat /\ Limit(a) >= 1
           /\ Depth(a) \in {1, 2}
           /\ Goal(a) > 0 => Limit(a) = Goal(a)
           /\ ~Streaming(a) => Goal(a) = 1
           /\ Streaming(a) => Goal(a) = Frames[a]
BY GraphAssumption DEF Goal, Limit, Depth

\* The edges of the graph, for any counters.
EdgesOK(it) ==
    \A c \in Node : \A p \in Pred[c] :
        it[c] <= it[p] /\ it[p] <= it[c] + Depth(AppOf[c])

\* check_pred_comp finds every predecessor a frame ahead, in every mode.
LEMMA PredsAhead ==
    ASSUME NEW it \in [Node -> Nat], EdgesOK(it), NEW n \in Node, CheckPred(it, n)
    PROVE  \A p \in Pred[n] : it[p] >= it[n] + 1
<1> SUFFICES ASSUME NEW p \in Pred[n] PROVE it[p] >= it[n] + 1
  OBVIOUS
<1>1. p \in Node /\ it[p] \in Nat /\ it[n] \in Nat /\ it[p] >= it[n]
  BY GraphAssumption DEF EdgesOK
<1>2. ~IsHead(n) /\ WiredPred(n) = Pred[n]
  BY DEF IsHead, WiredPred
<1>3. Mode[AppOf[n]] \in {"none", "single", "double", "sequential"}
  BY GraphAssumption
<1>4. it[p] # it[n]
  <2>1. CASE Mode[AppOf[n]] \in {"none", "single"}
    <3>1. it[p] = it[n] + 1
      BY <1>2, <2>1 DEF CheckPred
    <3> QED
      BY <1>1, <3>1
  <2>2. CASE Mode[AppOf[n]] = "double"
    BY <1>2, <2>2 DEF CheckPred
  <2>3. CASE Mode[AppOf[n]] = "sequential"
    BY <1>2, <2>3 DEF CheckPred
  <2> QED
    BY <1>3, <2>1, <2>2, <2>3
<1> QED
  BY <1>1, <1>4

\* check_succ_comp finds room on every edge.
LEMMA SuccsClose ==
    ASSUME iter \in [Node -> Nat], NEW n \in Node, CheckSucc(n)
    PROVE  \A c \in Succ(n) : iter[c] >= iter[n] + 1 - Depth(AppOf[n])
<1> SUFFICES ASSUME NEW c \in Succ(n) PROVE iter[c] >= iter[n] + 1 - Depth(AppOf[n])
  OBVIOUS
<1>1. c \in Node /\ iter[c] \in Nat /\ iter[n] \in Nat
  BY DEF Succ
<1>2. ~IsTail(n) /\ WiredSucc(n) = Succ(n)
  BY DEF IsTail, WiredSucc
<1>3. Mode[AppOf[n]] \in {"none", "single", "double", "sequential"}
  BY GraphAssumption
<1>4. CASE Mode[AppOf[n]] \in {"none", "single"}
  <2>1. iter[c] = iter[n] /\ Depth(AppOf[n]) = 1
    BY <1>2, <1>4 DEF CheckSucc, Depth
  <2> QED
    BY <1>1, <2>1
<1>5. CASE Mode[AppOf[n]] = "double"
  <2>1. iter[c] >= iter[n] - 1 /\ Depth(AppOf[n]) = 2
    BY <1>2, <1>5 DEF CheckSucc, Depth
  <2> QED
    BY <1>1, <2>1
<1>6. CASE Mode[AppOf[n]] = "sequential"
  <2>1. iter[c] = iter[n] /\ Depth(AppOf[n]) = 1
    BY <1>2, <1>6 DEF CheckSucc, Depth
  <2> QED
    BY <1>1, <2>1
<1> QED
  BY <1>3, <1>4, <1>5, <1>6

\* Below every node there is a tail, which is no further than the node.
LEMMA TailBelow ==
    ASSUME iter \in [Node -> Nat], EdgesOK(iter), NEW m \in Node
    PROVE  \E t \in Tails(AppOf[m]) : t \in Node /\ iter[t] <= iter[m]
<1> DEFINE Good(n) == \E t \in Tails(AppOf[n]) : t \in Node /\ iter[t] <= iter[n]
           S == {n \in Node : ~Good(n)}
<1>1. SUFFICES ASSUME S # {} PROVE FALSE
  <2>1. S = {}
    BY <1>1
  <2> QED
    BY <2>1
<1>2. S \in SUBSET Node
  OBVIOUS
<1>3. PICK n \in S : \A c \in S : n \notin Pred[c]
  BY <1>1, <1>2, AcyclicAssumption
<1>4. n \in Node /\ iter[n] \in Nat /\ ~Good(n)
  BY <1>3
<1>5. ~IsTail(n)
  <2>1. IsTail(n) => n \in Tails(AppOf[n])
    BY <1>4 DEF Tails, NodesOf
  <2> QED
    BY <1>4, <2>1
<1>6. PICK c \in Node : n \in Pred[c]
  BY <1>5 DEF IsTail, Succ
<1>7. Good(c)
  BY <1>3, <1>6
<1>8. PICK t \in Tails(AppOf[c]) : t \in Node /\ iter[t] <= iter[c]
  BY <1>7
<1>9. AppOf[c] = AppOf[n] /\ iter[c] <= iter[n]
  BY <1>6, GraphAssumption DEF EdgesOK
<1>10. iter[t] \in Nat /\ iter[c] \in Nat
  BY <1>6, <1>8
<1>11. iter[t] <= iter[n]
  BY <1>4, <1>8, <1>9, <1>10
<1> QED
  BY <1>4, <1>8, <1>9, <1>11

\* In a ring, a node whose predecessors are ready is the last to have been so.
LEMMA RingClosed ==
    ASSUME iter \in [Node -> Nat], EdgesOK(iter), SpreadInv,
           NEW n \in Node, CheckPred(iter, n), Sequential(n), Ringable(AppOf[n])
    PROVE  \A m \in NodesOf(AppOf[n]) : iter[m] >= iter[n]
<1> SUFFICES ASSUME NEW m \in Node, AppOf[m] = AppOf[n] PROVE iter[m] >= iter[n]
  BY DEF NodesOf
<1>1. iter[m] \in Nat /\ iter[n] \in Nat
  OBVIOUS
<1>2. CASE IsHead(n)
  <2>1. WiredPred(n) = Tails(AppOf[n])
    BY <1>2 DEF WiredPred
  <2>2. \A t \in Tails(AppOf[n]) : iter[t] = iter[n]
    BY <1>2, <2>1 DEF CheckPred, Sequential
  <2>3. PICK t \in Tails(AppOf[m]) : iter[t] <= iter[m]
    BY TailBelow
  <2> QED
    BY <2>2, <2>3
<1>3. CASE ~IsHead(n)
  <2>1. PICK p \in Pred[n] : p \in Node /\ AppOf[p] = AppOf[n]
    BY <1>3, GraphAssumption DEF IsHead
  <2>2. iter[p] >= iter[n] + 1
    BY <2>1, PredsAhead
  <2>3. iter[p] <= iter[m] + 1
    BY <2>1 DEF SpreadInv, Sequential, NodesOf
  <2> QED
    BY <1>1, <2>1, <2>2, <2>3
<1> QED
  BY <1>2, <1>3

-----------------------------------------------------------------------------
(* The counters of the nodes.                                              *)

\* The nodes that FireStreams marks are entitled to a frame.
LEMMA FiredInFlight ==
    ASSUME CoreInv, FlowInv, NEW n \in Fireable
    PROVE  InFlight(n)
<1>1. /\ iter \in [Node -> Nat] /\ n \in Node /\ iter[n] \in Nat /\ AppOf[n] \in Apps
      /\ CheckPred(iter, n) /\ CheckSucc(n)
      /\ Streaming(AppOf[n]) /\ iter[n] < Frames[AppOf[n]]
  BY GraphAssumption DEF CoreInv, TypeOK, NodeTypeOK, Fireable
<1>2. EdgesOK(iter) /\ SpreadInv
  BY DEF FlowInv, EdgeInv, EdgesOK
<1>3. iter[n] < Limit(AppOf[n])
  BY <1>1, Bounds
<1> QED
  BY <1>1, <1>2, <1>3, PredsAhead, SuccsClose, RingClosed DEF InFlight

\* So are those that ArriveApps marks.
LEMMA StartedInFlight ==
    ASSUME CoreInv, FlowInv, NEW n \in Starters(due)
    PROVE  InFlight(n)
<1>1. /\ iter \in [Node -> Nat] /\ n \in Node /\ iter[n] = 0 /\ AppOf[n] \in Apps
      /\ CheckPred(iter, n)
  BY GraphAssumption DEF CoreInv, TypeOK, NodeTypeOK, Starters
<1>2. EdgesOK(iter)
  BY DEF FlowInv, EdgeInv, EdgesOK
<1>3. iter[n] < Limit(AppOf[n])
  BY <1>1, Bounds
<1>4. \A p \in Pred[n] : iter[p] >= iter[n] + 1
  BY <1>1, <1>2, PredsAhead
<1>5. \A m \in Node : iter[m] >= iter[n]
  BY <1>1
<1>6. \A c \in Succ(n) : iter[c] >= iter[n] + 1 - Depth(AppOf[n])
  <2> SUFFICES ASSUME NEW c \in Succ(n) PROVE iter[c] >= iter[n] + 1 - Depth(AppOf[n])
    OBVIOUS
  <2>1. iter[c] \in Nat /\ Depth(AppOf[n]) \in {1, 2}
    BY <1>1, Bounds DEF Succ
  <2> QED
    BY <1>1, <2>1
<1> QED
  BY <1>3, <1>4, <1>5, <1>6 DEF InFlight, NodesOf

\* Marking nodes that are in flight keeps the counters in step.
LEMMA MarkStep ==
    ASSUME CoreInv, FlowInv, NEW S, \A n \in S : InFlight(n),
           UNCHANGED iter,
           in_ready_queue' = [n \in Node |-> in_ready_queue[n] \/ n \in S]
    PROVE  FlowInv'
<1>1. \A n \in Node : InFlight(n)' <=> InFlight(n)
  BY DEF InFlight
<1>2. FlightInv'
  BY <1>1 DEF FlowInv, FlightInv
<1>3. LimitInv' /\ EdgeInv' /\ SpreadInv'
  BY DEF FlowInv, LimitInv, EdgeInv, SpreadInv
<1> QED
  BY <1>2, <1>3 DEF FlowInv

\* A node in flight that finishes its frame keeps within all bounds.
LEMMA Advance ==
    ASSUME iter \in [Node -> Nat], FlowInv, NEW n \in Node, InFlight(n),
           iter' = [iter EXCEPT ![n] = @ + 1]
    PROVE  /\ LimitInv' /\ EdgeInv' /\ SpreadInv'
           /\ \A m \in Node : m # n /\ InFlight(m) => InFlight(m)'
<1>1. \A m \in Node : /\ iter[m] \in Nat /\ AppOf[m] \in Apps
                      /\ Limit(AppOf[m]) \in Nat /\ Depth(AppOf[m]) \in {1, 2}
                      /\ iter'[m] = IF m = n THEN iter[n] + 1 ELSE iter[m]
  BY GraphAssumption, Bounds
<1>2. LimitInv'
  BY <1>1 DEF FlowInv, LimitInv, InFlight
<1>3. ASSUME NEW c \in Node, NEW p \in Pred[c]
      PROVE  iter'[c] <= iter'[p] /\ iter'[p] <= iter'[c] + Depth(AppOf[c])
  <2>1. /\ p \in Node /\ AppOf[p] = AppOf[c]
        /\ iter[c] <= iter[p] /\ iter[p] <= iter[c] + Depth(AppOf[c])
    BY GraphAssumption DEF FlowInv, EdgeInv
  <2>2. c = n => iter[p] >= iter[n] + 1
    BY DEF InFlight
  <2>3. p = n => iter[c] >= iter[n] + 1 - Depth(AppOf[c])
    BY <2>1 DEF InFlight, Succ
  <2> QED
    BY <1>1, <2>1, <2>2, <2>3
<1>4. ASSUME NEW k \in Node, NEW m \in Node, AppOf[k] = AppOf[m], Sequential(k),
             Ringable(AppOf[k])
      PROVE  iter'[k] <= iter'[m] + 1
  <2>1. iter[k] <= iter[m] + 1
    BY <1>4 DEF FlowInv, SpreadInv, NodesOf
  <2>2. k = n => iter[m] >= iter[n]
    BY <1>4 DEF InFlight, NodesOf
  <2> QED
    BY <1>1, <2>1, <2>2
<1>5. ASSUME NEW m \in Node, m # n, InFlight(m) PROVE InFlight(m)'
  <2>1. iter'[m] = iter[m] /\ \A k \in Node : iter'[k] >= iter[k] /\ iter'[k] \in Nat
    BY <1>1, <1>5
  <2>2. iter'[m] < Limit(AppOf[m])
    BY <1>5, <2>1 DEF InFlight
  <2>3. \A p \in Pred[m] : iter'[p] >= iter'[m] + 1
    <3> SUFFICES ASSUME NEW p \in Pred[m] PROVE iter'[p] >= iter'[m] + 1
      OBVIOUS
    <3>1. p \in Node /\ iter[p] >= iter[m] + 1
      BY <1>5, SameApp DEF InFlight
    <3> QED
      BY <1>1, <2>1, <3>1
  <2>4. \A c \in Succ(m) : iter'[c] >= iter'[m] + 1 - Depth(AppOf[m])
    <3> SUFFICES ASSUME NEW c \in Succ(m) PROVE iter'[c] >= iter'[m] + 1 - Depth(AppOf[m])
      OBVIOUS
    <3>1. c \in Node /\ iter[c] >= iter[m] + 1 - Depth(AppOf[m])
      BY <1>5, SameApp DEF InFlight
    <3> QED
      BY <1>1, <2>1, <3>1
  <2>5. Sequential(m) /\ Ringable(AppOf[m])
           => \A k \in NodesOf(AppOf[m]) : iter'[k] >= iter'[m]
    <3> SUFFICES ASSUME Sequential(m), Ringable(AppOf[m]), NEW k \in NodesOf(AppOf[m])
                 PROVE  iter'[k] >= iter'[m]
      OBVIOUS
    <3>1. k \in Node /\ iter[k] >= iter[m]
      BY <1>5 DEF InFlight, NodesOf
    <3> QED
      BY <1>1, <2>1, <3>1
  <2> QED
    BY <2>2, <2>3, <2>4, <2>5 DEF InFlight
<1>6. EdgeInv'
  BY <1>3 DEF EdgeInv
<1>7. SpreadInv'
  BY <1>4 DEF SpreadInv, NodesOf
<1> QED
  BY <1>2, <1>5, <1>6, <1>7

\* The nodes that the drain of n releases are entitled to their only frame.
LEMMA ReleasedInFlight ==
    ASSUME iter \in [Node -> Nat], NEW n \in Node,
           iter' = [iter EXCEPT ![n] = @ + 1], LimitInv', EdgeInv',
           NEW c \in Released(n, iter')
    PROVE  InFlight(c)'
<1>1. /\ c \in Node /\ AppOf[c] = AppOf[n] /\ AppOf[n] \in Apps
      /\ ~Streaming(AppOf[n]) /\ CheckPred(iter', c)
      /\ c \in WiredSucc(n)
  BY SameApp, GraphAssumption DEF Released
<1>2. iter' \in [Node -> Nat] /\ EdgesOK(iter')
  BY CountType DEF EdgeInv, EdgesOK
<1>3. \A p \in Pred[c] : iter'[p] >= iter'[c] + 1
  BY <1>1, <1>2, PredsAhead
<1>4. n \in Pred[c] /\ Mode[AppOf[c]] = "none"
  BY <1>1 DEF WiredSucc, Succ, Sequential, Streaming
<1>5. Limit(AppOf[n]) = 1 /\ Limit(AppOf[c]) = 1 /\ Depth(AppOf[c]) = 1
  BY <1>1, <1>4, Bounds DEF Depth
<1>6. iter'[c] = 0
  BY <1>1, <1>2, <1>3, <1>4, <1>5 DEF LimitInv
<1>7. \A m \in Node : iter'[m] >= 0 /\ iter'[m] \in Nat
  BY <1>2
<1>8. \A d \in Succ(c) : iter'[d] >= iter'[c] + 1 - Depth(AppOf[c])
  BY <1>5, <1>6, <1>7 DEF Succ
<1> QED
  BY <1>1, <1>3, <1>4, <1>5, <1>6, <1>8 DEF InFlight, Sequential

\* Every step keeps the counters in step with one another.
LEMMA FlowStep ==
    ASSUME WhereInv, FlowInv, [Next]_vars
    PROVE  FlowInv'
<1>0. /\ CoreInv /\ NodeInOnePlace
      /\ iter \in [Node -> Nat] /\ in_ready_queue \in [Node -> BOOLEAN]
  BY DEF WhereInv, CoreInv, TypeOK, NodeTypeOK
<1>1. CASE UNCHANGED <<iter, in_ready_queue>>
  <2> DEFINE S == {}
  <2>1. in_ready_queue' = [n \in Node |-> in_ready_queue[n] \/ n \in S]
    BY <1>0, <1>1
  <2>2. \A n \in S : InFlight(n)
    OBVIOUS
  <2> HIDE DEF S
  <2> QED
    BY <1>0, <1>1, <2>1, <2>2, MarkStep
<1>2. CASE ArriveApps
  <2>1. \A n \in Starters(due) : InFlight(n)
    BY <1>0, StartedInFlight
  <2>2. /\ UNCHANGED iter
        /\ in_ready_queue' = [n \in Node |-> in_ready_queue[n] \/ n \in Starters(due)]
    BY <1>2 DEF ArriveApps
  <2> QED
    BY <1>0, <2>1, <2>2, MarkStep
<1>3. CASE FireStreams
  <2>1. \A n \in Fireable : InFlight(n)
    BY <1>0, FiredInFlight
  <2>2. /\ UNCHANGED iter
        /\ in_ready_queue' = [n \in Node |-> in_ready_queue[n] \/ n \in Fireable]
    BY <1>3 DEF FireStreams
  <2> QED
    BY <1>0, <2>1, <2>2, MarkStep
<1>4. CASE PopCompleted
  <2> DEFINE n == Head(completed[idx])
  <2>1. mpc = "pop"
    BY <1>4 DEF PopCompleted
  <2>2. n \in Node /\ in_ready_queue[n]
    BY <1>0, <2>1, DrainedIsMarked
  <2>3. InFlight(n)
    BY <2>2 DEF FlowInv, FlightInv
  <2>4. /\ iter' = [iter EXCEPT ![n] = @ + 1]
        /\ in_ready_queue' = [m \in Node |->
              m \in Released(n, iter') \/ (m # n /\ in_ready_queue[m])]
    BY <1>4, PopEffect
  <2> HIDE DEF n
  <2>5. /\ LimitInv' /\ EdgeInv' /\ SpreadInv'
        /\ \A m \in Node : m # n /\ InFlight(m) => InFlight(m)'
    BY <1>0, <2>2, <2>3, <2>4, Advance
  <2>6. \A c \in Released(n, iter') : InFlight(c)'
    BY <1>0, <2>2, <2>4, <2>5, ReleasedInFlight
  <2>7. ASSUME NEW m \in Node, in_ready_queue'[m] PROVE InFlight(m)'
    <3>1. CASE m \in Released(n, iter')
      BY <2>6, <3>1
    <3>2. CASE m \notin Released(n, iter')
      <4>1. m # n /\ in_ready_queue[m]
        BY <2>4, <2>7, <3>2
      <4> QED
        BY <2>5, <4>1 DEF FlowInv, FlightInv
    <3> QED
      BY <3>1, <3>2
  <2> QED
    BY <2>5, <2>7 DEF FlowInv, FlightInv
<1>5. CASE \E n \in Node, w \in PE : AssignTask(n, w)
  BY <1>1, <1>5 DEF AssignTask
<1>6. CASE \E w \in PE : TakeTask(w) \/ HandBack(w)
  BY <1>1, <1>6 DEF TakeTask, HandBack, mainVars, nodeVars
<1> QED
  BY <1>1, <1>2, <1>3, <1>4, <1>5, <1>6, WhoMovesNodes DEF flightVars

LEMMA FlowInit == Init => FlowInv
<1> SUFFICES ASSUME Init PROVE FlowInv
  OBVIOUS
<1>1. \A n \in Node : iter[n] = 0 /\ ~in_ready_queue[n]
  BY DEF Init
<1>2. \A n \in Node : /\ AppOf[n] \in Apps
                      /\ Limit(AppOf[n]) \in Nat /\ Depth(AppOf[n]) \in {1, 2}
  BY GraphAssumption, Bounds
<1>3. LimitInv
  BY <1>1, <1>2 DEF LimitInv
<1>4. EdgeInv
  <2> SUFFICES ASSUME NEW c \in Node, NEW p \in Pred[c]
               PROVE  iter[c] <= iter[p] /\ iter[p] <= iter[c] + Depth(AppOf[c])
    BY DEF EdgeInv
  <2>1. p \in Node
    BY SameApp
  <2> QED
    BY <1>1, <1>2, <2>1
<1> QED
  BY <1>1, <1>3, <1>4 DEF FlowInv, FlightInv, SpreadInv, NodesOf

-----------------------------------------------------------------------------
(* The counts of the instances.                                            *)

\* The frames of an instance, finished or not, are finitely many.
LEMMA FrameSet ==
    ASSUME NEW a \in Apps
    PROVE  LET F == NodesOf(a) \X (0..(Limit(a) - 1))
           IN  /\ IsFiniteSet(F)
               /\ Cardinality(F) = Cardinality(NodesOf(a)) * Limit(a)
               /\ Cardinality(NodesOf(a)) \in Nat
               /\ IsFiniteSet(Finished(a)) /\ Finished(a) \in SUBSET F
               /\ Cardinality(Finished(a)) \in Nat
<1>1. IsFiniteSet(NodesOf(a)) /\ Cardinality(NodesOf(a)) \in Nat
  <2>1. NodesOf(a) \in SUBSET Node
    BY DEF NodesOf
  <2>2. IsFiniteSet(Node)
    BY GraphAssumption
  <2> QED
    BY <2>1, <2>2, FS_Subset, FS_CardinalityType
<1>2. Limit(a) \in Nat /\ Limit(a) >= 1
  BY Bounds
<1>3. IsFiniteSet(0..(Limit(a) - 1)) /\ Cardinality(0..(Limit(a) - 1)) = Limit(a)
  <2>1. 0 \in Int /\ Limit(a) - 1 \in Int /\ ~(0 > Limit(a) - 1)
    BY <1>2
  <2>2. /\ IsFiniteSet(0..(Limit(a) - 1))
        /\ Cardinality(0..(Limit(a) - 1)) = (Limit(a) - 1) - 0 + 1
    BY <2>1, FS_Interval
  <2> QED
    BY <1>2, <2>2
<1> DEFINE F == NodesOf(a) \X (0..(Limit(a) - 1))
<1>4. IsFiniteSet(F) /\ Cardinality(F) = Cardinality(NodesOf(a)) * Limit(a)
  BY <1>1, <1>3, FS_Product
<1>5. Finished(a) \in SUBSET F
  BY DEF Finished
<1>6. IsFiniteSet(Finished(a)) /\ Cardinality(Finished(a)) \in Nat
  BY <1>4, <1>5, FS_Subset, FS_CardinalityType
<1> QED
  BY <1>1, <1>4, <1>5, <1>6

\* A node that finishes a frame adds one to the frames of its instance.
LEMMA FinishOne ==
    ASSUME iter \in [Node -> Nat], NEW n \in Node, iter[n] < Limit(AppOf[n]),
           iter' = [iter EXCEPT ![n] = @ + 1], NEW a \in Apps
    PROVE  Cardinality(Finished(a)') =
              Cardinality(Finished(a)) + (IF a = AppOf[n] THEN 1 ELSE 0)
<1>1. \A m \in Node : iter'[m] = IF m = n THEN iter[n] + 1 ELSE iter[m]
  OBVIOUS
<1>2. Limit(a) \in Nat
  BY Bounds
<1>3. Finished(a)' = {f \in NodesOf(a) \X (0..(Limit(a) - 1)) : f[2] < iter'[f[1]]}
  BY DEF Finished
<1>4. CASE a # AppOf[n]
  <2>1. \A m \in NodesOf(a) : m \in Node /\ m # n
    BY <1>4 DEF NodesOf
  <2>2. \A f \in NodesOf(a) \X (0..(Limit(a) - 1)) : iter'[f[1]] = iter[f[1]]
    BY <1>1, <2>1
  <2>3. Finished(a)' = Finished(a)
    BY <1>3, <2>2 DEF Finished
  <2>4. Cardinality(Finished(a)) \in Nat
    BY FrameSet
  <2> QED
    BY <1>4, <2>3, <2>4
<1>5. CASE a = AppOf[n]
  <2> DEFINE e == <<n, iter[n]>>
  <2>1. e \in NodesOf(a) \X (0..(Limit(a) - 1))
    BY <1>2, <1>5 DEF NodesOf
  <2>2. e \notin Finished(a)
    BY DEF Finished
  <2>3. ASSUME NEW f \in NodesOf(a) \X (0..(Limit(a) - 1))
        PROVE  f[2] < iter'[f[1]] <=> f[2] < iter[f[1]] \/ f = e
    <3>1. PICK m \in NodesOf(a), k \in 0..(Limit(a) - 1) : f = <<m, k>>
      OBVIOUS
    <3>2. m \in Node /\ iter[m] \in Nat /\ k \in Nat
      BY <3>1 DEF NodesOf
    <3>3. CASE m = n
      <4>1. k < iter[n] + 1 <=> k < iter[n] \/ k = iter[n]
        BY <3>2, <3>3
      <4> QED
        BY <1>1, <3>1, <3>2, <3>3, <4>1
    <3>4. CASE m # n
      BY <1>1, <3>1, <3>2, <3>4
    <3> QED
      BY <3>3, <3>4
  <2>4. Finished(a)' = Finished(a) \cup {e}
    BY <1>3, <2>1, <2>3 DEF Finished
  <2> HIDE DEF e
  <2>5. Cardinality(Finished(a) \cup {e}) = Cardinality(Finished(a)) + 1
    BY <2>2, FrameSet, FS_AddElement
  <2> QED
    BY <1>5, <2>4, <2>5
<1> QED
  BY <1>4, <1>5

\* When all frames of an instance are counted after a step, each node has
\* finished each.
LEMMA AllFinishedNext ==
    ASSUME iter' \in [Node -> Nat], LimitInv', NEW a \in Apps,
           Cardinality(Finished(a)') = Cardinality(NodesOf(a)) * Limit(a)
    PROVE  \A n \in NodesOf(a) : iter'[n] = Limit(a)
<1> DEFINE F == NodesOf(a) \X (0..(Limit(a) - 1))
<1>1. /\ IsFiniteSet(F) /\ Cardinality(F) = Cardinality(Finished(a)')
  BY FrameSet
<1>2. Finished(a)' \in SUBSET F
  BY DEF Finished
<1>3. F = Finished(a)'
  BY <1>1, <1>2, FS_Subset
<1> SUFFICES ASSUME NEW n \in NodesOf(a) PROVE iter'[n] = Limit(a)
  OBVIOUS
<1>4. n \in Node /\ AppOf[n] = a /\ iter'[n] \in Nat
  BY DEF NodesOf
<1>5. Limit(a) \in Nat /\ Limit(a) >= 1
  BY Bounds
<1>6. <<n, Limit(a) - 1>> \in F
  BY <1>5
<1>7. Limit(a) - 1 < iter'[n]
  BY <1>3, <1>6 DEF Finished
<1>8. iter'[n] <= Limit(a)
  BY <1>4 DEF LimitInv
<1> QED
  BY <1>4, <1>5, <1>7, <1>8

\* Only the drain counts, and gives up instances.
LEMMA WhoCounts ==
    ASSUME [Next]_vars
    PROVE  \/ UNCHANGED <<iter, completed_count>> /\ GivenUp' = GivenUp
           \/ PopCompleted
<1> USE DEF vars, mainVars, slotVars, phaseVars, arriveVars, retireVars, nodeVars,
   workerVars, GivenUp
<1>1. CASE SubDag \/ KillDaemon \/ Gone \/ UNCHANGED vars
  BY <1>1 DEF SubDag, KillDaemon, Gone
<1>2. CASE ReceiveApps \/ ReceiveNothing \/ EndScheduling \/ EndPass \/ JoinWorkers
           \/ BeginExit \/ CountCompleted \/ RetirePE \/ ArriveApps \/ FireStreams
  BY <1>2 DEF ReceiveApps, ReceiveNothing, EndScheduling, EndPass, JoinWorkers,
    BeginExit, CountCompleted, RetirePE, ArriveApps, FireStreams
<1>3. CASE \E a \in Apps : BecomeDue(a)
  BY <1>3 DEF BecomeDue
<1>4. CASE \E a \in Apps : FreeApp(a)
  BY <1>4 DEF FreeApp
<1>5. CASE \E n \in Node, w \in PE : AssignTask(n, w)
  BY <1>5 DEF AssignTask
<1>6. CASE \E w \in PE : TakeTask(w) \/ HandBack(w) \/ StopWorker(w)
  BY <1>6 DEF TakeTask, HandBack, StopWorker
<1> QED
  BY <1>1, <1>2, <1>3, <1>4, <1>5, <1>6 DEF Next, Main, Worker

\* The count of an instance is the number of frames its nodes have finished; it
\* is given up when that is all of them.
LEMMA CountStep ==
    ASSUME WhereInv, FlowInv, CountInv, RetiredInv, [Next]_vars
    PROVE  CountInv' /\ RetiredInv'
<1>0. /\ CoreInv /\ NodeInOnePlace
      /\ iter \in [Node -> Nat] /\ completed_count \in [Apps -> Nat]
  BY DEF WhereInv, CoreInv, TypeOK, NodeTypeOK
<1>1. CASE UNCHANGED <<iter, completed_count>> /\ GivenUp' = GivenUp
  <2>1. \A a \in Apps : Finished(a)' = Finished(a)
    BY <1>1 DEF Finished
  <2>2. CountInv'
    BY <1>1, <2>1 DEF CountInv
  <2>3. RetiredInv'
    BY <1>1 DEF RetiredInv
  <2> QED
    BY <2>2, <2>3
<1>2. CASE PopCompleted
  <2> DEFINE n == Head(completed[idx])
             b == AppOf[n]
  <2>1. mpc = "pop"
    BY <1>2 DEF PopCompleted
  <2>2. n \in Node /\ in_ready_queue[n]
    BY <1>0, <2>1, DrainedIsMarked
  <2>3. /\ iter' = [iter EXCEPT ![n] = @ + 1]
        /\ completed_count' = [completed_count EXCEPT ![b] = @ + 1]
    BY <1>2, PopEffect
  <2>4. GivenUp' = GivenUp \/ (AppDone(b, completed_count[b] + 1) /\ GivenUp' = GivenUp \cup {b})
    BY <1>2 DEF PopCompleted, GivenUp
  <2>5. InFlight(n)
    BY <2>2 DEF FlowInv, FlightInv
  <2>6. b \in Apps
    BY <2>2, GraphAssumption
  <2> HIDE DEF n
  <2>7. iter[n] < Limit(AppOf[n])
    BY <2>5 DEF InFlight
  <2>8. ASSUME NEW a \in Apps PROVE completed_count'[a] = Cardinality(Finished(a)')
    <3>1. completed_count[a] = Cardinality(Finished(a)) /\ completed_count[a] \in Nat
      BY <1>0 DEF CountInv
    <3>2. completed_count'[a] = completed_count[a] + (IF a = b THEN 1 ELSE 0)
      BY <1>0, <2>3, <2>6, <3>1
    <3>3. Cardinality(Finished(a)') = Cardinality(Finished(a)) + (IF a = b THEN 1 ELSE 0)
      BY <1>0, <2>2, <2>3, <2>7, FinishOne
    <3> QED
      BY <3>1, <3>2, <3>3
  <2>9. CountInv'
    BY <2>8 DEF CountInv
  <2>10. LimitInv' /\ iter' \in [Node -> Nat]
    BY <1>0, <2>2, <2>3, <2>5, Advance, CountType
  <2>11. ASSUME AppDone(b, completed_count[b] + 1)
         PROVE  Goal(b) > 0 /\ \A m \in NodesOf(b) : iter'[m] = Goal(b)
    <3>1. /\ Goal(b) \in Nat /\ (Goal(b) > 0 => Limit(b) = Goal(b))
          /\ (~Streaming(b) => Goal(b) = 1) /\ (Streaming(b) => Goal(b) = Frames[b])
      BY <2>6, Bounds
    <3>2. Cardinality(NodesOf(b)) \in Nat
      BY <2>6, FrameSet
    <3>3. completed_count[b] + 1 = Cardinality(NodesOf(b)) * Goal(b)
      <4>1. CASE Streaming(b)
        BY <2>11, <3>1, <4>1 DEF AppDone
      <4>2. CASE ~Streaming(b)
        <5>1. completed_count[b] + 1 = Cardinality(NodesOf(b)) /\ Goal(b) = 1
          BY <2>11, <3>1, <4>2 DEF AppDone
        <5> QED
          BY <3>2, <5>1
      <4> QED
        BY <4>1, <4>2
    <3>4. completed_count[b] \in Nat
      BY <1>0, <2>6
    <3>5. Goal(b) # 0
      <4>1. Cardinality(NodesOf(b)) * 0 = 0
        BY <3>2
      <4> QED
        BY <3>3, <3>4, <4>1
    <3>6. Goal(b) > 0 /\ Limit(b) = Goal(b)
      BY <3>1, <3>5
    <3>7. completed_count'[b] = completed_count[b] + 1
      BY <1>0, <2>3, <2>6
    <3>8. PICK a \in Apps : a = b
      BY <2>6
    <3>9. Cardinality(Finished(a)') = Cardinality(NodesOf(a)) * Limit(a)
      BY <2>8, <3>3, <3>6, <3>7, <3>8
    <3>10. \A m \in NodesOf(a) : iter'[m] = Limit(a)
      BY <2>10, <3>9, AllFinishedNext
    <3> QED
      BY <3>6, <3>8, <3>10
  <2>12. ASSUME NEW a \in GivenUp, a # b
         PROVE  Goal(a) > 0 /\ \A m \in NodesOf(a) : iter'[m] = Goal(a)
    <3>1. Goal(a) > 0 /\ \A m \in NodesOf(a) : iter[m] = Goal(a)
      BY DEF RetiredInv
    <3>2. \A m \in NodesOf(a) : m \in Node /\ m # n
      BY <2>12 DEF NodesOf
    <3> QED
      BY <1>0, <2>3, <3>1, <3>2
  <2>13. b \notin GivenUp
    <3> SUFFICES ASSUME b \in GivenUp PROVE FALSE
      OBVIOUS
    <3>1. Goal(b) > 0 /\ iter[n] = Goal(b)
      BY <2>2 DEF RetiredInv, NodesOf
    <3>2. Limit(b) = Goal(b) /\ Goal(b) \in Nat
      BY <2>6, <3>1, Bounds
    <3> QED
      BY <2>7, <3>1, <3>2
  <2>14. RetiredInv'
    <3> SUFFICES ASSUME NEW a \in GivenUp'
                 PROVE  Goal(a) > 0 /\ \A m \in NodesOf(a) : iter'[m] = Goal(a)
      BY DEF RetiredInv
    <3>1. CASE a \in GivenUp
      BY <2>12, <2>13, <3>1
    <3>2. CASE a \notin GivenUp
      BY <2>4, <2>11, <3>2
    <3> QED
      BY <3>1, <3>2
  <2> QED
    BY <2>9, <2>14
<1> QED
  BY <1>1, <1>2, WhoCounts

LEMMA CountInit == Init => CountInv /\ RetiredInv
<1> SUFFICES ASSUME Init PROVE CountInv /\ RetiredInv
  OBVIOUS
<1>1. \A n \in Node : iter[n] = 0
  BY DEF Init
<1>2. ASSUME NEW a \in Apps PROVE completed_count[a] = Cardinality(Finished(a))
  <2>1. Limit(a) \in Nat
    BY Bounds
  <2>2. \A f \in NodesOf(a) \X (0..(Limit(a) - 1)) : ~(f[2] < iter[f[1]])
    BY <1>1, <2>1 DEF NodesOf
  <2>3. Finished(a) = {}
    BY <2>2 DEF Finished
  <2> QED
    BY <2>3, FS_EmptySet DEF Init
<1>3. GivenUp = {}
  BY DEF Init, GivenUp
<1> QED
  BY <1>2, <1>3 DEF CountInv, RetiredInv

-----------------------------------------------------------------------------
(* The way out.                                                            *)

\* A daemon that leaves its loop unasked has no instance left, and gets none.
LEMMA ExitStep ==
    ASSUME WhereInv, ExitInv, [Next]_vars
    PROVE  ExitInv'
<1> USE DEF vars, mainVars, slotVars, phaseVars, arriveVars, retireVars, nodeVars,
   workerVars
<1> DEFINE lists == <<unarrived, arrived, completed_apps>>
<1>1. CASE ~Exiting'
  BY <1>1 DEF ExitInv
<1>2. CASE UNCHANGED lists /\ Exiting' = Exiting /\ (cmd = "CLOSED" => cmd' = "CLOSED")
  BY <1>2 DEF ExitInv
<1>3. CASE BeginExit
  <2>1. cmd' = "CLOSED" \/ ShouldExitEarly
    BY <1>3 DEF BeginExit
  <2>2. UNCHANGED lists
    BY <1>3 DEF BeginExit
  <2> QED
    BY <2>1, <2>2 DEF ExitInv, ShouldExitEarly
<1>4. \/ ~Exiting'
      \/ UNCHANGED lists /\ Exiting' = Exiting /\ (cmd = "CLOSED" => cmd' = "CLOSED")
      \/ BeginExit
  <2>1. CASE SubDag \/ KillDaemon \/ Gone \/ UNCHANGED vars
    BY <2>1 DEF SubDag, KillDaemon, Gone, Exiting
  <2>2. CASE ReceiveApps \/ ReceiveNothing \/ EndScheduling \/ EndPass \/ CountCompleted
             \/ ArriveApps \/ FireStreams
    BY <2>2 DEF ReceiveApps, ReceiveNothing, EndScheduling, EndPass, CountCompleted,
      ArriveApps, FireStreams, Exiting
  <2>3. CASE RetirePE \/ JoinWorkers
    BY <2>3 DEF RetirePE, JoinWorkers, Exiting
  <2>4. CASE PopCompleted
    BY <2>4 DEF PopCompleted, Exiting
  <2>5. CASE \E a \in Apps : BecomeDue(a)
    BY <2>5 DEF BecomeDue, Exiting
  <2>6. CASE \E a \in Apps : FreeApp(a)
    BY <2>6 DEF FreeApp, Exiting
  <2>7. CASE \E n \in Node, w \in PE : AssignTask(n, w)
    BY <2>7 DEF AssignTask, Exiting
  <2>8. CASE \E w \in PE : TakeTask(w) \/ HandBack(w) \/ StopWorker(w)
    BY <2>8 DEF TakeTask, HandBack, StopWorker, Exiting
  <2> QED
    BY <2>1, <2>2, <2>3, <2>4, <2>5, <2>6, <2>7, <2>8 DEF Next, Main, Worker
<1> QED
  BY <1>1, <1>2, <1>3, <1>4

-----------------------------------------------------------------------------
(* What a node waits for is still to come.                                 *)

\* Four kinds of steps mark a node, count a frame or give up an instance.
LEMMA WhoProgresses ==
    ASSUME [Next]_vars
    PROVE  \/ UNCHANGED <<iter, in_ready_queue, arrived>>
           \/ ArriveApps \/ FireStreams \/ PopCompleted
<1> USE DEF vars, mainVars, slotVars, phaseVars, arriveVars, retireVars, nodeVars,
   workerVars
<1>1. CASE SubDag \/ KillDaemon \/ Gone \/ UNCHANGED vars
  BY <1>1 DEF SubDag, KillDaemon, Gone
<1>2. CASE ReceiveApps \/ ReceiveNothing \/ EndScheduling \/ EndPass \/ JoinWorkers
           \/ BeginExit \/ CountCompleted \/ RetirePE
  BY <1>2 DEF ReceiveApps, ReceiveNothing, EndScheduling, EndPass, JoinWorkers,
    BeginExit, CountCompleted, RetirePE
<1>3. CASE \E a \in Apps : BecomeDue(a) \/ FreeApp(a)
  BY <1>3 DEF BecomeDue, FreeApp
<1>4. CASE \E n \in Node, w \in PE : AssignTask(n, w)
  BY <1>4 DEF AssignTask
<1>5. CASE \E w \in PE : TakeTask(w) \/ HandBack(w) \/ StopWorker(w)
  BY <1>5 DEF TakeTask, HandBack, StopWorker
<1> QED
  BY <1>1, <1>2, <1>3, <1>4, <1>5 DEF Next, Main, Worker

\* No node of an instance that has not arrived has moved.
LEMMA DueIsUntouched ==
    ASSUME WhereInv, NEW n \in Node, AppOf[n] \in due
    PROVE  iter[n] = 0 /\ ~in_ready_queue[n] /\ ~Running(n)
<1>1. iter[n] \in Nat /\ CoreInv /\ Placed /\ Distinct
  BY PlacedDistinct DEF WhereInv, CoreInv, TypeOK, NodeTypeOK
<1>2. ~(iter[n] > 0 \/ in_ready_queue[n])
  <2>1. AppOf[n] \notin arrived \cup GivenUp
    BY DEF WhereInv, ListInv
  <2> QED
    BY <2>1 DEF WhereInv, ListInv
<1>3. ~Running(n)
  <2> SUFFICES ASSUME NEW w \in PE,
                      n \in ToSet(todo[w]) \cup {task[w]} \cup ToSet(completed[w])
               PROVE  FALSE
    BY DEF Running
  <2>1. n # NoNode
    BY DaemonAssumption
  <2>2. ASSUME n \in ToSet(todo[w]) PROVE n \in Marked
    <3>1. <<"todo", w>> \in Place /\ Contents(<<"todo", w>>) = ToSet(todo[w])
      BY ContentsAt
    <3> QED
      BY <1>1, <2>2, <3>1, MarkedSomewhere
  <2>3. ASSUME n = task[w] PROVE n \in Marked
    <3>1. <<"held", w>> \in Place /\ Contents(<<"held", w>>) = {task[w]} \ {NoNode}
      BY ContentsAt
    <3> QED
      BY <1>1, <2>1, <2>3, <3>1, MarkedSomewhere
  <2>4. ASSUME n \in ToSet(completed[w]) PROVE n \in Marked
    <3>1. <<"handed", w>> \in Place /\ Contents(<<"handed", w>>) = ToSet(completed[w])
      BY ContentsAt
    <3> QED
      BY <1>1, <2>4, <3>1, MarkedSomewhere
  <2>5. n \in Marked
    BY <2>2, <2>3, <2>4
  <2> QED
    BY <1>2, <2>5 DEF Marked
<1> QED
  BY <1>1, <1>2, <1>3

\* The last predecessor to be drained, or the arrival, marks a node.
LEMMA ReleaseStep ==
    ASSUME WhereInv, ReleaseInv, [Next]_vars
    PROVE  ReleaseInv'
<1> SUFFICES ASSUME NEW n \in Node, AppOf[n] \in arrived', ~Streaming(AppOf[n]),
                    iter'[n] = 0, \A p \in Pred[n] : iter'[p] = 1
             PROVE  in_ready_queue'[n]
  BY DEF ReleaseInv
<1>0. /\ CoreInv /\ NodeInOnePlace
      /\ iter \in [Node -> Nat] /\ in_ready_queue \in [Node -> BOOLEAN]
  BY DEF WhereInv, CoreInv, TypeOK, NodeTypeOK
<1>1. Mode[AppOf[n]] = "none" /\ WiredPred(n) = Pred[n]
  BY DEF Streaming, WiredPred, Sequential
<1>2. CASE UNCHANGED <<iter, in_ready_queue, arrived>>
  BY <1>2 DEF ReleaseInv
<1>3. CASE ArriveApps
  <2>1. /\ arrived' = arrived \cup due /\ UNCHANGED iter
        /\ in_ready_queue' = [m \in Node |-> in_ready_queue[m] \/ m \in Starters(due)]
    BY <1>3 DEF ArriveApps
  <2>2. CASE AppOf[n] \in arrived
    BY <2>1, <2>2 DEF ReleaseInv
  <2>3. CASE AppOf[n] \in due
    <3>1. iter[n] = 0 /\ ~Running(n)
      BY <2>3, DueIsUntouched
    <3>2. Pred[n] = {}
      <4> SUFFICES ASSUME NEW p \in Pred[n] PROVE FALSE
        OBVIOUS
      <4>1. p \in Node /\ AppOf[p] = AppOf[n]
        BY SameApp
      <4>2. iter[p] = 0
        BY <2>3, <4>1, DueIsUntouched
      <4> QED
        BY <2>1, <4>2
    <3>3. CheckPred(iter, n)
      BY <1>1, <3>2 DEF CheckPred
    <3>4. n \in Starters(due)
      BY <2>3, <3>1, <3>3 DEF Starters
    <3> QED
      BY <2>1, <3>4
  <2> QED
    BY <2>1, <2>2, <2>3
<1>4. CASE FireStreams
  <2>1. /\ UNCHANGED <<arrived, iter>>
        /\ in_ready_queue' = [m \in Node |-> in_ready_queue[m] \/ m \in Fireable]
    BY <1>4 DEF FireStreams, arriveVars
  <2>2. in_ready_queue[n]
    BY <2>1 DEF ReleaseInv
  <2> QED
    BY <2>1, <2>2
<1>5. CASE PopCompleted
  <2> DEFINE d == Head(completed[idx])
  <2>1. mpc = "pop"
    BY <1>5 DEF PopCompleted
  <2>2. d \in Node
    BY <1>0, <2>1, DrainedIsMarked
  <2>3. /\ iter' = [iter EXCEPT ![d] = @ + 1]
        /\ in_ready_queue' = [m \in Node |->
              m \in Released(d, iter') \/ (m # d /\ in_ready_queue[m])]
    BY <1>5, PopEffect
  <2>4. arrived' \subseteq arrived
    BY <1>5 DEF PopCompleted
  <2> HIDE DEF d
  <2>5. n # d /\ iter[n] = 0
    BY <1>0, <2>2, <2>3
  <2>6. CASE d \in Pred[n]
    <3>1. AppOf[d] = AppOf[n] /\ n \in WiredSucc(d)
      BY <2>6, SameApp, <1>1 DEF WiredSucc, Succ, Sequential
    <3>2. CheckPred(iter', n)
      BY <1>1 DEF CheckPred
    <3>3. n \in Released(d, iter') \/ in_ready_queue[n]
      BY <3>1, <3>2 DEF Released
    <3> QED
      BY <2>3, <2>5, <3>3
  <2>7. CASE d \notin Pred[n]
    <3>1. \A p \in Pred[n] : p \in Node /\ p # d
      BY <2>7, SameApp
    <3>2. \A p \in Pred[n] : iter[p] = 1
      BY <1>0, <2>3, <3>1
    <3>3. in_ready_queue[n]
      BY <2>4, <2>5, <3>2 DEF ReleaseInv
    <3> QED
      BY <2>3, <2>5, <3>3
  <2> QED
    BY <2>6, <2>7
<1> QED
  BY <1>2, <1>3, <1>4, <1>5, WhoProgresses

\* A tail is fired when all heads are one frame ahead.
LEMMA RingStep ==
    ASSUME WhereInv, RingInv, [Next]_vars
    PROVE  RingInv'
<1> DEFINE mark(n) == IF in_ready_queue[n] THEN 1 ELSE 0
           mark2(n) == IF in_ready_queue'[n] THEN 1 ELSE 0
<1> SUFFICES ASSUME NEW t \in Node, NEW h \in Node, AppOf[t] = AppOf[h], Sequential(t),
                    Ringable(AppOf[t]), IsTail(t), IsHead(h)
             PROVE  iter'[h] >= iter'[t] + mark2(t)
  BY DEF RingInv
<1>0. /\ CoreInv /\ NodeInOnePlace
      /\ iter \in [Node -> Nat] /\ in_ready_queue \in [Node -> BOOLEAN]
  BY DEF WhereInv, CoreInv, TypeOK, NodeTypeOK
<1>1. iter[h] >= iter[t] + mark(t)
  BY DEF RingInv
<1>2. /\ Mode[AppOf[t]] = "sequential" /\ Streaming(AppOf[t])
      /\ h \in Heads(AppOf[t]) /\ t \in Tails(AppOf[t]) /\ ~IsHead(t)
  <2>1. Mode[AppOf[t]] = "sequential"
    BY DEF Sequential
  <2>2. h \in Heads(AppOf[t]) /\ t \in Tails(AppOf[t])
    BY DEF Heads, Tails, NodesOf
  <2>3. t \notin Heads(AppOf[t])
    BY <2>1, <2>2 DEF Ringable
  <2> QED
    BY <2>1, <2>2, <2>3 DEF Heads, NodesOf, Streaming
<1>3. CASE UNCHANGED <<iter, in_ready_queue, arrived>>
  BY <1>1, <1>3
<1>4. CASE ArriveApps
  <2>1. /\ UNCHANGED iter
        /\ in_ready_queue' = [m \in Node |-> in_ready_queue[m] \/ m \in Starters(due)]
    BY <1>4 DEF ArriveApps
  <2>2. t \notin Starters(due)
    <3> SUFFICES ASSUME t \in Starters(due) PROVE FALSE
      OBVIOUS
    <3>1. AppOf[t] \in due /\ iter[t] = 0 /\ CheckPred(iter, t)
      BY DEF Starters
    <3>2. PICK p \in Pred[t] : p \in Node /\ AppOf[p] = AppOf[t]
      BY <1>2, SameApp DEF IsHead
    <3>3. WiredPred(t) = Pred[t]
      BY <1>2 DEF WiredPred
    <3>4. iter[p] # iter[t]
      BY <1>2, <3>1, <3>2, <3>3 DEF CheckPred
    <3>5. iter[p] = 0
      BY <3>1, <3>2, DueIsUntouched
    <3> QED
      BY <3>1, <3>4, <3>5
  <2>3. in_ready_queue'[t] = in_ready_queue[t]
    BY <1>0, <2>1, <2>2
  <2> QED
    BY <1>1, <2>1, <2>3
<1>5. CASE FireStreams
  <2>1. /\ UNCHANGED iter
        /\ in_ready_queue' = [m \in Node |-> in_ready_queue[m] \/ m \in Fireable]
    BY <1>5 DEF FireStreams
  <2>2. CASE t \in Fireable
    <3>1. CheckSucc(t)
      BY <2>2 DEF Fireable
    <3>2. h \in WiredSucc(t)
      BY <1>2 DEF WiredSucc
    <3>3. iter[h] = iter[t] + 1
      BY <1>2, <3>1, <3>2 DEF CheckSucc
    <3> QED
      BY <1>0, <2>1, <3>3
  <2>3. CASE t \notin Fireable
    <3>1. in_ready_queue'[t] = in_ready_queue[t]
      BY <1>0, <2>1, <2>3
    <3> QED
      BY <1>1, <2>1, <3>1
  <2> QED
    BY <2>2, <2>3
<1>6. CASE PopCompleted
  <2> DEFINE d == Head(completed[idx])
  <2>1. mpc = "pop"
    BY <1>6 DEF PopCompleted
  <2>2. d \in Node /\ in_ready_queue[d]
    BY <1>0, <2>1, DrainedIsMarked
  <2>3. /\ iter' = [iter EXCEPT ![d] = @ + 1]
        /\ in_ready_queue' = [m \in Node |->
              m \in Released(d, iter') \/ (m # d /\ in_ready_queue[m])]
    BY <1>6, PopEffect
  <2> HIDE DEF d
  <2>4. t \notin Released(d, iter')
    <3> SUFFICES ASSUME t \in Released(d, iter') PROVE FALSE
      OBVIOUS
    <3>1. t \in WiredSucc(d) /\ ~Streaming(AppOf[d])
      BY DEF Released
    <3>2. AppOf[t] = AppOf[d]
      BY <2>2, <3>1, SameApp
    <3> QED
      BY <1>2, <3>1, <3>2
  <2>5. iter'[h] \in Nat /\ iter'[h] >= iter[h]
    BY <1>0, <2>2, <2>3
  <2>6. iter'[t] + mark2(t) <= iter[t] + mark(t)
    <3>1. CASE t = d
      <4>1. iter'[t] = iter[t] + 1 /\ ~in_ready_queue'[t] /\ in_ready_queue[t]
        BY <1>0, <2>2, <2>3, <2>4, <3>1
      <4> QED
        BY <1>0, <4>1
    <3>2. CASE t # d
      <4>1. iter'[t] = iter[t] /\ in_ready_queue'[t] = in_ready_queue[t]
        BY <1>0, <2>3, <2>4, <3>2
      <4> QED
        BY <1>0, <4>1
    <3> QED
      BY <3>1, <3>2
  <2>7. iter'[t] \in Nat /\ iter[t] \in Nat /\ iter[h] \in Nat
    BY <1>0, <2>2, <2>3
  <2>8. mark(t) \in {0, 1} /\ mark2(t) \in {0, 1}
    OBVIOUS
  <2> HIDE DEF mark, mark2
  <2> QED
    BY <1>1, <2>5, <2>6, <2>7, <2>8
<1> QED
  BY <1>3, <1>4, <1>5, <1>6, WhoProgresses

\* An instance of which each node has finished each frame is full.
LEMMA AllIsCounted ==
    ASSUME iter' \in [Node -> Nat], NEW a \in Apps,
           \A n \in NodesOf(a) : iter'[n] >= Limit(a)
    PROVE  Cardinality(Finished(a)') = Cardinality(NodesOf(a)) * Limit(a)
<1> DEFINE F == NodesOf(a) \X (0..(Limit(a) - 1))
<1>1. Limit(a) \in Nat
  BY Bounds
<1>2. ASSUME NEW f \in F PROVE f[2] < iter'[f[1]]
  <2>1. f[1] \in NodesOf(a) /\ f[2] \in 0..(Limit(a) - 1)
    OBVIOUS
  <2>2. f[1] \in Node /\ iter'[f[1]] >= Limit(a)
    BY <2>1 DEF NodesOf
  <2>3. iter'[f[1]] \in Nat
    BY <2>2
  <2> HIDE DEF F
  <2> QED
    BY <1>1, <2>1, <2>2, <2>3
<1>3. Finished(a)' = F
  BY <1>2 DEF Finished
<1> QED
  BY <1>3, FrameSet

\* The drain of the last frame of an instance gives it up.
LEMMA UnfinishedStep ==
    ASSUME WhereInv, UnfinishedInv, CountInv', [Next]_vars
    PROVE  UnfinishedInv'
<1> SUFFICES ASSUME NEW a \in arrived', Goal(a) > 0, NodesOf(a) # {}
             PROVE  \E n \in NodesOf(a) : iter'[n] < Goal(a)
  BY DEF UnfinishedInv
<1>0. /\ CoreInv /\ NodeInOnePlace /\ arrived \subseteq Apps /\ due \subseteq Apps
      /\ iter \in [Node -> Nat] /\ completed_count \in [Apps -> Nat]
  BY DEF WhereInv, CoreInv, TypeOK, NodeTypeOK, MainTypeOK
<1>1. a \in arrived => \E n \in NodesOf(a) : iter[n] < Goal(a)
  BY DEF UnfinishedInv
<1>2. CASE UNCHANGED <<iter, in_ready_queue, arrived>>
  BY <1>1, <1>2
<1>3. CASE ArriveApps
  <2>1. arrived' = arrived \cup due /\ UNCHANGED iter
    BY <1>3 DEF ArriveApps
  <2>2. CASE a \in due
    <3>1. PICK n \in NodesOf(a) : n \in Node /\ AppOf[n] = a
      BY DEF NodesOf
    <3>2. iter[n] = 0
      BY <2>2, <3>1, DueIsUntouched
    <3> QED
      BY <2>1, <3>1, <3>2
  <2> QED
    BY <1>1, <2>1, <2>2
<1>4. CASE FireStreams
  BY <1>1, <1>4 DEF FireStreams, arriveVars
<1>5. CASE PopCompleted
  <2> DEFINE d == Head(completed[idx])
             b == AppOf[d]
  <2>1. mpc = "pop"
    BY <1>5 DEF PopCompleted
  <2>2. d \in Node /\ b \in Apps
    BY <1>0, <2>1, DrainedIsMarked, GraphAssumption
  <2>3. /\ iter' = [iter EXCEPT ![d] = @ + 1]
        /\ completed_count' = [completed_count EXCEPT ![b] = @ + 1]
    BY <1>5, PopEffect
  <2>4. /\ AppDone(b, completed_count[b] + 1) => arrived' = arrived \ {b}
        /\ arrived' \subseteq arrived
    BY <1>5 DEF PopCompleted
  <2> HIDE DEF d
  <2>5. a \in arrived /\ a \in Apps
    BY <1>0, <2>4
  <2>6. CASE a # b
    <3>1. PICK n \in NodesOf(a) : iter[n] < Goal(a)
      BY <1>1, <2>5
    <3>2. n \in Node /\ n # d
      BY <2>6 DEF NodesOf
    <3> QED
      BY <1>0, <2>3, <3>1, <3>2
  <2>7. CASE a = b
    <3> SUFFICES ASSUME \A n \in NodesOf(a) : ~(iter'[n] < Goal(a)) PROVE FALSE
      OBVIOUS
    <3>1. /\ Limit(a) = Goal(a) /\ Goal(a) \in Nat
          /\ (~Streaming(a) => Goal(a) = 1) /\ (Streaming(a) => Goal(a) = Frames[a])
      BY <2>5, Bounds
    <3>2. iter' \in [Node -> Nat]
      BY <1>0, <2>2, <2>3
    <3>3. \A n \in NodesOf(a) : iter'[n] >= Limit(a)
      BY <3>1, <3>2 DEF NodesOf
    <3>4. Cardinality(Finished(a)') = Cardinality(NodesOf(a)) * Limit(a)
      BY <2>5, <3>2, <3>3, AllIsCounted
    <3>5. completed_count'[a] = Cardinality(Finished(a)')
      BY <2>5 DEF CountInv
    <3>6. completed_count'[a] = completed_count[b] + 1
      BY <1>0, <2>2, <2>3, <2>7
    <3>7. completed_count[b] + 1 = Cardinality(NodesOf(b)) * Goal(b)
      BY <2>7, <3>1, <3>4, <3>5, <3>6
    <3>8. Cardinality(NodesOf(b)) \in Nat
      BY <2>2, FrameSet
    <3>9. AppDone(b, completed_count[b] + 1)
      <4>1. CASE Streaming(b)
        BY <2>7, <3>1, <3>7, <4>1 DEF AppDone
      <4>2. CASE ~Streaming(b)
        <5>1. Goal(b) = 1
          BY <2>7, <3>1, <4>2
        <5>2. completed_count[b] + 1 = Cardinality(NodesOf(b))
          BY <3>7, <3>8, <5>1
        <5> QED
          BY <4>2, <5>2 DEF AppDone
      <4> QED
        BY <4>1, <4>2
    <3> QED
      BY <2>4, <2>7, <3>9
  <2> QED
    BY <2>6, <2>7
<1> QED
  BY <1>2, <1>3, <1>4, <1>5, WhoProgresses

LEMMA ProgressStep ==
    ASSUME WhereInv, CountInv', ProgressInv, [Next]_vars
    PROVE  ProgressInv'
BY ReleaseStep, RingStep, UnfinishedStep DEF ProgressInv

LEMMA ProgressInit == Init => ProgressInv
<1> SUFFICES ASSUME Init PROVE ProgressInv
  OBVIOUS
<1>1. arrived = {} /\ \A n \in Node : iter[n] = 0 /\ ~in_ready_queue[n]
  BY DEF Init
<1>2. ReleaseInv /\ UnfinishedInv
  BY <1>1 DEF ReleaseInv, UnfinishedInv
<1>3. RingInv
  <2>1. \A t, h \in Node : iter[h] >= iter[t] + (IF in_ready_queue[t] THEN 1 ELSE 0)
    BY <1>1
  <2> QED
    BY <2>1 DEF RingInv
<1> QED
  BY <1>2, <1>3 DEF ProgressInv

-----------------------------------------------------------------------------
(* An idle daemon joins its workers.                                       *)

\* Where every instance is either given up or has not arrived, no node is marked;
\* so nothing is left when an idle daemon exits.
LEMMA NothingLeft ==
    ASSUME WhereInv, RetiredInv, LimitInv, FlightInv, ExitInv, Exiting, cmd # "CLOSED"
    PROVE  /\ \A a \in Apps : Fresh(a) \/ a \in payload \cup freed
           /\ \A p \in Place : Contents(p) = {}
<1>1. unarrived = {} /\ arrived = {} /\ completed_apps = {}
  BY DEF ExitInv
<1>2. \A a \in Apps : Fresh(a) \/ a \in payload \cup freed
  BY <1>1 DEF Fresh
<1>3. ASSUME NEW n \in Node, in_ready_queue[n] PROVE FALSE
  <2>1. AppOf[n] \in GivenUp
    BY <1>1, <1>3 DEF WhereInv, ListInv
  <2>2. Goal(AppOf[n]) > 0 /\ iter[n] = Goal(AppOf[n])
    BY <2>1 DEF RetiredInv, NodesOf
  <2>3. AppOf[n] \in Apps
    BY GraphAssumption
  <2>4. Limit(AppOf[n]) = Goal(AppOf[n]) /\ Goal(AppOf[n]) \in Nat
    BY <2>2, <2>3, Bounds
  <2>5. iter[n] < Limit(AppOf[n])
    BY <1>3 DEF FlightInv, InFlight
  <2> QED
    BY <2>2, <2>4, <2>5
<1>4. Marked = {}
  BY <1>3 DEF Marked
<1>5. \A p \in Place : Contents(p) = {}
  BY <1>4, MarkedSomewhere, PlacedDistinct DEF WhereInv
<1> QED
  BY <1>2, <1>5

\* What every action leaves but those on the way out and those of workers.
StopStill ==
    /\ UNCHANGED resource_state
    /\ Exiting' /\ cmd' # "CLOSED" => cmd # "CLOSED" /\ UNCHANGED <<mpc, idx>>

LEMMA WhoStops ==
    ASSUME [Next]_vars
    PROVE  StopStill \/ BeginExit \/ RetirePE \/ JoinWorkers
           \/ \E w \in PE : TakeTask(w) \/ HandBack(w)
<1> USE DEF StopStill, Exiting, vars, mainVars, slotVars, phaseVars, workerVars
<1>1. CASE SubDag \/ KillDaemon \/ Gone \/ UNCHANGED vars
  BY <1>1 DEF SubDag, KillDaemon, Gone
<1>2. CASE ReceiveApps \/ ReceiveNothing \/ EndScheduling \/ EndPass \/ CountCompleted
  BY <1>2 DEF ReceiveApps, ReceiveNothing, EndScheduling, EndPass, CountCompleted
<1>3. CASE PopCompleted \/ ArriveApps \/ FireStreams
  BY <1>3 DEF PopCompleted, ArriveApps, FireStreams
<1>4. CASE \E a \in Apps : BecomeDue(a) \/ FreeApp(a)
  BY <1>4 DEF BecomeDue, FreeApp
<1>5. CASE \E n \in Node, w \in PE : AssignTask(n, w)
  BY <1>5 DEF AssignTask
<1>6. CASE \E w \in PE : StopWorker(w)
  BY <1>6 DEF StopWorker
<1> QED
  BY <1>1, <1>2, <1>3, <1>4, <1>5, <1>6 DEF Next, Main, Worker

\* A worker that has nothing to take or to hand back keeps the order to stop.
LEMMA StopStep ==
    ASSUME WhereInv, RetiredInv, LimitInv, FlightInv, ExitInv, StopInv, [Next]_vars
    PROVE  StopInv'
<1> SUFFICES ASSUME Exiting', cmd' # "CLOSED"
             PROVE  /\ mpc' = "retire" => \A v \in PE : v < idx' => resource_state'[v] = 3
                    /\ mpc' \in {"joinworkers", "done"} => \A v \in PE : resource_state'[v] = 3
  BY DEF StopInv
<1>0. /\ resource_state \in [PE -> {0, 1, 3}] /\ NumPEs \in Nat /\ PE = 1..NumPEs
      /\ idx \in Nat /\ CoreInv
  BY DaemonAssumption DEF WhereInv, CoreInv, TypeOK, WorkerTypeOK, MainTypeOK, PE
<1>1. CASE StopStill
  <2>1. /\ cmd # "CLOSED" /\ UNCHANGED <<mpc, idx, resource_state>>
        /\ Exiting
    BY <1>1 DEF StopStill, Exiting
  <2> QED
    BY <2>1 DEF StopInv
<1>2. CASE BeginExit
  <2>1. mpc' = "retire" /\ idx' = 1
    BY <1>2 DEF BeginExit
  <2>2. \A v \in PE : ~(v < idx')
    BY <1>0, <2>1
  <2> QED
    BY <2>1, <2>2
<1>3. CASE RetirePE
  <2>1. /\ mpc = "retire" /\ cmd # "CLOSED" /\ Exiting
        /\ resource_state' = [resource_state EXCEPT ![idx] = 3]
        /\ \/ mpc' = "retire" /\ idx' = idx + 1
           \/ mpc' = "joinworkers" /\ ~(idx < NumPEs)
    BY <1>3 DEF RetirePE, slotVars, Exiting
  <2>2. \A v \in PE : v < idx => resource_state[v] = 3
    BY <2>1 DEF StopInv
  <2>3. idx \in PE
    BY <1>0, <2>1 DEF CoreInv, LoopInv
  <2>4. \A v \in PE : v <= idx => resource_state'[v] = 3
    <3> SUFFICES ASSUME NEW v \in PE, v <= idx PROVE resource_state'[v] = 3
      OBVIOUS
    <3>1. resource_state'[v] = IF v = idx THEN 3 ELSE resource_state[v]
      BY <1>0, <2>1
    <3>2. v \in Int /\ idx \in Int
      BY <1>0
    <3>3. v = idx \/ v < idx
      BY <3>2
    <3> QED
      BY <2>2, <3>1, <3>3
  <2>5. CASE mpc' = "retire" /\ idx' = idx + 1
    <3>1. \A v \in PE : v < idx' => v <= idx
      BY <1>0, <2>5
    <3> QED
      BY <2>4, <2>5, <3>1
  <2>6. CASE mpc' = "joinworkers" /\ ~(idx < NumPEs)
    <3>1. \A v \in PE : v <= idx
      BY <1>0, <2>6
    <3> QED
      BY <2>4, <2>6, <3>1
  <2> QED
    BY <2>1, <2>5, <2>6
<1>4. CASE JoinWorkers
  <2>1. /\ mpc = "joinworkers" /\ mpc' = "done" /\ cmd # "CLOSED" /\ Exiting
        /\ UNCHANGED resource_state
    BY <1>4 DEF JoinWorkers, slotVars, workerVars, Exiting
  <2> QED
    BY <2>1 DEF StopInv
<1>5. ASSUME NEW w \in PE, TakeTask(w) \/ HandBack(w) PROVE FALSE
  <2>1. /\ UNCHANGED <<mpc, cmd>>
        /\ todo[w] # <<>> \/ wpc[w] = "run"
    BY <1>5 DEF TakeTask, HandBack, mainVars, slotVars, phaseVars
  <2>2. Exiting /\ cmd # "CLOSED"
    BY <2>1 DEF Exiting
  <2>3. \A p \in Place : Contents(p) = {}
    BY <2>2, NothingLeft
  <2>4. ToSet(todo[w]) = {}
    BY <2>3, ContentsAt
  <2>5. todo[w] = <<>>
    <3>1. todo[w] \in Seq(Node)
      BY <1>0 DEF CoreInv, TypeOK, WorkerTypeOK
    <3> QED
      BY <2>4, <3>1, EmptyAsSet
  <2>6. {task[w]} \ {NoNode} = {}
    BY <2>3, ContentsAt
  <2>7. wpc[w] # "run"
    BY <1>0, <2>6 DEF CoreInv, WorkerInv
  <2> QED
    BY <2>1, <2>5, <2>7
<1> QED
  BY <1>1, <1>2, <1>3, <1>4, <1>5, WhoStops

-----------------------------------------------------------------------------
LEMMA DagInvParts ==
    DagInv <=> WhereInv /\ FlowInv /\ CountInv /\ RetiredInv /\ ExitInv
                /\ StopInv /\ ProgressInv
BY DEF DagInv, WhereInv, CoreInv

LEMMA DagInit == Init => DagInv
<1>1. Init => ExitInv /\ StopInv
  BY DEF Init, ExitInv, StopInv, Exiting
<1> QED
  BY <1>1, WhereInit, FlowInit, CountInit, ProgressInit, DagInvParts

LEMMA DagInductive == DagInv /\ [Next]_vars => DagInv'
<1> SUFFICES ASSUME DagInv, [Next]_vars PROVE DagInv'
  OBVIOUS
<1>1. WhereInv /\ FlowInv /\ CountInv /\ RetiredInv /\ ExitInv /\ StopInv /\ ProgressInv
  BY DagInvParts
<1>2. WhereInv' /\ FlowInv' /\ CountInv' /\ RetiredInv' /\ ExitInv'
  BY <1>1, WhereInductive, FlowStep, CountStep, ExitStep
<1>3. ProgressInv'
  BY <1>1, <1>2, ProgressStep
<1>4. StopInv'
  BY <1>1, StopStep DEF FlowInv
<1> QED
  BY <1>2, <1>3, <1>4 DEF DagInv, WhereInv, CoreInv

\* The whole inductive invariant of the daemon.
THEOREM DagInvariance == Spec => []DagInv
BY DagInit, DagInductive, PTL DEF Spec

-----------------------------------------------------------------------------
(* What it implies.                                                        *)

\* A node in a worker's hands is marked.
LEMMA ExecutingIsMarked ==
    ASSUME WhereInv, NEW n \in Executing
    PROVE  n \in Node /\ in_ready_queue[n]
<1>1. PICK w \in PE : n \in Contents(<<"held", w>>)
  BY DEF Executing
<1>2. n \in Marked
  BY <1>1, ContentsAt, MarkedSomewhere, PlacedDistinct DEF WhereInv
<1> QED
  BY <1>2 DEF Marked

\* A producer and a consumer never use the same buffer at the same time.
THEOREM BuffersAreExclusive == Spec => []BufferExclusion
<1>1. ASSUME DagInv PROVE BufferExclusion
  <2> SUFFICES ASSUME NEW c \in Executing, NEW p \in Pred[c] \cap Executing
               PROVE  Mode[AppOf[c]] = "double" /\ iter[p] % 2 # iter[c] % 2
    BY DEF BufferExclusion
  <2>1. /\ c \in Node /\ p \in Node /\ AppOf[p] = AppOf[c] /\ c \in Succ(p)
        /\ InFlight(c) /\ InFlight(p)
    BY <1>1, ExecutingIsMarked, SameApp, DagInvParts DEF FlowInv, FlightInv, Succ
  <2>2. iter[c] \in Nat /\ iter[p] \in Nat
    BY <1>1, <2>1 DEF DagInv, TypeOK, NodeTypeOK
  <2>3. iter[p] >= iter[c] + 1 /\ iter[c] >= iter[p] + 1 - Depth(AppOf[c])
    BY <2>1 DEF InFlight
  <2>4. Depth(AppOf[c]) = 2
    BY <2>2, <2>3 DEF Depth
  <2>5. iter[p] = iter[c] + 1
    BY <2>2, <2>3, <2>4
  <2> QED
    BY <2>2, <2>4, <2>5 DEF Depth
<1> QED
  BY <1>1, DagInvariance, PTL

\* A sequential instance has one frame in its graph at a time.
THEOREM FramesGoInSequence == Spec => []OneFrameAtATime
<1>1. ASSUME DagInv PROVE OneFrameAtATime
  <2> SUFFICES ASSUME NEW n \in Executing, Sequential(n), Ringable(AppOf[n]),
                      NEW m \in NodesOf(AppOf[n])
               PROVE  iter[m] \in {iter[n], iter[n] + 1}
    BY DEF OneFrameAtATime
  <2>1. n \in Node /\ m \in Node /\ AppOf[m] = AppOf[n] /\ InFlight(n)
    BY <1>1, ExecutingIsMarked, DagInvParts DEF FlowInv, FlightInv, NodesOf
  <2>2. iter[n] \in Nat /\ iter[m] \in Nat
    BY <1>1, <2>1 DEF DagInv, TypeOK, NodeTypeOK
  <2>3. iter[m] >= iter[n]
    BY <2>1 DEF InFlight
  <2>4. iter[m] <= iter[n] + 1
    BY <1>1, <2>1 DEF DagInv, FlowInv, SpreadInv, Sequential, NodesOf
  <2> QED
    BY <2>2, <2>3, <2>4
<1> QED
  BY <1>1, DagInvariance, PTL

\* No marked node belongs to an instance that was given up.
LEMMA GivenUpIsUnmarked ==
    ASSUME DagInv, NEW n \in Node, AppOf[n] \in GivenUp
    PROVE  ~in_ready_queue[n] /\ iter[n] = Goal(AppOf[n])
<1>1. Goal(AppOf[n]) > 0 /\ iter[n] = Goal(AppOf[n])
  BY DEF DagInv, RetiredInv, NodesOf
<1>2. Limit(AppOf[n]) = Goal(AppOf[n]) /\ Goal(AppOf[n]) \in Nat
  BY <1>1, Bounds, GraphAssumption
<1>3. in_ready_queue[n] => iter[n] < Limit(AppOf[n])
  BY DEF DagInv, FlowInv, FlightInv, InFlight
<1> QED
  BY <1>1, <1>2, <1>3

\* An instance is given up, and its memory freed, only when each of its nodes
\* has processed each frame and none of them is in any queue.
THEOREM GivenUpInstancesAreDone == Spec => []GivenUpIsDone
<1>1. ASSUME DagInv PROVE GivenUpIsDone
  <2> SUFFICES ASSUME NEW a \in GivenUp, NEW n \in NodesOf(a)
               PROVE  iter[n] = Goal(a) /\ \A p \in Place : n \notin Contents(p)
    BY DEF GivenUpIsDone
  <2>1. n \in Node /\ AppOf[n] = a
    BY DEF NodesOf
  <2>2. ~in_ready_queue[n] /\ iter[n] = Goal(a)
    BY <1>1, <2>1, GivenUpIsUnmarked
  <2>3. \A p \in Place : n \notin Contents(p)
    BY <1>1, <2>2, MarkedSomewhere, PlacedDistinct DEF DagInv, Marked
  <2> QED
    BY <2>2, <2>3
<1> QED
  BY <1>1, DagInvariance, PTL

\* A daemon that exits because it is idle has finished all it accepted, and the
\* workers it joins have all been told to stop.
THEOREM IdleExitLeavesNothing == Spec => []IdleExitIsClean
<1>1. ASSUME DagInv PROVE IdleExitIsClean
  <2>1. WhereInv /\ RetiredInv /\ LimitInv /\ FlightInv /\ ExitInv /\ StopInv
    BY <1>1, DagInvParts DEF FlowInv
  <2> QED
    BY <2>1, NothingLeft DEF IdleExitIsClean, StopInv
<1> QED
  BY <1>1, DagInvariance, PTL

-----------------------------------------------------------------------------
(* The pipeline does not wait for itself.                                  *)

\* Natural numbers have a least one among them.
LEMMA LeastNat ==
    ASSUME NEW T \in SUBSET Nat, T # {}
    PROVE  \E x \in T : \A y \in T : x <= y
<1> DEFINE R == {s \in Nat \X Nat : s[1] < s[2]}
<1>1. IsWellFoundedOn(R, Nat)
  BY NatLessThanWellFounded DEF OpToRel
<1>2. \A x, y \in Nat : <<y, x>> \notin R => x <= y
  OBVIOUS
<1> HIDE DEF R
<1>3. PICK x \in T : \A y \in T : <<y, x>> \notin R
  BY <1>1, WFMin
<1> QED
  BY <1>2, <1>3

\* The nodes of an instance that are furthest behind.
Behind(a) == {n \in NodesOf(a) : \A m \in NodesOf(a) : iter[n] <= iter[m]}

\* They have successors at their own frame only, and a first one among them has
\* predecessors a frame ahead.
LEMMA FirstBehind ==
    ASSUME iter \in [Node -> Nat], EdgeInv, NEW a \in Apps, NodesOf(a) # {}
    PROVE  /\ \A n \in Behind(a), c \in Node : n \in Pred[c] => iter[c] = iter[n]
           /\ \E n \in Behind(a) : \A p \in Pred[n] : iter[p] > iter[n]
<1>1. Behind(a) \in SUBSET Node
  BY DEF Behind, NodesOf
<1>2. Behind(a) # {}
  <2> DEFINE T == {iter[n] : n \in NodesOf(a)}
  <2>1. T \in SUBSET Nat /\ T # {}
    BY DEF NodesOf
  <2> HIDE DEF T
  <2>2. PICK x \in T : \A y \in T : x <= y
    BY <2>1, LeastNat
  <2>3. PICK n \in NodesOf(a) : x = iter[n]
    BY <2>2 DEF T
  <2>4. \A m \in NodesOf(a) : iter[n] <= iter[m]
    BY <2>2, <2>3 DEF T
  <2> QED
    BY <2>3, <2>4 DEF Behind
<1>3. ASSUME NEW n \in Behind(a), NEW c \in Node, n \in Pred[c] PROVE iter[c] = iter[n]
  <2>1. n \in Node /\ c \in NodesOf(a) /\ AppOf[n] = a
    BY <1>1, <1>3, SameApp DEF Behind, NodesOf
  <2>2. iter[c] <= iter[n] /\ iter[n] <= iter[c]
    BY <1>3, <2>1 DEF EdgeInv, Behind
  <2>3. iter[c] \in Nat /\ iter[n] \in Nat
    BY <2>1
  <2> QED
    BY <2>2, <2>3
<1>4. PICK n \in Behind(a) : Pred[n] \cap Behind(a) = {}
  BY <1>1, <1>2, AcyclicAssumption
<1>5. ASSUME NEW p \in Pred[n] PROVE iter[p] > iter[n]
  <2>1. n \in Node /\ AppOf[n] = a /\ p \in Node /\ AppOf[p] = a
    BY <1>1, SameApp DEF Behind, NodesOf
  <2>2. p \in NodesOf(a) /\ p \notin Behind(a)
    BY <1>4, <2>1 DEF NodesOf
  <2>3. PICK m \in NodesOf(a) : ~(iter[p] <= iter[m])
    BY <2>2 DEF Behind
  <2>4. iter[n] <= iter[m] /\ m \in Node
    BY <2>3 DEF Behind, NodesOf
  <2>5. iter[p] \in Nat /\ iter[m] \in Nat /\ iter[n] \in Nat
    BY <2>1, <2>4
  <2> QED
    BY <2>3, <2>4, <2>5
<1> QED
  BY <1>3, <1>4, <1>5

\* A node behind all others that is not held up by a predecessor may fire, when
\* no ring is to be closed.
LEMMA LastMayFire ==
    ASSUME iter \in [Node -> Nat], EdgeInv, SpreadInv, NEW a \in Apps,
           NEW n \in Behind(a), \A p \in Pred[n] : iter[p] > iter[n],
           \A c \in Node : n \in Pred[c] => iter[c] = iter[n],
           Streaming(a), Ringable(a),
           Sequential(n) => \A h \in Heads(a) : iter[h] > iter[n]
    PROVE  CheckPred(iter, n) /\ CheckSucc(n)
<1>1. n \in Node /\ AppOf[n] = a /\ n \in NodesOf(a) /\ iter[n] \in Nat
  BY DEF Behind, NodesOf
<1>2. Mode[a] \in {"single", "double", "sequential"}
  BY GraphAssumption DEF Streaming
<1>3. \A p \in Pred[n] : p \in Node /\ iter[p] \in Nat /\ iter[p] # iter[n]
  BY <1>1, SameApp
<1>4. \A c \in Succ(n) : iter[c] = iter[n]
  BY DEF Succ
<1>5. CASE Mode[a] = "single"
  <2>1. WiredPred(n) = Pred[n] /\ WiredSucc(n) = Succ(n)
    BY <1>1, <1>5 DEF WiredPred, WiredSucc, Sequential
  <2>2. \A p \in Pred[n] : iter[p] = iter[n] + 1
    <3> SUFFICES ASSUME NEW p \in Pred[n] PROVE iter[p] = iter[n] + 1
      OBVIOUS
    <3>1. iter[p] <= iter[n] + 1
      BY <1>1, <1>5 DEF EdgeInv, Depth
    <3> QED
      BY <1>1, <1>3, <3>1
  <2>3. CheckPred(iter, n)
    BY <1>1, <1>5, <2>1, <2>2 DEF CheckPred
  <2>4. CheckSucc(n)
    BY <1>1, <1>4, <1>5, <2>1 DEF CheckSucc
  <2> QED
    BY <2>3, <2>4
<1>6. CASE Mode[a] = "double"
  <2>1. WiredPred(n) = Pred[n] /\ WiredSucc(n) = Succ(n)
    BY <1>1, <1>6 DEF WiredPred, WiredSucc, Sequential
  <2>2. CheckPred(iter, n)
    BY <1>1, <1>3, <1>6, <2>1 DEF CheckPred
  <2>3. \A c \in Succ(n) : iter[c] >= iter[n] - 1
    BY <1>1, <1>4
  <2>4. CheckSucc(n)
    BY <1>1, <1>6, <2>1, <2>3 DEF CheckSucc
  <2> QED
    BY <2>2, <2>4
<1>7. CASE Mode[a] = "sequential"
  <2>1. Sequential(n) /\ ~IsHead(n)
    <3>1. Sequential(n)
      BY <1>1, <1>7 DEF Sequential
    <3>2. n \notin Heads(a)
      BY <1>1, <3>1
    <3> QED
      BY <1>1, <3>1, <3>2 DEF Heads
  <2>2. WiredPred(n) = Pred[n]
    BY <2>1 DEF WiredPred
  <2>3. CheckPred(iter, n)
    BY <1>1, <1>3, <1>7, <2>1, <2>2 DEF CheckPred
  <2>4. CASE IsTail(n)
    <3>1. WiredSucc(n) = Heads(a)
      BY <1>1, <2>1, <2>4 DEF WiredSucc
    <3>2. ASSUME NEW h \in Heads(a) PROVE iter[h] = iter[n] + 1
      <4>1. h \in Node /\ AppOf[h] = a /\ Sequential(h)
        BY <1>7 DEF Heads, NodesOf, Sequential
      <4>2. iter[h] <= iter[n] + 1
        BY <1>1, <4>1 DEF SpreadInv
      <4>3. iter[h] > iter[n] /\ iter[h] \in Nat
        BY <2>1, <4>1
      <4> QED
        BY <1>1, <4>2, <4>3
    <3>3. CheckSucc(n)
      BY <1>1, <1>7, <2>4, <3>1, <3>2 DEF CheckSucc
    <3> QED
      BY <2>3, <3>3
  <2>5. CASE ~IsTail(n)
    <3>1. WiredSucc(n) = Succ(n)
      BY <2>5 DEF WiredSucc
    <3>2. CheckSucc(n)
      BY <1>1, <1>4, <1>7, <2>5, <3>1 DEF CheckSucc
    <3> QED
      BY <2>3, <3>2
  <2> QED
    BY <2>4, <2>5
<1> QED
  BY <1>2, <1>5, <1>6, <1>7

\* A head behind all others may fire: the ring has come around.
LEMMA HeadMayFire ==
    ASSUME iter \in [Node -> Nat], in_ready_queue \in [Node -> BOOLEAN], RingInv,
           NEW a \in Apps, Mode[a] = "sequential", Ringable(a),
           NEW h \in Behind(a), h \in Heads(a),
           \A c \in Node : h \in Pred[c] => iter[c] = iter[h]
    PROVE  CheckPred(iter, h) /\ CheckSucc(h)
<1>1. h \in Node /\ AppOf[h] = a /\ iter[h] \in Nat /\ IsHead(h) /\ Sequential(h)
  BY DEF Behind, NodesOf, Heads, Sequential
<1>2. ~IsTail(h)
  <2>1. h \notin Tails(a)
    BY DEF Ringable
  <2> QED
    BY <1>1, <2>1 DEF Tails, NodesOf
<1>3. WiredPred(h) = Tails(a) /\ WiredSucc(h) = Succ(h)
  BY <1>1, <1>2 DEF WiredPred, WiredSucc
<1>4. ASSUME NEW t \in Tails(a) PROVE iter[t] = iter[h]
  <2>1. t \in Node /\ AppOf[t] = a /\ IsTail(t) /\ Sequential(t) /\ t \in NodesOf(a)
    BY DEF Tails, NodesOf, Sequential
  <2>2. iter[h] >= iter[t] + (IF in_ready_queue[t] THEN 1 ELSE 0)
    BY <1>1, <2>1 DEF RingInv
  <2>3. iter[h] <= iter[t] /\ iter[t] \in Nat
    BY <2>1 DEF Behind
  <2> QED
    BY <1>1, <2>2, <2>3
<1>5. CheckPred(iter, h)
  BY <1>1, <1>3, <1>4 DEF CheckPred
<1>6. \A c \in Succ(h) : iter[c] = iter[h]
  BY DEF Succ
<1>7. CheckSucc(h)
  BY <1>1, <1>2, <1>3, <1>6 DEF CheckSucc
<1> QED
  BY <1>5, <1>7

\* Of the nodes of an instance with frames to process, one is marked or may be.
LEMMA SomeNodeMoves ==
    ASSUME DagInv, NEW a \in arrived, Ringable(a), Goal(a) > 0, NodesOf(a) # {}
    PROVE  \E n \in NodesOf(a) : in_ready_queue[n] \/ n \in Fireable
<1>1. /\ a \in Apps /\ iter \in [Node -> Nat] /\ in_ready_queue \in [Node -> BOOLEAN]
      /\ EdgeInv /\ SpreadInv /\ LimitInv /\ ReleaseInv /\ RingInv /\ UnfinishedInv
  BY DEF DagInv, TypeOK, NodeTypeOK, MainTypeOK, FlowInv, ProgressInv
<1>2. \A n \in Behind(a), c \in Node : n \in Pred[c] => iter[c] = iter[n]
  BY <1>1, FirstBehind
<1>3. PICK f \in Behind(a) : \A p \in Pred[f] : iter[p] > iter[f]
  BY <1>1, FirstBehind
<1>4. ASSUME NEW n \in Behind(a)
      PROVE  n \in Node /\ n \in NodesOf(a) /\ AppOf[n] = a /\ iter[n] < Goal(a)
  <2>1. n \in Node /\ n \in NodesOf(a) /\ AppOf[n] = a
    BY DEF Behind, NodesOf
  <2>2. PICK m \in NodesOf(a) : iter[m] < Goal(a)
    BY <1>1 DEF UnfinishedInv
  <2>3. iter[n] <= iter[m] /\ iter[n] \in Nat /\ iter[m] \in Nat /\ Goal(a) \in Nat
    BY <1>1, <2>1, <2>2, Bounds DEF Behind, NodesOf
  <2> QED
    BY <2>1, <2>2, <2>3
<1>5. CASE ~Streaming(a)
  <2>1. f \in Node /\ f \in NodesOf(a) /\ AppOf[f] = a /\ iter[f] < Goal(a)
    BY <1>4
  <2>2. Goal(a) = 1 /\ Limit(a) = 1
    BY <1>1, <1>5, Bounds
  <2>3. iter[f] = 0
    BY <1>1, <2>1, <2>2
  <2>4. ASSUME NEW p \in Pred[f] PROVE iter[p] = 1
    <3>1. p \in Node /\ AppOf[p] = a
      BY <2>1, SameApp
    <3>2. iter[p] <= 1 /\ iter[p] \in Nat
      BY <1>1, <2>2, <3>1 DEF LimitInv
    <3>3. iter[p] > 0
      BY <1>3, <2>3
    <3> QED
      BY <3>2, <3>3
  <2>5. in_ready_queue[f]
    BY <1>1, <1>5, <2>1, <2>3, <2>4 DEF ReleaseInv
  <2> QED
    BY <2>1, <2>5
<1>6. CASE Streaming(a)
  <2>1. Goal(a) = Frames[a]
    BY <1>1, <1>6, Bounds
  <2>2. SUFFICES \E n \in Behind(a) : CheckPred(iter, n) /\ CheckSucc(n)
    <3>1. PICK n \in Behind(a) : CheckPred(iter, n) /\ CheckSucc(n)
      BY <2>2
    <3>2. n \in Node /\ n \in NodesOf(a) /\ AppOf[n] = a /\ iter[n] < Frames[a]
      BY <1>4, <2>1
    <3>3. in_ready_queue[n] \/ n \in Fireable
      BY <1>6, <3>1, <3>2 DEF Fireable
    <3> QED
      BY <3>2, <3>3
  <2>3. CASE Mode[a] = "sequential" /\ \E h \in Behind(a) : h \in Heads(a)
    <3>1. PICK h \in Behind(a) : h \in Heads(a)
      BY <2>3
    <3>2. CheckPred(iter, h) /\ CheckSucc(h)
      BY <1>1, <1>2, <2>3, <3>1, HeadMayFire
    <3> QED
      BY <3>1, <3>2
  <2>4. CASE ~(Mode[a] = "sequential" /\ \E h \in Behind(a) : h \in Heads(a))
    <3>1. f \in Node /\ AppOf[f] = a /\ f \in NodesOf(a)
      BY <1>4
    <3>2. ASSUME Sequential(f), NEW h \in Heads(a) PROVE iter[h] > iter[f]
      <4>1. h \in NodesOf(a) /\ h \in Node /\ h \notin Behind(a)
        BY <2>4, <3>1, <3>2 DEF Sequential, Heads, NodesOf
      <4>2. PICK m \in NodesOf(a) : ~(iter[h] <= iter[m])
        BY <4>1 DEF Behind
      <4>3. iter[f] <= iter[m] /\ m \in Node
        BY DEF Behind, NodesOf
      <4>4. iter[h] \in Nat /\ iter[m] \in Nat /\ iter[f] \in Nat
        BY <1>1, <3>1, <4>1, <4>3
      <4> QED
        BY <4>2, <4>3, <4>4
    <3>3. \A c \in Node : f \in Pred[c] => iter[c] = iter[f]
      BY <1>2
    <3>4. CheckPred(iter, f) /\ CheckSucc(f)
      BY <1>1, <1>3, <1>6, <3>2, <3>3, LastMayFire
    <3> QED
      BY <3>4
  <2> QED
    BY <2>3, <2>4
<1> QED
  BY <1>5, <1>6

\* An instance with frames to process is never stuck on its own buffers, on its
\* ring or on a release that it missed.
THEOREM PipelinesNeverStall == Spec => []PipelinesMove
<1>1. DagInv => PipelinesMove
  BY SomeNodeMoves DEF PipelinesMove
<1> QED
  BY <1>1, DagInvariance, PTL

-----------------------------------------------------------------------------
(* The daemon implements the dataflow.                                     *)

doneBar == [n \in Node |-> iter[n] + (IF Handed(n) THEN 1 ELSE 0)]

\* Both speak of the same graph.
LEMMA SameGraph ==
    /\ \A a : Flow!NodesOf(a) = NodesOf(a) /\ Flow!Goal(a) = Goal(a)
    /\ \A a : Flow!Ringable(a) <=> Ringable(a)
    /\ \A n : Flow!Succ(n) = Succ(n) /\ (Flow!Sequential(n) <=> Sequential(n))
<1> USE DEF Flow!NodesOf, Flow!Succ, Flow!Sequential, Flow!Streaming, NodesOf, Succ,
    Sequential, Streaming
<1>1. \A a : Flow!Goal(a) = Goal(a)
  BY DEF Flow!Goal, Goal
<1>2. \A a : Flow!Heads(a) = Heads(a) /\ Flow!Tails(a) = Tails(a)
  BY DEF Flow!Heads, Flow!Tails, Heads, Tails, Flow!IsHead, Flow!IsTail, IsHead, IsTail
<1>3. \A a : Flow!Ringable(a) <=> Ringable(a)
  BY <1>2 DEF Flow!Ringable, Ringable
<1> QED
  BY <1>1, <1>3

\* The nodes that process a frame are those in the workers' hands.
LEMMA ExecutingIs ==
    /\ \A n : n \in Executing <=> n # NoNode /\ \E w \in PE : task[w] = n
    /\ \A n : n \in Executing' <=> n # NoNode /\ \E w \in PE : task'[w] = n
<1>1. ASSUME NEW n
      PROVE  n \in Executing <=> n # NoNode /\ \E w \in PE : task[w] = n
  <2>1. n \in Executing <=> \E w \in PE : n \in Contents(<<"held", w>>)
    BY DEF Executing
  <2>2. \A w \in PE : Contents(<<"held", w>>) = {task[w]} \ {NoNode}
    BY ContentsAt
  <2>3. \A w \in PE : n \in Contents(<<"held", w>>) <=> n # NoNode /\ task[w] = n
    BY <2>2
  <2> QED
    BY <2>1, <2>3
<1>2. ASSUME NEW n
      PROVE  n \in Executing' <=> n # NoNode /\ \E w \in PE : task'[w] = n
  <2>1. n \in Executing' <=> \E w \in PE : n \in Contents(<<"held", w>>)'
    BY DEF Executing
  <2>2. \A w \in PE : Contents(<<"held", w>>)' = {task'[w]} \ {NoNode}
    BY ContentsNext
  <2>3. \A w \in PE : n \in Contents(<<"held", w>>)' <=> n # NoNode /\ task'[w] = n
    BY <2>2
  <2> QED
    BY <2>1, <2>3
<1> QED
  BY <1>1, <1>2

\* The frames a node has done, before and after a step.
LEMMA DoneIs ==
    ASSUME iter \in [Node -> Nat], NEW n \in Node
    PROVE  /\ doneBar[n] \in Nat /\ doneBar[n] >= iter[n]
           /\ Handed(n) => doneBar[n] = iter[n] + 1
           /\ ~Handed(n) => doneBar[n] = iter[n]
           /\ Handed(n) <=> \E w \in PE : n \in ToSet(completed[w])
           /\ Handed(n)' <=> \E w \in PE : n \in ToSet(completed'[w])
BY DEF doneBar, Handed

\* A node is in one worker's hands or handed back to one PE.
LEMMA HeldOnce ==
    ASSUME Placed, NEW n, NEW v \in PE
    PROVE  /\ n \in ToSet(todo[v]) => n \notin Executing /\ ~Handed(n)
           /\ n # NoNode /\ task[v] = n =>
                 ~Handed(n) /\ \A w \in PE : task[w] = n => w = v
           /\ n \in ToSet(completed[v]) =>
                 \A w \in PE : n \in ToSet(completed[w]) => w = v
<1>1. \A u, q \in Place : u # q => Contents(u) \cap Contents(q) = {}
  BY DEF Placed
<1>2. \A w \in PE :
         /\ <<"todo", w>> \in Place /\ <<"held", w>> \in Place /\ <<"handed", w>> \in Place
         /\ Contents(<<"todo", w>>) = ToSet(todo[w])
         /\ Contents(<<"held", w>>) = {task[w]} \ {NoNode}
         /\ Contents(<<"handed", w>>) = ToSet(completed[w])
  BY ContentsAt
<1>3. \A w \in PE : /\ <<"todo", v>> # <<"held", w>> /\ <<"todo", v>> # <<"handed", w>>
                    /\ <<"held", v>> # <<"handed", w>>
                    /\ w # v => <<"held", v>> # <<"held", w>>
                    /\ w # v => <<"handed", v>> # <<"handed", w>>
  OBVIOUS
<1>4. \A w \in PE : /\ ToSet(todo[v]) \cap ({task[w]} \ {NoNode}) = {}
                    /\ ToSet(todo[v]) \cap ToSet(completed[w]) = {}
                    /\ ({task[v]} \ {NoNode}) \cap ToSet(completed[w]) = {}
                    /\ w # v => ({task[v]} \ {NoNode}) \cap ({task[w]} \ {NoNode}) = {}
                    /\ w # v => ToSet(completed[v]) \cap ToSet(completed[w]) = {}
  BY <1>1, <1>2, <1>3
<1> QED
  BY <1>4, ExecutingIs DEF Handed

\* The steps that the dataflow may see.
LEMMA WhoFlows ==
    ASSUME [Next]_vars
    PROVE  \/ UNCHANGED <<iter, task, completed, freed>>
           \/ PopCompleted
           \/ \E w \in PE : TakeTask(w) \/ HandBack(w)
           \/ \E a \in Apps : FreeApp(a)
<1> USE DEF vars, mainVars, slotVars, phaseVars, arriveVars, retireVars, nodeVars,
   workerVars
<1>1. CASE SubDag \/ KillDaemon \/ Gone \/ UNCHANGED vars
  BY <1>1 DEF SubDag, KillDaemon, Gone
<1>2. CASE ReceiveApps \/ ReceiveNothing \/ EndScheduling \/ EndPass \/ JoinWorkers
           \/ BeginExit \/ CountCompleted \/ RetirePE \/ ArriveApps \/ FireStreams
  BY <1>2 DEF ReceiveApps, ReceiveNothing, EndScheduling, EndPass, JoinWorkers,
    BeginExit, CountCompleted, RetirePE, ArriveApps, FireStreams
<1>3. CASE \E a \in Apps : BecomeDue(a)
  BY <1>3 DEF BecomeDue
<1>4. CASE \E n \in Node, w \in PE : AssignTask(n, w)
  BY <1>4 DEF AssignTask
<1>5. CASE \E w \in PE : StopWorker(w)
  BY <1>5 DEF StopWorker
<1> QED
  BY <1>1, <1>2, <1>3, <1>4, <1>5 DEF Next, Main, Worker

\* A step that leaves a node's place among the handed and its count alone.
LEMMA DoneSame ==
    ASSUME \A n \in Node : iter'[n] + (IF Handed(n)' THEN 1 ELSE 0)
                         = iter[n] + (IF Handed(n) THEN 1 ELSE 0)
    PROVE  doneBar' = doneBar
BY DEF doneBar

\* The drain of a node moves its frame from the handed to the counted.
LEMMA PopIsUnseen ==
    ASSUME WhereInv, PopCompleted
    PROVE  doneBar' = doneBar /\ UNCHANGED <<Executing, freed>>
<1>0. /\ CoreInv /\ Placed /\ Distinct /\ mpc = "pop"
      /\ iter \in [Node -> Nat] /\ completed \in [PE -> Seq(Node)]
  BY PlacedDistinct DEF WhereInv, CoreInv, TypeOK, NodeTypeOK, WorkerTypeOK, PopCompleted
<1>2. /\ idx \in PE /\ completed[idx] \in Seq(Node) /\ completed[idx] # <<>>
      /\ Head(completed[idx]) \in Node
  BY <1>0, DrainedNode
<1> PICK n \in Node : n = Head(completed[idx])
  BY <1>2
<1>1. /\ iter' = [iter EXCEPT ![n] = @ + 1]
      /\ completed' = [completed EXCEPT ![idx] = Tail(@)]
      /\ UNCHANGED <<task, freed>>
  BY PopEffect
<1>3. ToSet(Tail(completed[idx])) = ToSet(completed[idx]) \ {n} /\ n \in ToSet(completed[idx])
  BY <1>0, <1>2, TailSet, DrainedIsMarked DEF Distinct, WhereInv
<1>4. \A w \in PE : ToSet(completed'[w]) = IF w = idx THEN ToSet(completed[idx]) \ {n}
                                                      ELSE ToSet(completed[w])
  BY <1>0, <1>1, <1>2, <1>3
<1>5. PICK i \in PE : i = idx
  BY <1>2
<1>6. \A w \in PE : n \in ToSet(completed[w]) => w = i
  BY <1>0, <1>3, <1>5, HeldOnce
<1>7. Handed(n) /\ ~Handed(n)'
  <2>1. Handed(n)
    BY <1>2, <1>3 DEF Handed
  <2>2. \A w \in PE : n \notin ToSet(completed'[w])
    BY <1>4, <1>5, <1>6
  <2> QED
    BY <1>0, <1>2, <2>1, <2>2, DoneIs
<1>8. \A m \in Node : m # n => (Handed(m)' <=> Handed(m))
  BY <1>0, <1>4, <1>5, DoneIs
<1>9. \A m \in Node : iter'[m] + (IF Handed(m)' THEN 1 ELSE 0)
                    = iter[m] + (IF Handed(m) THEN 1 ELSE 0)
  <2> SUFFICES ASSUME NEW m \in Node
               PROVE  iter'[m] + (IF Handed(m)' THEN 1 ELSE 0)
                    = iter[m] + (IF Handed(m) THEN 1 ELSE 0)
    OBVIOUS
  <2>1. iter'[m] = IF m = n THEN iter[n] + 1 ELSE iter[m]
    BY <1>0, <1>1
  <2>2. iter[m] \in Nat
    BY <1>0
  <2>3. CASE m = n
    <3>1. iter'[m] = iter[m] + 1 /\ Handed(m) /\ ~Handed(m)'
      BY <1>7, <2>1, <2>3
    <3> QED
      BY <2>2, <3>1
  <2>4. CASE m # n
    <3>1. iter'[m] = iter[m] /\ (Handed(m)' <=> Handed(m))
      BY <1>8, <2>1, <2>4
    <3> QED
      BY <3>1
  <2> QED
    BY <2>3, <2>4
<1>10. Executing' = Executing
  BY <1>1, ExecutingIs
<1> QED
  BY <1>1, <1>9, <1>10, DoneSame

\* A worker that takes a node begins the node's next frame.
LEMMA TakeIsBegin ==
    ASSUME DagInv, NEW w \in PE, TakeTask(w)
    PROVE  \E n \in Node : Flow!Begin(n)
<1> DEFINE n == Head(todo[w])
<1>0. /\ WhereInv /\ CoreInv /\ Placed
      /\ iter \in [Node -> Nat] /\ todo[w] \in Seq(Node) /\ task \in [PE -> Node \cup {NoNode}]
      /\ wpc[w] = "run" <=> task[w] # NoNode
  BY PlacedDistinct DEF DagInv, WhereInv, CoreInv, TypeOK, NodeTypeOK, WorkerTypeOK, WorkerInv
<1>1. /\ task' = [task EXCEPT ![w] = n] /\ todo[w] # <<>> /\ wpc[w] = "poll"
      /\ UNCHANGED <<iter, completed, freed>>
  BY DEF TakeTask, mainVars, nodeVars, retireVars
<1>2. n \in Node /\ n \in ToSet(todo[w]) /\ n # NoNode
  <2>1. n = todo[w][1] /\ 1 \in DOMAIN todo[w] /\ n \in Node
    BY <1>0, <1>1
  <2> QED
    BY <2>1, DaemonAssumption DEF ToSet
<1> HIDE DEF n
<1>3. n \notin Executing /\ ~Handed(n)
  BY <1>0, <1>2, HeldOnce
<1>4. in_ready_queue[n]
  <2>1. n \in Contents(<<"todo", w>>) /\ <<"todo", w>> \in Place
    BY <1>2, ContentsAt
  <2> QED
    BY <1>0, <2>1, MarkedSomewhere DEF Marked
<1>5. InFlight(n)
  BY <1>2, <1>4 DEF DagInv, FlowInv, FlightInv
<1>6. AppOf[n] \notin freed
  BY <1>2, <1>4, GivenUpIsUnmarked DEF GivenUp
<1>7. doneBar[n] = iter[n] /\ iter[n] \in Nat
  BY <1>0, <1>2, <1>3, DoneIs
<1>8. \A p \in Pred[n] : doneBar[p] > doneBar[n]
  <2> SUFFICES ASSUME NEW p \in Pred[n] PROVE doneBar[p] > doneBar[n]
    OBVIOUS
  <2>1. p \in Node /\ iter[p] >= iter[n] + 1
    BY <1>2, <1>5, SameApp DEF InFlight
  <2>2. iter[p] \in Nat /\ doneBar[p] \in Nat /\ doneBar[p] >= iter[p]
    BY <1>0, <2>1, DoneIs
  <2> QED
    BY <1>7, <2>1, <2>2
<1>9. \A c \in Succ(n) :
         doneBar[c] >= IF Mode[AppOf[n]] = "double" THEN doneBar[n] - 1 ELSE doneBar[n]
  <2> SUFFICES ASSUME NEW c \in Succ(n)
               PROVE  doneBar[c] >= IF Mode[AppOf[n]] = "double" THEN doneBar[n] - 1
                                                                 ELSE doneBar[n]
    OBVIOUS
  <2>1. c \in Node /\ iter[c] >= iter[n] + 1 - Depth(AppOf[n])
    BY <1>2, <1>5, SameApp DEF InFlight
  <2>2. iter[c] \in Nat /\ doneBar[c] \in Nat /\ doneBar[c] >= iter[c]
    BY <1>0, <2>1, DoneIs
  <2>3. Depth(AppOf[n]) = IF Mode[AppOf[n]] = "double" THEN 2 ELSE 1
    BY DEF Depth
  <2> QED
    BY <1>7, <2>1, <2>2, <2>3
<1>10. Sequential(n) /\ Ringable(AppOf[n]) =>
          \A m \in NodesOf(AppOf[n]) : doneBar[m] >= doneBar[n]
  <2> SUFFICES ASSUME Sequential(n), Ringable(AppOf[n]), NEW m \in NodesOf(AppOf[n])
               PROVE  doneBar[m] >= doneBar[n]
    OBVIOUS
  <2>1. m \in Node /\ iter[m] >= iter[n]
    BY <1>5 DEF InFlight, NodesOf
  <2>2. iter[m] \in Nat /\ doneBar[m] \in Nat /\ doneBar[m] >= iter[m]
    BY <1>0, <2>1, DoneIs
  <2> QED
    BY <1>7, <2>1, <2>2
<1>11. Executing' = Executing \cup {n}
  <2>1. task[w] = NoNode
    BY <1>0, <1>1
  <2>2. \A v \in PE : task'[v] = IF v = w THEN n ELSE task[v]
    BY <1>0, <1>1
  <2>3. \A m : m \in Executing' <=> m \in Executing \cup {n}
    BY <1>2, <2>1, <2>2, ExecutingIs
  <2> QED
    BY <2>3
<1>12. doneBar' = doneBar
  BY <1>1 DEF doneBar, Handed
<1>13. Flow!InputsReady(n) /\ Flow!OutputsFree(n) /\ Flow!FrameIsNext(n)
  BY <1>8, <1>9, <1>10, SameGraph DEF Flow!InputsReady, Flow!OutputsFree, Flow!FrameIsNext, doneBar
<1>14. Flow!Begin(n)
  BY <1>1, <1>3, <1>6, <1>11, <1>12, <1>13 DEF Flow!Begin, doneBar
<1> QED
  BY <1>2, <1>14

\* A worker that hands a node back ends the node's frame.
LEMMA HandBackIsEnd ==
    ASSUME WhereInv, NEW w \in PE, HandBack(w)
    PROVE  \E n \in Node : Flow!End(n)
<1>0. /\ CoreInv /\ Placed /\ Distinct
      /\ iter \in [Node -> Nat] /\ task \in [PE -> Node \cup {NoNode}]
      /\ completed \in [PE -> Seq(Node)]
      /\ wpc[w] = "run" <=> task[w] # NoNode
  BY PlacedDistinct DEF WhereInv, CoreInv, TypeOK, NodeTypeOK, WorkerTypeOK, WorkerInv
<1>2. task[w] \in Node /\ task[w] # NoNode /\ task[w] \in Executing
  BY <1>0, ExecutingIs DEF HandBack
<1> PICK n \in Node : n = task[w]
  BY <1>2
<1>1. /\ completed' = [completed EXCEPT ![w] = Append(@, n)]
      /\ task' = [task EXCEPT ![w] = NoNode] /\ wpc[w] = "run"
      /\ UNCHANGED <<iter, freed>>
  BY DEF HandBack, mainVars, nodeVars, retireVars
<1>4. ~Handed(n) /\ \A v \in PE : task[v] = n => v = w
  BY <1>0, <1>2, HeldOnce
<1>3. ToSet(Append(completed[w], n)) = ToSet(completed[w]) \cup {n}
  <2>1. completed[w] \in Seq(Node)
    BY <1>0
  <2>2. IsInjective(completed[w]) /\ n \notin ToSet(completed[w])
    BY <1>0, <1>4 DEF Distinct, Handed
  <2> QED
    BY <2>1, <2>2, AppendSet
<1>5. \A v \in PE : task'[v] = IF v = w THEN NoNode ELSE task[v]
  BY <1>0, <1>1
<1>6. \A v \in PE : ToSet(completed'[v]) = IF v = w THEN ToSet(completed[w]) \cup {n}
                                                    ELSE ToSet(completed[v])
  BY <1>0, <1>1, <1>3
<1>7. Executing' = Executing \ {n}
  <2>1. \A m : m \in Executing' <=> m \in Executing /\ m # n
    BY <1>4, <1>5, ExecutingIs
  <2> QED
    BY <2>1
<1>8. \A m \in Node : Handed(m)' <=> Handed(m) \/ m = n
  BY <1>0, <1>6, DoneIs
<1>9. doneBar' = [doneBar EXCEPT ![n] = @ + 1]
  <2>1. \A m \in Node : iter[m] \in Nat /\ iter'[m] = iter[m]
    BY <1>0, <1>1
  <2>2. \A m \in Node : iter'[m] + (IF Handed(m)' THEN 1 ELSE 0)
                      = iter[m] + (IF Handed(m) THEN 1 ELSE 0) + (IF m = n THEN 1 ELSE 0)
    BY <1>4, <1>8, <2>1
  <2>3. \A m \in Node : doneBar[m] = iter[m] + (IF Handed(m) THEN 1 ELSE 0) /\ doneBar[m] \in Nat
    BY <1>0, DoneIs DEF doneBar
  <2>4. doneBar' = [m \in Node |-> iter'[m] + (IF Handed(m)' THEN 1 ELSE 0)]
    BY DEF doneBar
  <2>5. doneBar' = [m \in Node |-> doneBar[m] + (IF m = n THEN 1 ELSE 0)]
    BY <2>2, <2>3, <2>4
  <2>6. DOMAIN doneBar = Node /\ doneBar = [m \in Node |-> doneBar[m]]
    BY DEF doneBar
  <2> QED
    BY <2>3, <2>5, <2>6
<1>10. Flow!End(n)
  BY <1>1, <1>2, <1>7, <1>9 DEF Flow!End, doneBar
<1> QED
  BY <1>10

\* The instance that is freed is done.
LEMMA FreeIsRetire ==
    ASSUME DagInv, NEW a \in Apps, FreeApp(a)
    PROVE  Flow!Retire(a)
<1>0. WhereInv /\ Placed /\ iter \in [Node -> Nat]
  BY PlacedDistinct DEF DagInv, WhereInv, CoreInv, TypeOK, NodeTypeOK
<1>1. /\ a \in GivenUp /\ freed' = freed \cup {a}
      /\ UNCHANGED <<iter, task, completed>>
  BY DEF FreeApp, GivenUp, nodeVars, workerVars
<1>2. ASSUME NEW n \in NodesOf(a) PROVE doneBar[n] = Goal(a) /\ n \notin Executing
  <2>1. n \in Node /\ AppOf[n] = a
    BY DEF NodesOf
  <2>2. ~in_ready_queue[n] /\ iter[n] = Goal(a)
    BY <1>1, <2>1, GivenUpIsUnmarked
  <2>3. n \notin Executing
    BY <1>0, <2>2, ExecutingIsMarked
  <2>4. ~Handed(n)
    <3>1. ASSUME NEW w \in PE PROVE ToSet(completed[w]) \subseteq Marked
      <4>1. <<"handed", w>> \in Place /\ Contents(<<"handed", w>>) = ToSet(completed[w])
        BY ContentsAt
      <4>2. \A u \in Place : Contents(u) \subseteq Marked
        BY <1>0, MarkedSomewhere
      <4> QED
        BY <4>1, <4>2
    <3> QED
      BY <2>2, <3>1 DEF Marked, Handed
  <2> QED
    BY <1>0, <2>1, <2>2, <2>3, <2>4, DoneIs
<1>3. doneBar' = doneBar /\ Executing' = Executing
  BY <1>1, ExecutingIs DEF doneBar, Handed
<1> QED
  BY <1>1, <1>2, <1>3, SameGraph DEF Flow!Retire, doneBar

\* The daemon starts as the dataflow does.
LEMMA FlowStarts == Init => Flow!Init
<1> SUFFICES ASSUME Init PROVE Flow!Init
  OBVIOUS
<1>1. \A w \in PE : completed[w] = <<>> /\ task[w] = NoNode
  BY DEF Init
<1>2. \A n \in Node : ~Handed(n)
  BY <1>1 DEF Handed, ToSet
<1>3. doneBar = [n \in Node |-> 0]
  BY <1>2 DEF Init, doneBar
<1>4. Executing = {}
  BY <1>1, ExecutingIs
<1> QED
  BY <1>3, <1>4 DEF Init, Flow!Init, doneBar

\* Every step of the daemon is a step of the dataflow or none.
LEMMA FlowSimulated ==
    ASSUME DagInv, [Next]_vars
    PROVE  [Flow!Next]_(Flow!dataflowVars)
<1>0. WhereInv
  BY DagInvParts
<1>1. CASE UNCHANGED <<iter, task, completed, freed>>
  <2>1. Executing' = Executing
    BY <1>1, ExecutingIs
  <2>2. doneBar' = doneBar
    BY <1>1 DEF doneBar, Handed
  <2> QED
    BY <1>1, <2>1, <2>2 DEF Flow!dataflowVars, doneBar
<1>2. CASE PopCompleted
  BY <1>0, <1>2, PopIsUnseen DEF Flow!dataflowVars, doneBar
<1>3. ASSUME NEW w \in PE, TakeTask(w) \/ HandBack(w) PROVE Flow!Next
  BY <1>0, <1>3, TakeIsBegin, HandBackIsEnd DEF Flow!Next
<1>4. ASSUME NEW a \in Apps, FreeApp(a) PROVE Flow!Next
  BY <1>4, FreeIsRetire DEF Flow!Next
<1> QED
  BY <1>1, <1>2, <1>3, <1>4, WhoFlows

\* FramesBounded: no stream that gives a number of frames exceeds it.
THEOREM FramesAreBounded == Spec => []FramesBounded
<1>1. ASSUME DagInv, NEW n \in Node, Streaming(AppOf[n]), Frames[AppOf[n]] > 0
      PROVE  iter[n] <= Frames[AppOf[n]]
  <2>1. AppOf[n] \in Apps /\ iter[n] <= Limit(AppOf[n])
    BY <1>1, GraphAssumption DEF DagInv, FlowInv, LimitInv
  <2> QED
    BY <1>1, <2>1, Bounds
<1>2. DagInv => FramesBounded
  BY <1>1 DEF FramesBounded
<1> QED
  BY <1>2, DagInvariance, PTL

\* DataflowSpec: for every graph, mode, number of frames and of PEs, each node
\* processes each frame once, with its inputs there and room for its outputs.
THEOREM DaemonImplementsDataflow == Spec => DataflowSpec
BY FlowStarts, FlowSimulated, DagInvariance, PTL DEF Spec, DataflowSpec, Flow!Spec

-----------------------------------------------------------------------------
(* free_resource_count counts the free PEs.                                *)

\* What a worker is doing shows in its resource_state, which the main thread
\* reads before it assigns, and 3 is written only on the way out.
BusyInv ==
    \A w \in PE : /\ wpc[w] = "run" => resource_state[w] # 0
                  /\ resource_state[w] = 1 => wpc[w] = "run"
                  /\ resource_state[w] = 3 => Exiting

\* A PE has one node: queued, in its worker's hands, or handed back.
Alone(w) ==
    /\ Len(todo[w]) <= 1 /\ Len(completed[w]) <= 1
    /\ todo[w] # <<>> => task[w] = NoNode /\ completed[w] = <<>>
    /\ task[w] # NoNode => completed[w] = <<>>

\* It has one.
Loaded(w) == todo[w] # <<>> \/ task[w] # NoNode \/ completed[w] # <<>>

\* What the count is meant to be the size of.
FreePEs == {w \in PE : ~Occupied(w)}

\* What every action does to the PEs but those that count, assign, run or drain.
LoadStill ==
    /\ UNCHANGED <<todo, task, completed, free_resource_count>>
    /\ mpc' = "pop" <=> mpc = "pop"
    /\ mpc = "pop" => idx' = idx

\* Five kinds of steps touch a PE's load or its count.
LEMMA WhoLoads ==
    ASSUME [Next]_vars
    PROVE  \/ LoadStill
           \/ CountCompleted \/ PopCompleted
           \/ \E n \in Node, w \in PE : AssignTask(n, w)
           \/ \E w \in PE : TakeTask(w) \/ HandBack(w)
<1> USE DEF LoadStill, vars, mainVars, slotVars, phaseVars, arriveVars, retireVars,
   nodeVars, workerVars
<1>1. CASE SubDag \/ KillDaemon \/ Gone \/ UNCHANGED vars
  BY <1>1 DEF SubDag, KillDaemon, Gone
<1>2. CASE ReceiveApps \/ ReceiveNothing \/ EndScheduling \/ EndPass \/ JoinWorkers
           \/ BeginExit \/ RetirePE
  BY <1>2 DEF ReceiveApps, ReceiveNothing, EndScheduling, EndPass, JoinWorkers,
    BeginExit, RetirePE
<1>3. CASE \E a \in Apps : BecomeDue(a) \/ FreeApp(a)
  BY <1>3 DEF BecomeDue, FreeApp
<1>4. CASE \E w \in PE : StopWorker(w)
  BY <1>4 DEF StopWorker
<1>5. CASE ArriveApps \/ FireStreams
  BY <1>5 DEF ArriveApps, FireStreams
<1> QED
  BY <1>1, <1>2, <1>3, <1>4, <1>5 DEF Next, Main, Worker

\* resource_state is 0 only after the worker handed its node back.
LEMMA BusyStep ==
    ASSUME CoreInv, BusyInv, [Next]_vars
    PROVE  BusyInv'
<1> USE DEF BusyInv, Exiting, vars, mainVars, phaseVars, workerVars
<1> DEFINE Still == UNCHANGED <<wpc, resource_state>> /\ (Exiting => Exiting')
<1>0. wpc \in [PE -> {"poll", "run", "exited"}] /\ resource_state \in [PE -> {0, 1, 3}]
  BY DEF CoreInv, TypeOK, WorkerTypeOK
<1>1. CASE Still
  BY <1>1
<1>2. CASE RetirePE
  BY <1>0, <1>2 DEF RetirePE
<1>3. ASSUME NEW w \in PE, Worker(w) PROVE BusyInv'
  <2>1. CASE TakeTask(w)
    BY <1>0, <2>1 DEF TakeTask
  <2>2. CASE HandBack(w)
    BY <1>0, <2>2 DEF HandBack
  <2>3. CASE StopWorker(w)
    BY <1>0, <2>3 DEF StopWorker
  <2> QED
    BY <1>3, <2>1, <2>2, <2>3 DEF Worker
<1>4. SubDag \/ KillDaemon \/ Gone \/ UNCHANGED vars => Still
  BY DEF SubDag, KillDaemon, Gone
<1>5. ASSUME NEW a \in Apps, BecomeDue(a) \/ FreeApp(a) PROVE Still
  BY <1>5 DEF BecomeDue, FreeApp
<1>6. ASSUME NEW n \in Node, NEW w \in PE, AssignTask(n, w) PROVE Still
  BY <1>6 DEF AssignTask
<1>7. Main => Still \/ RetirePE
  <2>1. ReceiveApps \/ ReceiveNothing \/ BeginExit \/ CountCompleted \/ PopCompleted => Still
    BY DEF ReceiveApps, ReceiveNothing, BeginExit, CountCompleted, PopCompleted
  <2>2. ArriveApps \/ FireStreams \/ EndScheduling \/ EndPass \/ JoinWorkers => Still
    BY DEF ArriveApps, FireStreams, EndScheduling, EndPass, JoinWorkers
  <2> HIDE DEF Still
  <2> QED
    BY <1>5, <1>6, <2>1, <2>2 DEF Main
<1> HIDE DEF Still
<1> QED
  BY <1>1, <1>2, <1>3, <1>4, <1>5, <1>7 DEF Next

\* Taking the only element of a sequence leaves none.
LEMMA OneDrained ==
    ASSUME NEW s \in Seq(Node), s # <<>>, Len(s) <= 1
    PROVE  Len(s) = 1 /\ Tail(s) = <<>>
<1>1. Len(s) \in Nat /\ Len(s) > 0 /\ Tail(s) \in Seq(Node) /\ Len(Tail(s)) = Len(s) - 1
  BY TailType, LenProperties
<1>2. Len(s) = 1 /\ Len(Tail(s)) = 0
  BY <1>1
<1> QED
  BY <1>1, <1>2, EmptySeq

\* A node goes to an idle PE, and from there from hand to hand.
LEMMA AloneStep ==
    ASSUME CoreInv, BusyInv, ~Queueing, [Next]_vars, NEW w \in PE, Alone(w)
    PROVE  Alone(w)'
<1>0. /\ todo \in [PE -> Seq(Node)] /\ completed \in [PE -> Seq(Node)]
      /\ task \in [PE -> Node \cup {NoNode}]
      /\ wpc[w] = "run" <=> task[w] # NoNode
  BY DEF CoreInv, TypeOK, WorkerTypeOK, WorkerInv
<1>1. ASSUME UNCHANGED <<todo, completed, task>> PROVE Alone(w)'
  BY <1>1 DEF Alone
<1>2. ASSUME NEW n \in Node, NEW v \in PE, AssignTask(n, v) PROVE Alone(w)'
  <2>1. /\ Idle(v) /\ todo' = [todo EXCEPT ![v] = Append(@, n)]
        /\ UNCHANGED <<completed, task>>
    BY <1>2 DEF AssignTask
  <2>2. CASE v = w
    <3>1. todo[w] = <<>> /\ completed[w] = <<>> /\ task[w] = NoNode
      BY <1>0, <2>1, <2>2 DEF Idle, BusyInv
    <3>2. todo'[w] = Append(<<>>, n)
      BY <1>0, <2>1, <2>2, <3>1
    <3>3. Len(Append(<<>>, n)) = 1 /\ Len(<<>>) = 0
      OBVIOUS
    <3> QED
      BY <2>1, <3>1, <3>2, <3>3 DEF Alone
  <2>3. CASE v # w
    BY <1>0, <2>1, <2>3 DEF Alone
  <2> QED
    BY <2>2, <2>3
<1>3. CASE PopCompleted
  <2>1. PICK v \in PE : v = idx /\ completed[v] # <<>>
    BY <1>3, DrainedNode DEF PopCompleted
  <2>2. completed' = [completed EXCEPT ![v] = Tail(@)] /\ UNCHANGED <<todo, task>>
    BY <1>3, <2>1, PopEffect
  <2>3. CASE v = w
    <3>1. Tail(completed[w]) = <<>>
      BY <1>0, <2>1, <2>3, OneDrained DEF Alone
    <3> QED
      BY <1>0, <2>2, <2>3, <3>1 DEF Alone
  <2>4. CASE v # w
    BY <1>0, <2>2, <2>4 DEF Alone
  <2> QED
    BY <2>3, <2>4
<1>4. ASSUME NEW v \in PE, TakeTask(v) PROVE Alone(w)'
  <2>1. /\ task' = [task EXCEPT ![v] = Head(todo[v])] /\ todo[v] # <<>>
        /\ todo' = [todo EXCEPT ![v] = Tail(@)] /\ UNCHANGED completed
    BY <1>4 DEF TakeTask
  <2>2. CASE v = w
    <3>1. Tail(todo[w]) = <<>> /\ completed[w] = <<>>
      BY <1>0, <2>1, <2>2, OneDrained DEF Alone
    <3>2. todo'[w] = <<>> /\ completed'[w] = <<>> /\ Len(<<>>) = 0
      BY <1>0, <2>1, <2>2, <3>1
    <3> QED
      BY <3>2 DEF Alone
  <2>3. CASE v # w
    BY <1>0, <2>1, <2>3 DEF Alone
  <2> QED
    BY <2>2, <2>3
<1>5. ASSUME NEW v \in PE, HandBack(v) PROVE Alone(w)'
  <2>1. /\ task' = [task EXCEPT ![v] = NoNode] /\ wpc[v] = "run"
        /\ completed' = [completed EXCEPT ![v] = Append(@, task[v])] /\ UNCHANGED todo
    BY <1>5 DEF HandBack
  <2>2. CASE v = w
    <3>1. task[w] \in Node /\ completed[w] = <<>> /\ todo[w] = <<>>
      BY <1>0, <2>1, <2>2 DEF Alone
    <3>2. completed'[w] = Append(<<>>, task[w]) /\ todo'[w] = <<>> /\ task'[w] = NoNode
      BY <1>0, <2>1, <2>2, <3>1
    <3>3. Len(Append(<<>>, task[w])) = 1 /\ Len(<<>>) = 0
      BY <3>1
    <3> QED
      BY <3>2, <3>3 DEF Alone
  <2>3. CASE v # w
    BY <1>0, <2>1, <2>3 DEF Alone
  <2> QED
    BY <2>2, <2>3
<1>6. LoadStill \/ CountCompleted => UNCHANGED <<todo, completed, task>>
  BY DEF LoadStill, CountCompleted, workerVars
<1> QED
  BY <1>1, <1>2, <1>3, <1>4, <1>5, <1>6, WhoLoads

\* The drain counts a PE free when it begins to empty its queue, of its one
\* node; the policy counts it taken when it assigns.
LEMMA FreeStep ==
    ASSUME CoreInv, BusyInv, ~Queueing, Counting, [Next]_vars, \A w \in PE : Alone(w),
           free_resource_count = Cardinality(FreePEs)
    PROVE  free_resource_count' = Cardinality(FreePEs')
<1>0. /\ todo \in [PE -> Seq(Node)] /\ completed \in [PE -> Seq(Node)]
      /\ task \in [PE -> Node \cup {NoNode}] /\ NoNode \notin Node
      /\ \A w \in PE : wpc[w] = "run" <=> task[w] # NoNode
  BY DaemonAssumption DEF CoreInv, TypeOK, WorkerTypeOK, WorkerInv
<1>1. IsFiniteSet(FreePEs) /\ Cardinality(FreePEs) \in Nat
  <2>1. IsFiniteSet(PE)
    BY DaemonAssumption, FS_Interval DEF PE
  <2> QED
    BY <2>1, FS_Subset, FS_CardinalityType DEF FreePEs
<1>2. ASSUME free_resource_count' = free_resource_count,
             \A w \in PE : Occupied(w)' <=> Occupied(w)
      PROVE  free_resource_count' = Cardinality(FreePEs')
  <2>1. FreePEs' = FreePEs
    BY <1>2 DEF FreePEs
  <2> QED
    BY <1>2, <2>1
<1>3. CASE LoadStill
  BY <1>2, <1>3 DEF LoadStill, Occupied
<1>4. CASE CountCompleted
  <2>1. /\ mpc = "drain" /\ idx \in PE /\ UNCHANGED <<todo, task, completed>>
        /\ free_resource_count' = IF completed[idx] # <<>> THEN free_resource_count + 1
                                                           ELSE free_resource_count
        /\ IF completed[idx] = <<>> THEN mpc' = mpc ELSE mpc' = "pop" /\ idx' = idx
    BY <1>4 DEF CountCompleted, workerVars
  <2>2. CASE completed[idx] = <<>>
    BY <1>2, <2>1, <2>2 DEF Occupied
  <2>3. CASE completed[idx] # <<>>
    <3>1. FreePEs' = FreePEs \cup {idx} /\ idx \notin FreePEs
      BY <2>1, <2>3 DEF FreePEs, Occupied
    <3>2. Cardinality(FreePEs') = Cardinality(FreePEs) + 1
      BY <1>1, <3>1, FS_AddElement
    <3> QED
      BY <2>1, <2>3, <3>2
  <2> QED
    BY <2>2, <2>3
<1>5. CASE PopCompleted
  <2>1. /\ idx \in PE /\ cnt \in 1..Len(completed[idx]) /\ completed[idx] # <<>>
        /\ mpc = "pop"
    BY <1>5, DrainedNode DEF PopCompleted
  <2>2. Tail(completed[idx]) = <<>> /\ Len(completed[idx]) = 1
    BY <1>0, <2>1, OneDrained DEF Alone
  <2>3. cnt = 1
    BY <2>1, <2>2
  <2>4. /\ mpc' = "drain" /\ completed' = [completed EXCEPT ![idx] = <<>>]
        /\ UNCHANGED <<todo, task, free_resource_count>>
    BY <1>5, <2>2, <2>3 DEF PopCompleted
  <2>5. todo[idx] = <<>> /\ task[idx] = NoNode
    BY <2>1 DEF Alone
  <2>6. \A w \in PE : Occupied(w)' <=> Occupied(w)
    BY <1>0, <2>1, <2>4, <2>5 DEF Occupied
  <2> QED
    BY <1>2, <2>4, <2>6
<1>6. ASSUME NEW n \in Node, NEW w \in PE, AssignTask(n, w)
      PROVE  free_resource_count' = Cardinality(FreePEs')
  <2>1. /\ Idle(w) /\ todo' = [todo EXCEPT ![w] = Append(@, n)]
        /\ mpc = "schedule" /\ UNCHANGED <<mpc, completed, task>>
        /\ free_resource_count' = free_resource_count - 1
    BY <1>6 DEF AssignTask
  <2>2. todo[w] = <<>> /\ completed[w] = <<>> /\ task[w] = NoNode
    BY <1>0, <2>1 DEF Idle, BusyInv
  <2>3. todo'[w] # <<>> /\ \A v \in PE : v # w => todo'[v] = todo[v]
    <3>1. todo'[w] = Append(<<>>, n)
      BY <1>0, <2>1, <2>2
    <3>2. Append(<<>>, n) # <<>>
      OBVIOUS
    <3> QED
      BY <1>0, <2>1, <3>1, <3>2
  <2>4. FreePEs' = FreePEs \ {w} /\ w \in FreePEs
    BY <2>1, <2>2, <2>3 DEF FreePEs, Occupied
  <2>5. Cardinality(FreePEs') = Cardinality(FreePEs) - 1
    BY <1>1, <2>4, FS_RemoveElement
  <2> QED
    BY <2>1, <2>5
<1>7. ASSUME NEW w \in PE, TakeTask(w) \/ HandBack(w)
      PROVE  free_resource_count' = Cardinality(FreePEs')
  <2>1. UNCHANGED <<mpc, idx, free_resource_count>>
    BY <1>7 DEF TakeTask, HandBack, mainVars, phaseVars
  <2>2. \A v \in PE : v # w => /\ todo'[v] = todo[v] /\ task'[v] = task[v]
                               /\ completed'[v] = completed[v]
    BY <1>0, <1>7 DEF TakeTask, HandBack
  <2>3. Loaded(w) /\ Loaded(w)'
    <3>1. CASE TakeTask(w)
      <4>1. todo[w] # <<>> /\ task'[w] = Head(todo[w])
        BY <1>0, <3>1 DEF TakeTask
      <4>2. Head(todo[w]) \in Node
        BY <1>0, <4>1, TailType
      <4> QED
        BY <1>0, <4>1, <4>2 DEF Loaded
    <3>2. CASE HandBack(w)
      <4>1. task[w] \in Node /\ completed'[w] = Append(completed[w], task[w])
        BY <1>0, <3>2 DEF HandBack
      <4>2. Append(completed[w], task[w]) # <<>>
        <5>1. completed[w] \in Seq(Node)
          BY <1>0
        <5>2. Len(Append(completed[w], task[w])) = Len(completed[w]) + 1
          BY <4>1, <5>1, AppendType
        <5>3. Len(completed[w]) \in Nat /\ Len(<<>>) = 0
          BY <5>1, LenProperties
        <5>4. Len(Append(completed[w], task[w])) # Len(<<>>)
          BY <5>2, <5>3
        <5> QED
          BY <5>4
      <4> QED
        BY <1>0, <4>1, <4>2 DEF Loaded
    <3> QED
      BY <1>7, <3>1, <3>2
  <2>4. \A v \in PE : Loaded(v)' <=> Loaded(v)
    BY <2>2, <2>3 DEF Loaded
  <2>5. \A v \in PE : Occupied(v)' <=> Occupied(v)
    BY <2>1, <2>4 DEF Occupied, Loaded
  <2> QED
    BY <1>2, <2>1, <2>5
<1> QED
  BY <1>3, <1>4, <1>5, <1>6, <1>7, WhoLoads

\* Without queueing every PE has one node at most, and the count is exact; or
\* nobody lowers it, and it never falls below the number of PEs.
LoadInv ==
    /\ BusyInv
    /\ ~Queueing => \A w \in PE : Alone(w)
    /\ ~Queueing /\ Counting => free_resource_count = Cardinality(FreePEs)
    /\ ~Queueing /\ ~Counting => free_resource_count >= NumPEs

LEMMA LoadInit == Init => LoadInv
<1> SUFFICES ASSUME Init PROVE LoadInv
  OBVIOUS
<1>1. BusyInv
  BY DEF Init, BusyInv
<1>2. \A w \in PE : todo[w] = <<>> /\ completed[w] = <<>> /\ task[w] = NoNode
  BY DEF Init
<1>3. \A w \in PE : Alone(w)
  <2>1. Len(<<>>) = 0
    OBVIOUS
  <2> QED
    BY <1>2, <2>1 DEF Alone
<1>4. FreePEs = 1..NumPEs
  BY <1>2 DEF FreePEs, Occupied, PE
<1>5. NumPEs \in Nat /\ NumPEs > 0 /\ NumPEs \in Int /\ 1 \in Int
  BY DaemonAssumption
<1>6. Cardinality(1..NumPEs) = NumPEs
  BY <1>5, FS_Interval
<1>7. free_resource_count = NumPEs
  BY DEF Init
<1> QED
  BY <1>1, <1>3, <1>4, <1>5, <1>6, <1>7 DEF LoadInv

\* A policy that does not count takes nothing off the count.
LEMMA UncountedStep ==
    ASSUME CoreInv, ~Queueing, ~Counting, [Next]_vars, free_resource_count >= NumPEs
    PROVE  free_resource_count' >= NumPEs
<1>0. free_resource_count \in Int /\ NumPEs \in Int
  BY DaemonAssumption DEF CoreInv, TypeOK, MainTypeOK
<1>1. CASE LoadStill
  BY <1>1 DEF LoadStill
<1>2. CASE CountCompleted
  <2>1. free_resource_count' \in {free_resource_count, free_resource_count + 1}
    BY <1>2 DEF CountCompleted
  <2> QED
    BY <1>0, <2>1
<1>3. CASE PopCompleted
  BY <1>3, PopEffect
<1>4. ASSUME NEW n \in Node, NEW w \in PE, AssignTask(n, w)
      PROVE  free_resource_count' = free_resource_count
  BY <1>4 DEF AssignTask
<1>5. ASSUME NEW w \in PE, TakeTask(w) \/ HandBack(w)
      PROVE  free_resource_count' = free_resource_count
  BY <1>5 DEF TakeTask, HandBack, mainVars
<1> QED
  BY <1>1, <1>2, <1>3, <1>4, <1>5, WhoLoads

THEOREM LoadInvariance == Spec => []LoadInv
<1>1. CoreInv /\ LoadInv /\ [Next]_vars => LoadInv'
  <2> SUFFICES ASSUME CoreInv, LoadInv, [Next]_vars PROVE LoadInv'
    OBVIOUS
  <2>1. BusyInv'
    BY BusyStep DEF LoadInv
  <2>2. ~Queueing => \A w \in PE : Alone(w)'
    BY AloneStep DEF LoadInv
  <2>3. ~Queueing /\ Counting => free_resource_count' = Cardinality(FreePEs')
    BY FreeStep DEF LoadInv
  <2>4. ~Queueing /\ ~Counting => free_resource_count' >= NumPEs
    BY UncountedStep DEF LoadInv
  <2> QED
    BY <2>1, <2>2, <2>3, <2>4 DEF LoadInv, PE
<1> QED
  BY <1>1, LoadInit, CoreInvariance, PTL DEF Spec

\* FreeCountExact: whatever the graphs, modes and number of PEs, the count that
\* the drain raises and the policies lower is that of the free PEs.
THEOREM FreePEsAreCounted == Spec => []FreeCountExact
<1>1. LoadInv => FreeCountExact
  BY DEF LoadInv, FreeCountExact, FreePEs
<1> QED
  BY <1>1, LoadInvariance, PTL

-----------------------------------------------------------------------------
(* The daemon keeps to the rounds of its policies.                         *)

queueBar == {n \in Node : ready_queue[n] > 0}
pendingBar == [w \in PE |-> Pending(w)]
roundBar == IF RoundOpen THEN "open" ELSE "rest"

\* Whether a round is open, and whether it gave something, after a step.
LEMMA OpenNext ==
    /\ RoundOpen' <=> mpc' = "schedule" /\ (cnt' > 0 \/ queueBar' # {})
    /\ RoundOpen <=> mpc = "schedule" /\ (cnt > 0 \/ queueBar # {})
    /\ RoundOpen => roundBar = "open"
    /\ ~RoundOpen => roundBar = "rest"
    /\ RoundOpen' => roundBar' = "open"
    /\ ~RoundOpen' => roundBar' = "rest"
BY DEF RoundOpen, roundBar, queueBar

\* A step that changes what one PE has pending, or none.
LEMMA PendingSame ==
    ASSUME \A w \in PE : Pending(w)' = Pending(w)
    PROVE  pendingBar' = pendingBar
BY DEF pendingBar, PE

LEMMA PendingUpdate ==
    ASSUME NEW v \in PE, NEW e, Pending(v)' = e,
           \A w \in PE : w # v => Pending(w)' = Pending(w)
    PROVE  pendingBar' = [pendingBar EXCEPT ![v] = e]
BY DEF pendingBar, PE

\* What the policy reads of a PE tells whether all it was given is drained.
LEMMA IdleIsPending ==
    ASSUME CoreInv, BusyInv, mpc = "schedule", NEW w \in PE
    PROVE  Idle(w) <=> Pending(w) = {}
<1>1. /\ todo[w] \in Seq(Node) /\ completed[w] \in Seq(Node)
      /\ resource_state[w] \in {0, 1, 3}
  BY DEF CoreInv, TypeOK, WorkerTypeOK
<1>2. /\ todo[w] = <<>> <=> ToSet(todo[w]) = {}
      /\ completed[w] = <<>> <=> ToSet(completed[w]) = {}
  BY <1>1, EmptyAsSet
<1>3. resource_state[w] # 3
  BY DEF BusyInv, Exiting
<1>4. resource_state[w] = 0 <=> task[w] = NoNode
  BY <1>1, <1>3 DEF CoreInv, WorkerInv, BusyInv
<1> QED
  BY <1>2, <1>4 DEF Idle, Pending

\* A node that is pending is marked, and not ready.
LEMMA PendingIsMarked ==
    ASSUME NodeInOnePlace, NEW w \in PE
    PROVE  Pending(w) \subseteq Marked \ queueBar
<1>0. Placed
  BY PlacedDistinct
<1>1. ASSUME NEW u \in Place, u # <<"ready", 0>>
      PROVE  Contents(u) \subseteq Marked \ queueBar
  <2>1. Contents(u) \cap Contents(<<"ready", 0>>) = {}
    BY <1>0, <1>1, ContentsAt DEF Placed
  <2> QED
    BY <1>0, <2>1, ContentsAt, MarkedSomewhere DEF queueBar
<1>2. /\ ToSet(todo[w]) \subseteq Marked \ queueBar
      /\ {task[w]} \ {NoNode} \subseteq Marked \ queueBar
      /\ ToSet(completed[w]) \subseteq Marked \ queueBar
  <2>1. <<"todo", w>> # <<"ready", 0>> /\ <<"held", w>> # <<"ready", 0>>
        /\ <<"handed", w>> # <<"ready", 0>>
    OBVIOUS
  <2>2. /\ Contents(<<"todo", w>>) \subseteq Marked \ queueBar
        /\ Contents(<<"held", w>>) \subseteq Marked \ queueBar
        /\ Contents(<<"handed", w>>) \subseteq Marked \ queueBar
    BY <1>1, <2>1, ContentsAt
  <2> QED
    BY <2>2, ContentsAt
<1> QED
  BY <1>2 DEF Pending

\* Nodes that become ready join those that are.
LEMMA PushReady ==
    ASSUME CoreInv, NEW S \in SUBSET Node, Push(S)
    PROVE  queueBar' = queueBar \cup S
<1>1. \A n \in Node : /\ ready_queue[n] \in Nat
                      /\ ready_queue'[n] = ready_queue[n] + (IF n \in S THEN 1 ELSE 0)
  BY DEF CoreInv, TypeOK, NodeTypeOK, Push
<1>2. \A n \in Node : ready_queue'[n] > 0 <=> ready_queue[n] > 0 \/ n \in S
  BY <1>1
<1> QED
  BY <1>2 DEF queueBar

\* Nodes become ready, and are drained, between the rounds only.
LEMMA BetweenMaps ==
    ASSUME CoreInv, NodeInOnePlace, NEW S \in SUBSET Node, Push(S),
           \A n \in S : ~in_ready_queue[n],
           \A w \in PE : Pending(w)' \subseteq Pending(w),
           ~(mpc = "schedule" /\ cnt > 0), ~(mpc' = "schedule" /\ cnt' > 0)
    PROVE  Round!Between /\ queueBar' = queueBar \cup S
<1>1. pendingBar' = [w \in PE |-> pendingBar[w] \cap pendingBar'[w]]
  <2>1. \A w \in PE : Pending(w) \cap Pending(w)' = Pending(w)'
    OBVIOUS
  <2> QED
    BY <2>1 DEF pendingBar, PE
<1>2. queueBar' = queueBar \cup S
  BY PushReady
<1>3. \A w \in PE : pendingBar'[w] \cap queueBar' = {}
  <2> SUFFICES ASSUME NEW w \in PE PROVE Pending(w)' \cap queueBar' = {}
    BY DEF pendingBar, PE
  <2>1. Pending(w) \cap S = {} /\ Pending(w) \cap queueBar = {}
    BY PendingIsMarked DEF Marked
  <2> QED
    BY <1>2, <2>1
<1>4. (mpc = "schedule" /\ cnt > 0)' = (mpc = "schedule" /\ cnt > 0)
  OBVIOUS
<1> QED
  BY <1>1, <1>2, <1>3, <1>4 DEF Round!Between, pendingBar, queueBar

\* Before the first round nothing is ready or pending.
LEMMA RoundInit == Init => Round!Init
<1> SUFFICES ASSUME Init PROVE Round!Init
  OBVIOUS
<1>1. ToSet(<<>>) = {}
  BY DEF ToSet
<1>2. \A w \in PE : Pending(w) = {}
  BY <1>1 DEF Init, Pending
<1>3. queueBar = {} /\ mpc = "ipc"
  BY DEF Init, queueBar
<1>4. roundBar = "rest" /\ ~(mpc = "schedule" /\ cnt > 0)
  BY <1>3, OpenNext
<1>5. Queueing \in BOOLEAN
  BY DaemonAssumption
<1> QED
  BY <1>2, <1>3, <1>4, <1>5 DEF Round!Init, roundBar, queueBar

\* The rest of a pass, as far as the rounds are concerned: the main thread is
\* not scheduling, or does not move.
RoundStill ==
    /\ UNCHANGED <<ready_queue, todo, task, completed>>
    /\ UNCHANGED <<mpc, cnt>> \/ "schedule" \notin {mpc, mpc'}

\* The steps that open or close a round, or touch the nodes.
LEMMA WhoSchedules ==
    ASSUME [Next]_vars
    PROVE  \/ RoundStill
           \/ PopCompleted \/ ArriveApps \/ FireStreams \/ EndScheduling
           \/ \E n \in Node, w \in PE : AssignTask(n, w)
           \/ \E w \in PE : TakeTask(w) \/ HandBack(w)
<1> USE DEF RoundStill, vars, mainVars, slotVars, phaseVars, arriveVars, retireVars,
   nodeVars, workerVars
<1>1. CASE SubDag \/ KillDaemon \/ Gone \/ UNCHANGED vars
  BY <1>1 DEF SubDag, KillDaemon, Gone
<1>2. CASE ReceiveApps \/ ReceiveNothing \/ EndPass \/ JoinWorkers
           \/ BeginExit \/ RetirePE \/ CountCompleted
  BY <1>2 DEF ReceiveApps, ReceiveNothing, EndPass, JoinWorkers,
    BeginExit, RetirePE, CountCompleted
<1>3. CASE \E a \in Apps : BecomeDue(a) \/ FreeApp(a)
  BY <1>3 DEF BecomeDue, FreeApp
<1>4. CASE \E w \in PE : StopWorker(w)
  BY <1>4 DEF StopWorker
<1> QED
  BY <1>1, <1>2, <1>3, <1>4 DEF Next, Main, Worker

\* What was handed back is drained while no round is open, and releases nodes.
LEMMA PopMaps ==
    ASSUME WhereInv, PopCompleted
    PROVE  Round!Rest
<1> DEFINE R == Released(Head(completed[idx]), [iter EXCEPT ![Head(completed[idx])] = @ + 1])
<1>0. CoreInv /\ NodeInOnePlace
  BY DEF WhereInv
<1>1. /\ mpc = "pop" /\ mpc' \in {"pop", "drain"} /\ Push(R)
      /\ completed' = [completed EXCEPT ![idx] = Tail(@)]
      /\ UNCHANGED <<todo, task>>
  BY PopEffect DEF PopCompleted
<1>2. /\ idx \in PE /\ completed \in [PE -> Seq(Node)] /\ completed[idx] # <<>>
      /\ Head(completed[idx]) \in Node
  BY <1>0, <1>1, DrainedNode DEF CoreInv, TypeOK, WorkerTypeOK
<1>3. R \in SUBSET Node /\ \A n \in R : ~in_ready_queue[n]
  BY <1>2, SameApp DEF Released
<1> HIDE DEF R
<1>4. ASSUME NEW w \in PE PROVE Pending(w)' \subseteq Pending(w)
  <2>1. ToSet(completed'[w]) \subseteq ToSet(completed[w])
    <3>1. CASE w = idx
      BY <1>1, <1>2, <3>1, HeadAndTail
    <3>2. CASE w # idx
      BY <1>1, <1>2, <3>2
    <3> QED
      BY <3>1, <3>2
  <2> QED
    BY <1>1, <2>1 DEF Pending
<1>5. Round!Between
  BY <1>0, <1>1, <1>3, <1>4, BetweenMaps
<1>6. roundBar = "rest" /\ roundBar' = "rest"
  BY <1>1, OpenNext
<1> QED
  BY <1>5, <1>6 DEF Round!Rest, roundBar

\* The nodes that start an instance become ready while no round is open.
LEMMA ArriveMaps ==
    ASSUME WhereInv, ArriveApps
    PROVE  Round!Rest
<1>0. CoreInv /\ NodeInOnePlace /\ ListInv
  BY DEF WhereInv
<1>1. /\ mpc = "drain" /\ mpc' = "fire" /\ Push(Starters(due))
      /\ UNCHANGED <<todo, task, completed>>
  BY DEF ArriveApps, workerVars
<1>2. Starters(due) \in SUBSET Node /\ \A n \in Starters(due) : ~in_ready_queue[n]
  BY <1>0, Asleep DEF Starters, ListInv
<1>3. \A w \in PE : Pending(w)' \subseteq Pending(w)
  BY <1>1 DEF Pending
<1>4. Round!Between
  BY <1>0, <1>1, <1>2, <1>3, BetweenMaps
<1>5. roundBar = "rest" /\ roundBar' = "rest"
  BY <1>1, OpenNext
<1> QED
  BY <1>4, <1>5 DEF Round!Rest, roundBar

\* The streams' nodes become ready, and the round opens if there are any.
LEMMA FireMaps ==
    ASSUME WhereInv, FireStreams
    PROVE  Round!Open \/ Round!Rest
<1>0. CoreInv /\ NodeInOnePlace
  BY DEF WhereInv
<1>1. /\ mpc = "fire" /\ mpc' = "schedule" /\ cnt' = 0 /\ Push(Fireable)
      /\ UNCHANGED <<todo, task, completed>>
  BY DEF FireStreams, workerVars
<1>2. Fireable \in SUBSET Node /\ \A n \in Fireable : ~in_ready_queue[n]
  BY DEF Fireable
<1>3. \A w \in PE : Pending(w)' \subseteq Pending(w)
  BY <1>1 DEF Pending
<1>4. Round!Between
  BY <1>0, <1>1, <1>2, <1>3, BetweenMaps
<1>5. roundBar = "rest" /\ roundBar' = (IF queueBar' # {} THEN "open" ELSE "rest")
  BY <1>1, OpenNext
<1>6. CASE queueBar' # {}
  BY <1>4, <1>5, <1>6 DEF Round!Open, roundBar, queueBar
<1>7. CASE queueBar' = {}
  BY <1>4, <1>5, <1>7 DEF Round!Rest, roundBar
<1> QED
  BY <1>6, <1>7

\* A node leaves ready_queue for a PE that supports it and, without queueing, has
\* nothing left to drain.
LEMMA AssignMaps ==
    ASSUME WhereInv, BusyInv, NEW n \in Node, NEW w \in PE, AssignTask(n, w)
    PROVE  Round!Give(n, w) /\ n \in queueBar
<1>0. /\ CoreInv /\ NodeInOnePlace /\ cnt \in Nat
      /\ ready_queue \in [Node -> Nat] /\ todo \in [PE -> Seq(Node)]
  BY DEF WhereInv, CoreInv, TypeOK, MainTypeOK, NodeTypeOK, WorkerTypeOK
<1>1. /\ mpc = "schedule" /\ mpc' = "schedule" /\ cnt' = cnt + 1
      /\ ready_queue[n] > 0 /\ w \in CanRun[n]
      /\ Queueing \/ Idle(w)
      /\ todo' = [todo EXCEPT ![w] = Append(@, n)]
      /\ ready_queue' = [ready_queue EXCEPT ![n] = @ - 1]
      /\ UNCHANGED <<task, completed>>
  BY DEF AssignTask
<1>2. n \in queueBar /\ queueBar' = queueBar \ {n}
  <2>1. ready_queue[n] = 1
    BY <1>0, <1>1 DEF NodeInOnePlace
  <2>2. \A m \in Node : ready_queue'[m] = IF m = n THEN 0 ELSE ready_queue[m]
    BY <1>0, <1>1, <2>1
  <2> QED
    BY <1>1, <2>2 DEF queueBar
<1>3. roundBar = "open" /\ roundBar' = "open" /\ (mpc = "schedule" /\ cnt > 0)' = TRUE
  <2>1. cnt' > 0
    BY <1>0, <1>1
  <2> QED
    BY <1>1, <1>2, <2>1, OpenNext
<1>4. Pending(w)' = Pending(w) \cup {n}
  <2>1. ToSet(todo'[w]) = ToSet(todo[w]) \cup {n}
    BY <1>0, <1>1, AppendElements
  <2> QED
    BY <1>1, <2>1 DEF Pending
<1>5. \A v \in PE : v # w => Pending(v)' = Pending(v)
  BY <1>0, <1>1 DEF Pending
<1>6. pendingBar' = [pendingBar EXCEPT ![w] = @ \cup {n}]
  <2>1. pendingBar[w] = Pending(w)
    BY DEF pendingBar
  <2> QED
    BY <1>4, <1>5, <2>1, PendingUpdate
<1>7. Queueing \/ pendingBar[w] = {}
  BY <1>0, <1>1, IdleIsPending DEF pendingBar
<1>8. Round!Give(n, w)
  BY <1>1, <1>2, <1>3, <1>6, <1>7
     DEF Round!Give, Round!Idle, roundBar, pendingBar, queueBar
<1> QED
  BY <1>2, <1>8

\* When no PE is counted free, every PE has something to run or to drain.
LEMMA NoneFree ==
    ASSUME CoreInv, LoadInv, ~Queueing, mpc = "schedule", free_resource_count = 0,
           NEW w \in PE
    PROVE  ~Idle(w)
<1>1. Counting
  <2>1. NumPEs \in Nat /\ NumPEs > 0
    BY DaemonAssumption
  <2> QED
    BY <2>1, DaemonAssumption DEF LoadInv
<1>2. IsFiniteSet(FreePEs)
  <2>1. IsFiniteSet(PE)
    BY DaemonAssumption, FS_Interval DEF PE
  <2> QED
    BY <2>1, FS_Subset DEF FreePEs
<1>3. FreePEs = {}
  BY <1>1, <1>2, FS_EmptySet DEF LoadInv
<1>4. todo[w] # <<>> \/ task[w] # NoNode \/ completed[w] # <<>>
  BY <1>3 DEF FreePEs, Occupied
<1>5. task[w] # NoNode => resource_state[w] # 0
  BY DEF CoreInv, WorkerInv, LoadInv, BusyInv
<1> QED
  BY <1>4, <1>5 DEF Idle

\* A policy returns when nothing is ready or, without queueing, when it assigned
\* something or a ready node has to wait; if it had nothing to do, no round was
\* open.
LEMMA EndMaps ==
    ASSUME CoreInv, LoadInv, EndScheduling
    PROVE  Round!Close \/ UNCHANGED Round!roundVars
<1>0. cnt \in Nat /\ BusyInv /\ ready_queue \in [Node -> Nat]
  BY DEF LoadInv, CoreInv, TypeOK, MainTypeOK, NodeTypeOK
<1>1. /\ mpc = "schedule" /\ mpc' = "free" /\ cnt' = 0
      /\ UNCHANGED <<ready_queue, todo, task, completed>>
  BY DEF EndScheduling, nodeVars, workerVars
<1>2. queueBar' = queueBar /\ pendingBar' = pendingBar
  <2>1. \A w \in PE : Pending(w)' = Pending(w)
    BY <1>1 DEF Pending
  <2> QED
    BY <1>1, <2>1, PendingSame DEF queueBar
<1>3. roundBar' = "rest" /\ (mpc = "schedule" /\ cnt > 0)' = FALSE
  BY <1>1, OpenNext
<1>4. CASE ~RoundOpen
  <2>1. roundBar = "rest" /\ (mpc = "schedule" /\ cnt > 0) = FALSE
    BY <1>1, <1>4, OpenNext
  <2> QED
    BY <1>2, <1>3, <2>1 DEF Round!roundVars, roundBar, pendingBar, queueBar
<1>5. CASE RoundOpen
  <2>1. roundBar = "open"
    BY <1>5, OpenNext
  <2>2. \/ queueBar = {}
        \/ ~Queueing /\ (cnt > 0 \/ \E n \in queueBar : Round!Blocked(n))
    <3>1. ASSUME NEW n \in Node, ready_queue[n] > 0, NEW w \in CanRun[n], ~Idle(w)
          PROVE  \E m \in queueBar : Round!Blocked(m)
      <4>1. w \in PE /\ n \in queueBar
        BY <3>1, DaemonAssumption DEF queueBar
      <4>2. pendingBar[w] # {}
        BY <1>0, <1>1, <3>1, <4>1, IdleIsPending DEF pendingBar
      <4>3. Round!Blocked(n)
        BY <3>1, <4>2 DEF Round!Blocked, Round!Idle, pendingBar
      <4> QED
        BY <4>1, <4>3
    <3>2. CASE \A n \in Node : ready_queue[n] = 0
      BY <3>2 DEF queueBar
    <3>3. CASE ~Queueing /\ cnt > 0
      BY <3>3
    <3>4. CASE ~Queueing /\ Refused
      BY <3>1, <3>4 DEF Refused
    <3>5. CASE ~Queueing /\ free_resource_count = 0 /\ ~(cnt > 0)
      <4>1. PICK n \in Node : ready_queue[n] > 0
        BY <1>5, <3>5 DEF RoundOpen
      <4>2. PICK w \in CanRun[n] : w \in PE
        BY DaemonAssumption
      <4>3. ~Idle(w)
        BY <1>1, <3>5, <4>2, NoneFree
      <4> QED
        BY <3>1, <3>5, <4>1, <4>2, <4>3
    <3> QED
      BY <3>2, <3>3, <3>4, <3>5 DEF EndScheduling
  <2> QED
    BY <1>1, <1>2, <1>3, <2>1, <2>2 DEF Round!Close, roundBar, pendingBar, queueBar
<1> QED
  BY <1>4, <1>5

\* A worker that takes a node or hands it back has it still.
LEMMA WorkerMaps ==
    ASSUME CoreInv, NEW w \in PE, TakeTask(w) \/ HandBack(w)
    PROVE  UNCHANGED Round!roundVars
<1>0. /\ todo \in [PE -> Seq(Node)] /\ completed \in [PE -> Seq(Node)]
      /\ task \in [PE -> Node \cup {NoNode}] /\ NoNode \notin Node
      /\ wpc[w] = "run" <=> task[w] # NoNode
  BY DaemonAssumption DEF CoreInv, TypeOK, WorkerTypeOK, WorkerInv
<1>1. UNCHANGED <<mpc, cnt, ready_queue>>
  BY DEF TakeTask, HandBack, mainVars, phaseVars, nodeVars
<1>2. Pending(w)' = Pending(w)
  <2>1. CASE TakeTask(w)
    <3>1. /\ task' = [task EXCEPT ![w] = Head(todo[w])]
          /\ todo' = [todo EXCEPT ![w] = Tail(@)] /\ UNCHANGED completed
          /\ todo[w] # <<>> /\ task[w] = NoNode
      BY <1>0, <2>1 DEF TakeTask
    <3>2. ToSet(todo[w]) = ToSet(todo'[w]) \cup {task'[w]} /\ task'[w] # NoNode
      <4>1. Head(todo[w]) \in Node
        BY <1>0, <3>1, TailType
      <4> QED
        BY <1>0, <3>1, <4>1, HeadAndTail
    <3> QED
      BY <3>1, <3>2 DEF Pending
  <2>2. CASE HandBack(w)
    <3>1. /\ task' = [task EXCEPT ![w] = NoNode]
          /\ completed' = [completed EXCEPT ![w] = Append(@, task[w])] /\ UNCHANGED todo
          /\ task[w] \in Node
      BY <1>0, <2>2 DEF HandBack
    <3>2. ToSet(completed'[w]) = ToSet(completed[w]) \cup {task[w]} /\ task'[w] = NoNode
      BY <1>0, <3>1, AppendElements
    <3>3. task[w] # NoNode
      BY <1>0, <3>1
    <3> QED
      BY <3>1, <3>2, <3>3 DEF Pending
  <2> QED
    BY <2>1, <2>2
<1>3. ASSUME NEW v \in PE, v # w PROVE Pending(v)' = Pending(v)
  <2>1. todo'[v] = todo[v] /\ task'[v] = task[v] /\ completed'[v] = completed[v]
    BY <1>0, <1>3 DEF TakeTask, HandBack
  <2> QED
    BY <2>1 DEF Pending
<1>4. pendingBar' = pendingBar
  BY <1>2, <1>3, PendingSame
<1> QED
  BY <1>1, <1>4 DEF Round!roundVars, RoundOpen, pendingBar

\* Every step of the daemon is one of a round, or one the round does not see.
LEMMA RoundStep ==
    ASSUME WhereInv, LoadInv, [Next]_vars
    PROVE  [Round!Next]_(Round!roundVars)
<1>0. CoreInv /\ BusyInv
  BY DEF WhereInv, LoadInv
<1>1. CASE RoundStill
  <2>1. UNCHANGED <<ready_queue, todo, task, completed>>
    BY <1>1 DEF RoundStill
  <2>2. queueBar' = queueBar /\ pendingBar' = pendingBar
    <3>1. \A w \in PE : Pending(w)' = Pending(w)
      BY <2>1 DEF Pending
    <3> QED
      BY <2>1, <3>1, PendingSame DEF queueBar
  <2>3. roundBar' = roundBar /\ (mpc = "schedule" /\ cnt > 0)' = (mpc = "schedule" /\ cnt > 0)
    <3>1. CASE UNCHANGED <<mpc, cnt>>
      BY <2>1, <3>1 DEF roundBar, RoundOpen
    <3>2. CASE "schedule" \notin {mpc, mpc'}
      BY <3>2, OpenNext
    <3> QED
      BY <1>1, <3>1, <3>2 DEF RoundStill
  <2> QED
    BY <2>2, <2>3 DEF Round!roundVars, roundBar, pendingBar, queueBar
<1>2. CASE PopCompleted
  BY <1>2, PopMaps DEF Round!Next
<1>3. CASE ArriveApps
  BY <1>3, ArriveMaps DEF Round!Next
<1>4. CASE FireStreams
  BY <1>4, FireMaps DEF Round!Next
<1>5. CASE EndScheduling
  BY <1>0, <1>5, EndMaps DEF Round!Next
<1>6. ASSUME NEW n \in Node, NEW w \in PE, AssignTask(n, w) PROVE Round!Next
  BY <1>0, <1>6, AssignMaps DEF Round!Next, queueBar
<1>7. ASSUME NEW w \in PE, TakeTask(w) \/ HandBack(w) PROVE UNCHANGED Round!roundVars
  BY <1>0, <1>7, WorkerMaps
<1> QED
  BY <1>1, <1>2, <1>3, <1>4, <1>5, <1>6, <1>7, WhoSchedules

\* RoundSpec: the DAG daemon too keeps to the rounds its policies were shown to
\* keep to: a PE it finds idle has nothing left to drain, no node is given twice
\* or while it waits for its drain, and with queueing none stays behind.
THEOREM DaemonKeepsToRounds == Spec => RoundSpec
BY RoundInit, RoundStep, WhereInvariance, LoadInvariance, PTL
   DEF Spec, RoundSpec, Round!Spec

=============================================================================
