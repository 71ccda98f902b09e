------------------------------ MODULE DagProofs ------------------------------
(***************************************************************************)
(* Theorems about DagRuntime, for every acyclic graph, every streaming     *)
(* mode and number of frames, every number of PEs and every configuration: *)
(* types, and where a node can be.                                         *)
(***************************************************************************)
EXTENDS DagRuntime, QueueLemmas

-----------------------------------------------------------------------------
\* The inductive core: types, loop indices, and what a worker holds.
CoreInv == TypeOK /\ LoopInv /\ WorkerInv

\* The completed_task_dequeue that the main thread drains is not empty.
LEMMA DrainedNode ==
    ASSUME CoreInv, mpc = "pop"
    PROVE  /\ idx \in PE /\ cnt \in 1..Len(completed[idx]) /\ cnt \in Nat \ {0}
           /\ completed[idx] \in Seq(Node) /\ completed[idx] # <<>>
           /\ Head(completed[idx]) \in Node /\ Tail(completed[idx]) \in Seq(Node)
           /\ Len(completed[idx]) \in Nat
           /\ Len(Tail(completed[idx])) = Len(completed[idx]) - 1
<1>1. idx \in PE /\ cnt \in 1..Len(completed[idx])
  BY DEF CoreInv, LoopInv
<1>2. completed[idx] \in Seq(Node)
  BY <1>1 DEF CoreInv, TypeOK, WorkerTypeOK
<1>3. completed[idx] # <<>> /\ Len(completed[idx]) \in Nat
  BY <1>1, <1>2
<1> QED
  BY <1>1, <1>2, <1>3, TailType

\* Nodes that enter ready_queue are counted.
LEMMA PushType ==
    ASSUME ready_queue \in [Node -> Nat], NEW S, Push(S)
    PROVE  ready_queue' \in [Node -> Nat]
<1>1. \A n \in Node : ready_queue[n] + (IF n \in S THEN 1 ELSE 0) \in Nat
  OBVIOUS
<1> QED
  BY <1>1 DEF Push

\* What a drain does, part by part.
LEMMA PopEffect ==
    ASSUME PopCompleted
    PROVE  LET n == Head(completed[idx])
               a == AppOf[n]
               it == [iter EXCEPT ![n] = @ + 1]
           IN  /\ iter' = it
               /\ completed_count' = [completed_count EXCEPT ![a] = @ + 1]
               /\ in_ready_queue' = [m \in Node |->
                     m \in Released(n, it) \/ (m # n /\ in_ready_queue[m])]
               /\ Push(Released(n, it))
               /\ completed_apps' \in {completed_apps, completed_apps \cup {a}}
               /\ arrived' \in {arrived, arrived \ {a}}
               /\ completed' = [completed EXCEPT ![idx] = Tail(@)]
               /\ cnt' = cnt - 1 /\ idx' \in {idx, idx + 1} /\ mpc' \in {"drain", "pop"}
               /\ UNCHANGED <<slotVars, received, unarrived, due, freed,
                              free_resource_count, wpc, task, resource_state, todo>>
BY DEF PopCompleted

\* Every action keeps the variables in their types.
LEMMA TypeStep ==
    ASSUME CoreInv, [Next]_vars
    PROVE  TypeOK'
<1> USE DaemonAssumption, GraphAssumption DEF CoreInv, TypeOK, MainTypeOK, NodeTypeOK,
   WorkerTypeOK, vars, mainVars, slotVars, phaseVars, arriveVars, retireVars,
   nodeVars, workerVars, PE
<1>1. ASSUME SubDag PROVE TypeOK'
  BY <1>1 DEF SubDag
<1>2. ASSUME KillDaemon PROVE TypeOK'
  BY <1>2 DEF KillDaemon
<1>3. ASSUME NEW a \in Apps, BecomeDue(a) PROVE TypeOK'
  BY <1>3 DEF BecomeDue
<1>4. ASSUME ReceiveApps PROVE TypeOK'
  <2>1. unarrived' \subseteq Apps /\ payload' \subseteq Apps
    BY <1>4 DEF ReceiveApps
  <2>2. /\ cmd' = "NOPE" /\ mpc' = "drain" /\ idx' = 1 /\ received' = TRUE
        /\ UNCHANGED <<cnt, due, arrived, retireVars, free_resource_count, nodeVars,
                       workerVars>>
    BY <1>4 DEF ReceiveApps
  <2> QED
    BY <2>1, <2>2
<1>5. ASSUME ReceiveNothing PROVE TypeOK'
  BY <1>5 DEF ReceiveNothing
<1>6. ASSUME BeginExit PROVE TypeOK'
  BY <1>6 DEF BeginExit
<1>7. ASSUME CountCompleted PROVE TypeOK'
  <2>1. completed[idx] \in Seq(Node) /\ Len(completed[idx]) \in Nat
    BY <1>7 DEF CountCompleted
  <2>2. cnt' \in Nat /\ free_resource_count' \in Int
    BY <1>7, <2>1 DEF CountCompleted
  <2>4. idx' \in {idx, idx + 1} /\ mpc' \in {"drain", "pop"} /\ idx \in PE
    BY <1>7 DEF CountCompleted
  <2>5. idx' \in 1..(NumPEs + 1)
    BY <2>4
  <2>3. UNCHANGED <<slotVars, arriveVars, retireVars, nodeVars, workerVars>>
    BY <1>7 DEF CountCompleted
  <2> QED
    BY <2>2, <2>3, <2>4, <2>5
<1>8. ASSUME PopCompleted PROVE TypeOK'
  <2> DEFINE n == Head(completed[idx])
             it == [iter EXCEPT ![n] = @ + 1]
  <2>1. mpc = "pop"
    BY <1>8 DEF PopCompleted
  <2>2. /\ idx \in PE /\ cnt \in Nat \ {0} /\ n \in Node
        /\ Tail(completed[idx]) \in Seq(Node)
    BY <2>1, DrainedNode
  <2>3. AppOf[n] \in Apps
    BY <2>2
  <2> HIDE DEF n
  <2>4. MainTypeOK'
    <3>4. /\ cnt' = cnt - 1 /\ idx' \in {idx, idx + 1} /\ mpc' \in {"drain", "pop"}
          /\ completed_apps' \in {completed_apps, completed_apps \cup {AppOf[n]}}
          /\ arrived' \in {arrived, arrived \ {AppOf[n]}}
      BY <1>8, <2>1, PopEffect DEF n
    <3>1. cnt' \in Nat /\ idx' \in 1..(NumPEs + 1)
      <4>1. cnt' \in Nat
        BY <2>2, <3>4
      <4>2. idx \in 1..NumPEs /\ NumPEs \in Nat
        BY <2>2
      <4>3. idx' = idx \/ idx' = idx + 1
        BY <3>4
      <4> QED
        BY <4>1, <4>2, <4>3
    <3>2. completed_apps' \subseteq Apps /\ arrived' \subseteq Apps
      BY <2>3, <3>4
    <3>3. UNCHANGED <<slotVars, received, unarrived, due, freed, free_resource_count>>
      BY <1>8 DEF PopCompleted
    <3> QED
      BY <3>1, <3>2, <3>3, <3>4
  <2>5. iter' \in [Node -> Nat]
    <3>1. iter' = it
      BY <1>8 DEF PopCompleted, n
    <3> QED
      BY <2>2, <3>1, CountType
  <2>6. in_ready_queue' \in [Node -> BOOLEAN]
    BY <1>8 DEF PopCompleted
  <2>7. completed_count' \in [Apps -> Nat]
    <3>1. completed_count' = [completed_count EXCEPT ![AppOf[n]] = @ + 1]
      BY <1>8 DEF PopCompleted, n
    <3> QED
      BY <2>3, <3>1, CountType
  <2>8. ready_queue' \in [Node -> Nat]
    <3>1. \E S : Push(S)
      BY <1>8 DEF PopCompleted
    <3> QED
      BY <3>1, PushType
  <2>9. WorkerTypeOK'
    <3>1. completed' = [completed EXCEPT ![idx] = Tail(completed[idx])]
      BY <1>8 DEF PopCompleted
    <3>2. completed' \in [PE -> Seq(Node)]
      BY <2>2, <3>1
    <3>3. UNCHANGED <<wpc, task, resource_state, todo>>
      BY <1>8 DEF PopCompleted
    <3> QED
      BY <3>2, <3>3
  <2> QED
    BY <2>4, <2>5, <2>6, <2>7, <2>8, <2>9
<1>9. ASSUME ArriveApps PROVE TypeOK'
  <2>1. ready_queue' \in [Node -> Nat]
    BY <1>9, PushType DEF ArriveApps
  <2>2. in_ready_queue' \in [Node -> BOOLEAN]
    BY <1>9 DEF ArriveApps
  <2> QED
    BY <1>9, <2>1, <2>2 DEF ArriveApps
<1>10. ASSUME FireStreams PROVE TypeOK'
  <2>1. ready_queue' \in [Node -> Nat]
    BY <1>10, PushType DEF FireStreams
  <2>2. in_ready_queue' \in [Node -> BOOLEAN]
    BY <1>10 DEF FireStreams
  <2> QED
    BY <1>10, <2>1, <2>2 DEF FireStreams
<1>11. ASSUME NEW n \in Node, NEW w \in PE, AssignTask(n, w) PROVE TypeOK'
  <2>1. ready_queue' \in [Node -> Nat]
    <3>1. ready_queue' = [ready_queue EXCEPT ![n] = @ - 1] /\ ready_queue[n] > 0
      BY <1>11 DEF AssignTask
    <3>2. ready_queue \in [Node -> Nat] /\ ready_queue[n] \in Nat
      OBVIOUS
    <3>3. ready_queue[n] - 1 \in Nat
      BY <3>1, <3>2
    <3> QED
      BY <3>1, <3>2, <3>3
  <2>2. todo' \in [PE -> Seq(Node)]
    <3>1. Append(todo[w], n) \in Seq(Node)
      BY AppendType
    <3> QED
      BY <1>11, <3>1 DEF AssignTask
  <2>3. free_resource_count' \in Int /\ cnt' \in Nat
    BY <1>11 DEF AssignTask
  <2>4. UNCHANGED <<slotVars, mpc, idx, arriveVars, retireVars, iter, in_ready_queue,
                    completed_count, wpc, task, resource_state, completed>>
    BY <1>11 DEF AssignTask
  <2> QED
    BY <2>1, <2>2, <2>3, <2>4
<1>12. ASSUME EndScheduling PROVE TypeOK'
  BY <1>12 DEF EndScheduling
<1>13. ASSUME NEW a \in Apps, FreeApp(a) PROVE TypeOK'
  BY <1>13 DEF FreeApp
<1>14. ASSUME EndPass PROVE TypeOK'
  BY <1>14 DEF EndPass
<1>15. ASSUME RetirePE PROVE TypeOK'
  <2>1. idx \in PE /\ idx' \in 1..(NumPEs + 1) /\ mpc' \in {"retire", "joinworkers"}
    BY <1>15 DEF RetirePE, LoopInv
  <2>2. resource_state' \in [PE -> {0, 1, 3}]
    BY <1>15, <2>1 DEF RetirePE
  <2>3. UNCHANGED <<slotVars, cnt, arriveVars, retireVars, free_resource_count,
                    nodeVars, wpc, task, todo, completed>>
    BY <1>15 DEF RetirePE
  <2> QED
    BY <2>1, <2>2, <2>3
<1>16. ASSUME JoinWorkers PROVE TypeOK'
  BY <1>16 DEF JoinWorkers
<1>17. ASSUME NEW w \in PE, TakeTask(w) PROVE TypeOK'
  <2>1. Head(todo[w]) \in Node /\ Tail(todo[w]) \in Seq(Node)
    BY <1>17, TailType DEF TakeTask
  <2> QED
    BY <1>17, <2>1 DEF TakeTask
<1>18. ASSUME NEW w \in PE, HandBack(w) PROVE TypeOK'
  <2>1. task[w] \in Node
    BY <1>18 DEF HandBack, WorkerInv
  <2>2. Append(completed[w], task[w]) \in Seq(Node)
    BY <2>1, AppendType
  <2> QED
    BY <1>18, <2>2 DEF HandBack
<1>19. ASSUME NEW w \in PE, StopWorker(w) PROVE TypeOK'
  BY <1>19 DEF StopWorker
<1>20. ASSUME Gone \/ UNCHANGED vars PROVE TypeOK'
  <2>1. UNCHANGED <<slotVars, phaseVars, arriveVars, retireVars, free_resource_count>>
    BY <1>20 DEF Gone
  <2>2. UNCHANGED nodeVars /\ UNCHANGED workerVars
    BY <1>20 DEF Gone
  <2> QED
    BY <2>1, <2>2
<1> QED
  BY <1>1, <1>2, <1>3, <1>4, <1>5, <1>6, <1>7, <1>8, <1>9, <1>10, <1>11, <1>12, <1>13,
     <1>14, <1>15, <1>16, <1>17, <1>18, <1>19, <1>20
     DEF Next, Main, Worker

-----------------------------------------------------------------------------
(* The loops and the workers.                                              *)

\* The main thread pops no more nodes of a PE than it counted there: meanwhile
\* only the worker touches the queue, and makes it longer.
LEMMA LoopStep ==
    ASSUME CoreInv, [Next]_vars
    PROVE  LoopInv'
<1> USE DEF vars, mainVars, slotVars, phaseVars, arriveVars, retireVars, nodeVars,
   workerVars
<1>0. /\ PE' = PE /\ 1 \in PE
      /\ completed \in [PE -> Seq(Node)]
      /\ LoopInv' <=> /\ mpc' = "pop" => idx' \in PE /\ cnt' \in 1..Len(completed'[idx'])
                      /\ mpc' = "retire" => idx' \in PE
  BY DaemonAssumption DEF PE, LoopInv, CoreInv, TypeOK, WorkerTypeOK
<1>1. CASE UNCHANGED <<phaseVars, completed>>
  BY <1>0, <1>1 DEF LoopInv, CoreInv
<1>2. CASE mpc' \notin {"pop", "retire"}
  BY <1>0, <1>2
<1>3. CASE BeginExit
  BY <1>0, <1>3 DEF BeginExit
<1>4. CASE CountCompleted
  <2>1. completed[idx] \in Seq(Node) /\ idx \in PE /\ Len(completed[idx]) \in Nat
    BY <1>0, <1>4 DEF CountCompleted
  <2>2. completed[idx] # <<>> => Len(completed[idx]) > 0
    BY <2>1
  <2>3. mpc' # "retire" /\ completed' = completed
    BY <1>4 DEF CountCompleted
  <2>4. mpc' = "pop" => completed[idx] # <<>> /\ idx' = idx /\ cnt' = Len(completed[idx])
    BY <1>4 DEF CountCompleted
  <2> QED
    BY <1>0, <2>1, <2>2, <2>3, <2>4
<1>5. CASE PopCompleted
  <2>1. mpc = "pop" /\ mpc' \in {"drain", "pop"} /\ cnt' = cnt - 1
        /\ (mpc' = "pop" => cnt # 1 /\ idx' = idx)
    BY <1>5 DEF PopCompleted
  <2>2. completed' = [completed EXCEPT ![idx] = Tail(completed[idx])]
    BY <1>5 DEF PopCompleted
  <2>3. /\ idx \in PE /\ cnt \in 1..Len(completed[idx]) /\ Len(completed[idx]) \in Nat
        /\ Len(Tail(completed[idx])) = Len(completed[idx]) - 1
    BY <2>1, DrainedNode
  <2>4. completed'[idx] = Tail(completed[idx])
    BY <1>0, <2>2, <2>3
  <2> QED
    BY <1>0, <2>1, <2>3, <2>4
<1>6. CASE RetirePE
  <2>1. idx \in PE /\ mpc' # "pop" /\ (mpc' = "retire" => idx < NumPEs /\ idx' = idx + 1)
    BY <1>6 DEF RetirePE, CoreInv, LoopInv
  <2> QED
    BY <1>0, <2>1, DaemonAssumption DEF PE
<1>7. ASSUME NEW w \in PE, HandBack(w) PROVE LoopInv'
  <2>1. UNCHANGED phaseVars /\ completed' = [completed EXCEPT ![w] = Append(completed[w], task[w])]
    BY <1>7 DEF HandBack
  <2>2. completed[w] \in Seq(Node) /\ Len(completed[w]) \in Nat
    BY <1>0
  <2>3. task[w] \in Node
    BY <1>7 DEF HandBack, CoreInv, WorkerInv, TypeOK, WorkerTypeOK
  <2>4. Len(Append(completed[w], task[w])) = Len(completed[w]) + 1
    BY <2>2, <2>3, AppendType
  <2>5. ASSUME mpc = "pop" PROVE idx \in PE /\ cnt \in 1..Len(completed'[idx])
    <3>1. idx \in PE /\ cnt \in 1..Len(completed[idx])
      BY <2>5 DEF CoreInv, LoopInv
    <3>2. CASE idx = w
      BY <1>0, <2>1, <2>2, <2>4, <3>1, <3>2
    <3>3. CASE idx # w
      BY <1>0, <2>1, <3>1, <3>3
    <3> QED
      BY <3>2, <3>3
  <2> QED
    BY <1>0, <2>1, <2>5 DEF CoreInv, LoopInv
<1>8. \/ UNCHANGED <<phaseVars, completed>> \/ mpc' \notin {"pop", "retire"}
      \/ BeginExit \/ CountCompleted \/ PopCompleted \/ RetirePE
      \/ \E w \in PE : HandBack(w)
  <2>1. CASE SubDag \/ KillDaemon \/ Gone \/ UNCHANGED vars
    BY <2>1 DEF SubDag, KillDaemon, Gone
  <2>2. ASSUME NEW a \in Apps, BecomeDue(a) PROVE UNCHANGED <<phaseVars, completed>>
    BY <2>2 DEF BecomeDue
  <2>3. CASE ReceiveApps \/ ReceiveNothing \/ ArriveApps \/ FireStreams \/ EndScheduling
             \/ EndPass \/ JoinWorkers
    BY <2>3 DEF ReceiveApps, ReceiveNothing, ArriveApps, FireStreams, EndScheduling,
      EndPass, JoinWorkers
  <2>4. ASSUME NEW n \in Node, NEW w \in PE, AssignTask(n, w)
        PROVE  mpc' \notin {"pop", "retire"}
    BY <2>4 DEF AssignTask
  <2>5. ASSUME NEW a \in Apps, FreeApp(a) PROVE UNCHANGED <<phaseVars, completed>>
    BY <2>5 DEF FreeApp
  <2>6. ASSUME NEW w \in PE, TakeTask(w) \/ StopWorker(w)
        PROVE  UNCHANGED <<phaseVars, completed>>
    BY <2>6 DEF TakeTask, StopWorker
  <2> QED
    BY <2>1, <2>2, <2>3, <2>4, <2>5, <2>6 DEF Next, Main, Worker
<1> QED
  BY <1>1, <1>2, <1>3, <1>4, <1>5, <1>6, <1>7, <1>8

\* A worker holds a node exactly while it runs one.
LEMMA WorkerStep ==
    ASSUME CoreInv, [Next]_vars
    PROVE  WorkerInv'
<1> USE DEF vars, mainVars, slotVars, phaseVars, arriveVars, retireVars, nodeVars,
   workerVars
<1>0. /\ PE' = PE
      /\ wpc \in [PE -> {"poll", "run", "exited"}] /\ task \in [PE -> Node \cup {NoNode}]
      /\ \A w \in PE : todo[w] \in Seq(Node)
      /\ \A w \in PE : wpc[w] = "run" <=> task[w] # NoNode
  BY DEF PE, CoreInv, TypeOK, WorkerTypeOK, WorkerInv
<1>1. CASE UNCHANGED <<wpc, task>>
  BY <1>0, <1>1 DEF WorkerInv
<1>2. ASSUME NEW w \in PE, TakeTask(w) PROVE WorkerInv'
  <2>1. Head(todo[w]) # NoNode
    BY <1>0, <1>2, TailType, DaemonAssumption DEF TakeTask
  <2>2. task' = [task EXCEPT ![w] = Head(todo[w])] /\ wpc' = [wpc EXCEPT ![w] = "run"]
    BY <1>2 DEF TakeTask
  <2> QED
    BY <1>0, <2>1, <2>2 DEF WorkerInv
<1>3. ASSUME NEW w \in PE, HandBack(w) PROVE WorkerInv'
  BY <1>0, <1>3 DEF HandBack, WorkerInv
<1>4. ASSUME NEW w \in PE, StopWorker(w) PROVE WorkerInv'
  BY <1>0, <1>4 DEF StopWorker, WorkerInv
<1>5. \/ UNCHANGED <<wpc, task>>
      \/ \E w \in PE : TakeTask(w) \/ HandBack(w) \/ StopWorker(w)
  <2>1. CASE SubDag \/ KillDaemon \/ Gone \/ UNCHANGED vars
    BY <2>1 DEF SubDag, KillDaemon, Gone
  <2>2. CASE ReceiveApps \/ ReceiveNothing \/ ArriveApps \/ FireStreams \/ EndScheduling
             \/ EndPass \/ JoinWorkers \/ BeginExit \/ CountCompleted \/ RetirePE
    BY <2>2 DEF ReceiveApps, ReceiveNothing, ArriveApps, FireStreams, EndScheduling,
      EndPass, JoinWorkers, BeginExit, CountCompleted, RetirePE
  <2>3. CASE PopCompleted
    BY <2>3 DEF PopCompleted
  <2>4. CASE \E n \in Node, w \in PE : AssignTask(n, w)
    BY <2>4 DEF AssignTask
  <2>5. CASE \E a \in Apps : BecomeDue(a) \/ FreeApp(a)
    BY <2>5 DEF BecomeDue, FreeApp
  <2> QED
    BY <2>1, <2>2, <2>3, <2>4, <2>5 DEF Next, Main, Worker
<1> QED
  BY <1>1, <1>2, <1>3, <1>4, <1>5

\* The daemon starts in the core invariant.
LEMMA CoreInit == Init => CoreInv
<1> SUFFICES ASSUME Init PROVE CoreInv
  OBVIOUS
<1>1. TypeOK
  <2>1. MainTypeOK
    <3>1. 1 \in 1..(NumPEs + 1) /\ 0 \in Nat /\ NumPEs \in Int
      BY DaemonAssumption
    <3>2. {} \subseteq Apps
      OBVIOUS
    <3> QED
      BY <3>1, <3>2 DEF Init, MainTypeOK
  <2>2. NodeTypeOK
    BY DEF Init, NodeTypeOK
  <2>3. WorkerTypeOK
    BY DEF Init, WorkerTypeOK
  <2> QED
    BY <2>1, <2>2, <2>3 DEF TypeOK
<1> QED
  BY <1>1 DEF Init, CoreInv, LoopInv, WorkerInv

LEMMA CoreInductive == CoreInv /\ [Next]_vars => CoreInv'
BY TypeStep, LoopStep, WorkerStep DEF CoreInv

\* The core holds of the daemon.
THEOREM CoreInvariance == Spec => []CoreInv
BY CoreInit, CoreInductive, PTL DEF Spec

\* Every variable of the daemon keeps its type: the queues it pops from are
\* never empty, and its loops never leave the arrays they index.
THEOREM TypeCorrectness == Spec => []TypeOK
<1>1. CoreInv => TypeOK
  BY DEF CoreInv
<1> QED
  BY <1>1, CoreInvariance, PTL

-----------------------------------------------------------------------------
(* NodeInOnePlace.                                                         *)

flightVars == <<ready_queue, in_ready_queue, todo, task, completed>>

Marked == {n \in Node : in_ready_queue[n]}

\* The actions that mark a node or move one.
LEMMA WhoMovesNodes ==
    ASSUME [Next]_vars
    PROVE  \/ UNCHANGED flightVars /\ UNCHANGED iter
           \/ PopCompleted \/ ArriveApps \/ FireStreams
           \/ \E n \in Node, w \in PE : AssignTask(n, w)
           \/ \E w \in PE : TakeTask(w) \/ HandBack(w)
<1> USE DEF flightVars, vars, mainVars, slotVars, phaseVars, arriveVars, retireVars,
   nodeVars, workerVars
<1>1. CASE SubDag \/ KillDaemon \/ Gone \/ UNCHANGED vars
  BY <1>1 DEF SubDag, KillDaemon, Gone
<1>2. CASE ReceiveApps \/ ReceiveNothing \/ EndScheduling \/ EndPass \/ JoinWorkers
           \/ BeginExit \/ CountCompleted \/ RetirePE
  BY <1>2 DEF ReceiveApps, ReceiveNothing, EndScheduling, EndPass, JoinWorkers,
    BeginExit, CountCompleted, RetirePE
<1>3. CASE \E a \in Apps : BecomeDue(a) \/ FreeApp(a)
  BY <1>3 DEF BecomeDue, FreeApp
<1>4. CASE \E w \in PE : StopWorker(w)
  BY <1>4 DEF StopWorker
<1> QED
  BY <1>1, <1>2, <1>3, <1>4 DEF Next, Main, Worker

\* Each place, by its contents.
LEMMA ContentsAt ==
    /\ <<"ready", 0>> \in Place
    /\ Contents(<<"ready", 0>>) = {n \in Node : ready_queue[n] > 0}
    /\ \A w \in PE :
          /\ <<"todo", w>> \in Place /\ <<"held", w>> \in Place /\ <<"handed", w>> \in Place
          /\ Contents(<<"todo", w>>) = ToSet(todo[w])
          /\ Contents(<<"held", w>>) = {task[w]} \ {NoNode}
          /\ Contents(<<"handed", w>>) = ToSet(completed[w])
BY DEF Contents, Place

\* The same after a step.
LEMMA ContentsNext ==
    /\ Contents(<<"ready", 0>>)' = {n \in Node : ready_queue'[n] > 0}
    /\ \A w \in PE :
          /\ Contents(<<"todo", w>>)' = ToSet(todo'[w])
          /\ Contents(<<"held", w>>)' = {task'[w]} \ {NoNode}
          /\ Contents(<<"handed", w>>)' = ToSet(completed'[w])
BY DEF Contents

\* There is no other place.
LEMMA Places ==
    ASSUME NEW u \in Place
    PROVE  \/ u = <<"ready", 0>>
           \/ \E w \in PE : u = <<"todo", w>> \/ u = <<"held", w>> \/ u = <<"handed", w>>
BY DEF Place

\* The two halves of NodeInOnePlace.
Placed ==
    /\ (UNION {Contents(p) : p \in Place}) = Marked
    /\ \A p, q \in Place : p # q => Contents(p) \cap Contents(q) = {}

Distinct ==
    /\ \A n \in Node : ready_queue[n] <= 1
    /\ \A w \in PE : IsInjective(todo[w]) /\ IsInjective(completed[w])

LEMMA PlacedDistinct ==
    /\ NodeInOnePlace <=> Placed /\ Distinct
    /\ NodeInOnePlace' <=> Placed' /\ Distinct'
BY DEF NodeInOnePlace, Placed, Distinct, Marked

\* What is somewhere is marked, and what is marked is somewhere.
LEMMA MarkedSomewhere ==
    ASSUME Placed
    PROVE  /\ \A u \in Place : Contents(u) \subseteq Marked
           /\ \A n \in Marked : \E u \in Place : n \in Contents(u)
BY DEF Placed

\* Some nodes leave p and others, which are nowhere else, enter q.
LEMMA MoveNodes ==
    ASSUME Placed, NEW p \in Place, NEW q \in Place, p # q, NEW X, NEW Y,
           X \subseteq Contents(p),
           Y \cap Marked \subseteq X,
           Contents(p)' = Contents(p) \ X,
           Contents(q)' = Contents(q) \cup Y,
           \A u \in Place : u # p /\ u # q => Contents(u)' = Contents(u),
           Marked' = (Marked \ X) \cup Y
    PROVE  Placed'
<1> DEFINE C == [u \in Place |-> Contents(u)]
           D == [u \in Place |-> Contents(u)']
<1>1. \A u \in Place : C[u] = Contents(u) /\ D[u] = Contents(u)'
  OBVIOUS
<1>2. UNION {C[u] : u \in Place} = UNION {Contents(u) : u \in Place}
  BY <1>1
<1>3. UNION {D[u] : u \in Place} = UNION {Contents(u)' : u \in Place}
  BY <1>1
<1> HIDE DEF C, D
<1>4. /\ X \subseteq C[p]
      /\ \A u, v \in Place : u # v => C[u] \cap C[v] = {}
      /\ \A u \in Place : Y \cap C[u] \subseteq X
      /\ D[p] = C[p] \ X /\ D[q] = C[q] \cup Y
      /\ \A u \in Place \ {p, q} : D[u] = C[u]
  <2>1. \A u \in Place : Contents(u) \subseteq Marked
    BY MarkedSomewhere
  <2> QED
    BY <1>1, <2>1 DEF Placed
<1>5. ASSUME NEW x, NEW u \in Place, NEW v \in Place, x \in D[u], x \in D[v]
      PROVE  u = v
  <2>1. CASE x \in Y
    <3>1. \A r \in Place : x \in C[r] => r = p
      BY <1>4, <2>1
    <3>2. \A r \in Place : x \in D[r] => r = q
      <4> SUFFICES ASSUME NEW r \in Place, x \in D[r], r # q PROVE FALSE
        OBVIOUS
      <4>1. CASE r = p
        BY <1>4, <2>1, <4>1
      <4>2. CASE r # p
        BY <1>4, <3>1, <4>2
      <4> QED
        BY <4>1, <4>2
    <3> QED
      BY <1>5, <3>2
  <2>2. CASE x \notin Y
    <3>1. x \in C[u] /\ x \in C[v]
      BY <1>4, <1>5, <2>2
    <3> QED
      BY <1>4, <3>1
  <2> QED
    BY <2>1, <2>2
<1>9. ASSUME NEW x
      PROVE  (\E u \in Place : x \in D[u])
                <=> ((\E u \in Place : x \in C[u]) /\ x \notin X) \/ x \in Y
  <2>1. CASE x \in Y
    BY <1>4, <2>1
  <2>2. CASE x \in X /\ x \notin Y
    <3>1. \A u \in Place : x \in C[u] => u = p
      BY <1>4, <2>2
    <3> QED
      BY <1>4, <2>2, <3>1
  <2>3. CASE x \notin X /\ x \notin Y
    <3>1. \A u \in Place : x \in D[u] <=> x \in C[u]
      BY <1>4, <2>3
    <3> QED
      BY <2>3, <3>1
  <2> QED
    BY <2>1, <2>2, <2>3
<1>10. UNION {D[u] : u \in Place} = ((UNION {C[u] : u \in Place}) \ X) \cup Y
  BY <1>9
<1>6. Place' = Place
  BY DEF Place, PE
<1>7. \A u, v \in Place : u # v => Contents(u)' \cap Contents(v)' = {}
  BY <1>1, <1>5
<1>8. UNION {Contents(u)' : u \in Place} = Marked'
  BY <1>2, <1>3, <1>10 DEF Placed
<1> QED
  BY <1>6, <1>7, <1>8 DEF Placed

\* So with one node that goes from p to q.
LEMMA MoveNode ==
    ASSUME Placed, NEW p \in Place, NEW q \in Place, p # q, NEW t \in Contents(p),
           Contents(p)' = Contents(p) \ {t},
           Contents(q)' = Contents(q) \cup {t},
           \A u \in Place : u # p /\ u # q => Contents(u)' = Contents(u),
           UNCHANGED in_ready_queue
    PROVE  Placed'
<1> DEFINE X == {t}
<1>1. /\ X \subseteq Contents(p) /\ X \cap Marked \subseteq X
      /\ Contents(p)' = Contents(p) \ X /\ Contents(q)' = Contents(q) \cup X
  OBVIOUS
<1>2. Marked' = (Marked \ X) \cup X
  BY MarkedSomewhere DEF Marked
<1> HIDE DEF X
<1> QED
  BY <1>1, <1>2, MoveNodes

\* Where no node comes or goes.
LEMMA Elsewhere ==
    ASSUME NEW p, NEW q,
           <<"ready", 0>> \in {p, q} \/ UNCHANGED ready_queue,
           \A w \in PE :
              /\ <<"todo", w>> \in {p, q} \/ todo'[w] = todo[w]
              /\ <<"held", w>> \in {p, q} \/ task'[w] = task[w]
              /\ <<"handed", w>> \in {p, q} \/ completed'[w] = completed[w]
    PROVE  \A u \in Place : u # p /\ u # q => Contents(u)' = Contents(u)
<1> SUFFICES ASSUME NEW u \in Place, u # p, u # q
             PROVE  Contents(u)' = Contents(u)
  OBVIOUS
<1>1. CASE u = <<"ready", 0>>
  BY <1>1, ContentsAt, ContentsNext
<1>2. ASSUME NEW w \in PE, u = <<"todo", w>> PROVE Contents(u)' = Contents(u)
  BY <1>2, ContentsAt, ContentsNext
<1>3. ASSUME NEW w \in PE, u = <<"held", w>> PROVE Contents(u)' = Contents(u)
  BY <1>3, ContentsAt, ContentsNext
<1>4. ASSUME NEW w \in PE, u = <<"handed", w>> PROVE Contents(u)' = Contents(u)
  BY <1>4, ContentsAt, ContentsNext
<1> QED
  BY <1>1, <1>2, <1>3, <1>4, Places

\* A node that is not marked is not in ready_queue.
LEMMA UnmarkedNotReady ==
    ASSUME CoreInv, Placed, NEW n \in Node, ~in_ready_queue[n]
    PROVE  ready_queue[n] = 0
<1>1. n \notin Contents(<<"ready", 0>>)
  BY ContentsAt, MarkedSomewhere DEF Marked
<1>2. ready_queue[n] \in Nat
  BY DEF CoreInv, TypeOK, NodeTypeOK
<1> QED
  BY <1>1, <1>2, ContentsAt

\* Scheduling moves a node from the ready queue to a PE's queue.
LEMMA AssignPlaced ==
    ASSUME CoreInv, Placed, Distinct, NEW n \in Node, NEW w \in PE, AssignTask(n, w)
    PROVE  Placed' /\ Distinct'
<1>1. /\ todo' = [todo EXCEPT ![w] = Append(@, n)]
      /\ ready_queue' = [ready_queue EXCEPT ![n] = @ - 1]
      /\ ready_queue[n] > 0
      /\ UNCHANGED <<in_ready_queue, task, completed>>
  BY DEF AssignTask
<1>2. /\ todo \in [PE -> Seq(Node)] /\ todo[w] \in Seq(Node)
      /\ ready_queue \in [Node -> Nat] /\ ready_queue[n] = 1
  BY <1>1 DEF CoreInv, TypeOK, WorkerTypeOK, NodeTypeOK, Distinct
<1>3. \A m \in Node : ready_queue'[m] = IF m = n THEN 0 ELSE ready_queue[m]
  BY <1>1, <1>2
<1>4. n \in Contents(<<"ready", 0>>)
  BY <1>1, ContentsAt
<1>5. n \notin ToSet(todo[w])
  <2>1. Contents(<<"ready", 0>>) \cap Contents(<<"todo", w>>) = {}
    BY ContentsAt DEF Placed
  <2> QED
    BY <1>4, <2>1, ContentsAt
<1>6. /\ ToSet(Append(todo[w], n)) = ToSet(todo[w]) \cup {n}
      /\ IsInjective(Append(todo[w], n))
  BY <1>2, <1>5, AppendSet DEF Distinct
<1>7. \A v \in PE : todo'[v] = IF v = w THEN Append(todo[w], n) ELSE todo[v]
  BY <1>1, <1>2
<1>8. Distinct'
  BY <1>1, <1>3, <1>6, <1>7 DEF Distinct, PE
<1>9. Placed'
  <2> DEFINE p == <<"ready", 0>>
             q == <<"todo", w>>
  <2>1. p \in Place /\ q \in Place /\ p # q
    BY ContentsAt
  <2>2. Contents(p)' = Contents(p) \ {n} /\ Contents(q)' = Contents(q) \cup {n}
    <3>1. Contents(p)' = Contents(p) \ {n}
      BY <1>3, ContentsAt, ContentsNext
    <3> QED
      BY <1>6, <1>7, <3>1, ContentsAt, ContentsNext
  <2>3. \A u \in Place : u # p /\ u # q => Contents(u)' = Contents(u)
    BY <1>1, <1>7, Elsewhere
  <2>4. n \in Contents(p)
    BY <1>4
  <2> HIDE DEF p, q
  <2> QED
    BY <1>1, <2>1, <2>2, <2>3, <2>4, MoveNode
<1> QED
  BY <1>8, <1>9

\* A worker's pop takes it from there into the worker's hands.
LEMMA TakePlaced ==
    ASSUME CoreInv, Placed, Distinct, NEW w \in PE, TakeTask(w)
    PROVE  Placed' /\ Distinct'
<1> DEFINE t == Head(todo[w])
<1>1. /\ todo' = [todo EXCEPT ![w] = Tail(@)]
      /\ task' = [task EXCEPT ![w] = t]
      /\ todo[w] # <<>> /\ wpc[w] = "poll"
      /\ UNCHANGED <<ready_queue, in_ready_queue, completed>>
  BY DEF TakeTask, mainVars, nodeVars
<1>2. /\ todo \in [PE -> Seq(Node)] /\ todo[w] \in Seq(Node)
      /\ task \in [PE -> Node \cup {NoNode}] /\ task[w] = NoNode
  BY <1>1 DEF CoreInv, TypeOK, WorkerTypeOK, WorkerInv
<1>3. /\ t \in ToSet(todo[w]) /\ t \in Node /\ t # NoNode
      /\ ToSet(Tail(todo[w])) = ToSet(todo[w]) \ {t}
      /\ IsInjective(Tail(todo[w]))
  BY <1>1, <1>2, TailSet, TailType, DaemonAssumption DEF Distinct
<1>4. \A v \in PE : /\ todo'[v] = IF v = w THEN Tail(todo[w]) ELSE todo[v]
                    /\ task'[v] = IF v = w THEN t ELSE task[v]
  BY <1>1, <1>2
<1>5. Distinct'
  BY <1>1, <1>3, <1>4 DEF Distinct, PE
<1>6. Placed'
  <2> DEFINE p == <<"todo", w>>
             q == <<"held", w>>
  <2>1. p \in Place /\ q \in Place /\ p # q /\ t \in Contents(p)
    BY <1>3, ContentsAt
  <2>2. Contents(p)' = Contents(p) \ {t} /\ Contents(q)' = Contents(q) \cup {t}
    <3>1. todo'[w] = Tail(todo[w]) /\ task'[w] = t
      BY <1>4
    <3>2. Contents(p) = ToSet(todo[w]) /\ Contents(p)' = ToSet(todo'[w])
      BY ContentsAt, ContentsNext
    <3>3. Contents(q) = {} /\ Contents(q)' = {t}
      BY <1>2, <1>3, <3>1, ContentsAt, ContentsNext
    <3> QED
      BY <1>3, <3>1, <3>2, <3>3
  <2>3. \A u \in Place : u # p /\ u # q => Contents(u)' = Contents(u)
    BY <1>1, <1>4, Elsewhere
  <2> HIDE DEF p, q, t
  <2> QED
    BY <1>1, <2>1, <2>2, <2>3, MoveNode
<1> QED
  BY <1>5, <1>6

\* The worker puts it into its completed queue.
LEMMA HandBackPlaced ==
    ASSUME CoreInv, Placed, Distinct, NEW w \in PE, HandBack(w)
    PROVE  Placed' /\ Distinct'
<1> DEFINE t == task[w]
<1>1. /\ completed' = [completed EXCEPT ![w] = Append(@, t)]
      /\ task' = [task EXCEPT ![w] = NoNode]
      /\ wpc[w] = "run"
      /\ UNCHANGED <<ready_queue, in_ready_queue, todo>>
  BY DEF HandBack, mainVars, nodeVars
<1>2. /\ completed \in [PE -> Seq(Node)] /\ completed[w] \in Seq(Node)
      /\ task \in [PE -> Node \cup {NoNode}] /\ t \in Node /\ t # NoNode
  BY <1>1 DEF CoreInv, TypeOK, WorkerTypeOK, WorkerInv
<1>3. t \notin ToSet(completed[w])
  <2>1. Contents(<<"held", w>>) \cap Contents(<<"handed", w>>) = {}
    BY ContentsAt DEF Placed
  <2> QED
    BY <1>2, <2>1, ContentsAt
<1>4. /\ ToSet(Append(completed[w], t)) = ToSet(completed[w]) \cup {t}
      /\ IsInjective(Append(completed[w], t))
  BY <1>2, <1>3, AppendSet DEF Distinct
<1>5. \A v \in PE : /\ completed'[v] = IF v = w THEN Append(completed[w], t) ELSE completed[v]
                    /\ task'[v] = IF v = w THEN NoNode ELSE task[v]
  BY <1>1, <1>2
<1>6. Distinct'
  BY <1>1, <1>4, <1>5 DEF Distinct, PE
<1>7. Placed'
  <2> DEFINE p == <<"held", w>>
             q == <<"handed", w>>
  <2>1. p \in Place /\ q \in Place /\ p # q
    BY ContentsAt
  <2>4. t \in Contents(p)
    <3>1. Contents(p) = {task[w]} \ {NoNode}
      BY ContentsAt
    <3> QED
      BY <1>2, <3>1
  <2>2. Contents(p)' = Contents(p) \ {t} /\ Contents(q)' = Contents(q) \cup {t}
    BY <1>4, <1>5, ContentsAt, ContentsNext
  <2>3. \A u \in Place : u # p /\ u # q => Contents(u)' = Contents(u)
    BY <1>1, <1>5, Elsewhere
  <2> HIDE DEF p, q, t
  <2> QED
    BY <1>1, <2>1, <2>4, <2>2, <2>3, MoveNode
<1> QED
  BY <1>6, <1>7

\* Unmarked nodes that enter the ready queue are marked.
LEMMA PushPlaced ==
    ASSUME CoreInv, Placed, Distinct, NEW S \in SUBSET Node, Push(S),
           \A n \in S : ~in_ready_queue[n],
           in_ready_queue' = [n \in Node |-> in_ready_queue[n] \/ n \in S],
           UNCHANGED <<todo, task, completed>>
    PROVE  Placed' /\ Distinct'
<1>1. ready_queue \in [Node -> Nat] /\ in_ready_queue \in [Node -> BOOLEAN]
  BY DEF CoreInv, TypeOK, NodeTypeOK
<1>2. \A n \in Node : ready_queue'[n] = IF n \in S THEN 1 ELSE ready_queue[n]
  <2>1. \A n \in S : ready_queue[n] = 0
    BY UnmarkedNotReady
  <2> QED
    BY <1>1, <2>1 DEF Push
<1>3. Distinct'
  BY <1>2 DEF Distinct, PE
<1>4. Placed'
  <2> DEFINE p == <<"todo", 1>>
             q == <<"ready", 0>>
  <2>1. 1 \in PE
    BY DaemonAssumption DEF PE
  <2>2. p \in Place /\ q \in Place /\ p # q
    BY <2>1, ContentsAt
  <2>3. Contents(p)' = Contents(p) \ {} /\ Contents(q)' = Contents(q) \cup S
    <3>1. {n \in Node : ready_queue'[n] > 0} = {n \in Node : ready_queue[n] > 0} \cup S
      BY <1>2
    <3>2. Contents(q) = {n \in Node : ready_queue[n] > 0}
      BY ContentsAt
    <3>3. Contents(q)' = {n \in Node : ready_queue'[n] > 0}
      BY ContentsNext
    <3>4. Contents(p) = ToSet(todo[1]) /\ Contents(p)' = ToSet(todo'[1])
      BY <2>1, ContentsAt, ContentsNext
    <3> QED
      BY <3>1, <3>2, <3>3, <3>4
  <2>4. \A u \in Place : u # p /\ u # q => Contents(u)' = Contents(u)
    BY Elsewhere
  <2>5. Marked' = (Marked \ {}) \cup S /\ S \cap Marked \subseteq {}
    BY DEF Marked
  <2>6. {} \subseteq Contents(p)
    OBVIOUS
  <2> HIDE DEF p, q
  <2> QED
    BY <2>2, <2>3, <2>4, <2>5, <2>6, MoveNodes
<1> QED
  BY <1>3, <1>4

\* The drain takes a node away, and may release others.
LEMMA PopPlaced ==
    ASSUME CoreInv, Placed, Distinct, PopCompleted
    PROVE  Placed' /\ Distinct'
<1> DEFINE n == Head(completed[idx])
           R == Released(n, [iter EXCEPT ![n] = @ + 1])
<1>1. /\ completed' = [completed EXCEPT ![idx] = Tail(@)]
      /\ in_ready_queue' = [m \in Node |-> m \in R \/ (m # n /\ in_ready_queue[m])]
      /\ Push(R)
      /\ UNCHANGED <<todo, task>>
      /\ mpc = "pop"
  BY PopEffect DEF PopCompleted
<1>2. /\ idx \in PE /\ completed \in [PE -> Seq(Node)]
      /\ completed[idx] \in Seq(Node) /\ completed[idx] # <<>>
      /\ n \in Node
      /\ ready_queue \in [Node -> Nat] /\ in_ready_queue \in [Node -> BOOLEAN]
  BY <1>1, DrainedNode DEF CoreInv, TypeOK, WorkerTypeOK, NodeTypeOK
<1>3. /\ n \in ToSet(completed[idx])
      /\ ToSet(Tail(completed[idx])) = ToSet(completed[idx]) \ {n}
      /\ IsInjective(Tail(completed[idx]))
  BY <1>2, TailSet DEF Distinct
<1>4. n \in Marked
  <2> PICK w \in PE : w = idx
    BY <1>2
  <2>1. <<"handed", w>> \in Place /\ Contents(<<"handed", w>>) = ToSet(completed[w])
    BY ContentsAt
  <2>2. n \in Contents(<<"handed", w>>)
    BY <1>3, <2>1
  <2>3. Contents(<<"handed", w>>) \subseteq Marked
    BY <2>1, MarkedSomewhere
  <2> QED
    BY <2>2, <2>3
<1>5. R \subseteq Node /\ \A m \in R : ~in_ready_queue[m]
  BY GraphAssumption DEF Released, WiredSucc, Succ, Heads, NodesOf
<1> HIDE DEF n, R
<1>6. \A m \in Node : ready_queue'[m] = IF m \in R THEN 1 ELSE ready_queue[m]
  <2>1. \A m \in R : ready_queue[m] = 0
    BY <1>5, UnmarkedNotReady
  <2> QED
    BY <1>1, <1>2, <2>1 DEF Push
<1>7. \A v \in PE : completed'[v] = IF v = idx THEN Tail(completed[idx]) ELSE completed[v]
  BY <1>1, <1>2
<1>8. Distinct'
  BY <1>1, <1>3, <1>6, <1>7 DEF Distinct, PE
<1>9. Placed'
  <2> PICK w \in PE : w = idx
    BY <1>2
  <2> DEFINE p == <<"handed", w>>
             q == <<"ready", 0>>
             X == {n}
  <2>1. p \in Place /\ q \in Place /\ p # q
    BY <1>2, ContentsAt
  <2>2. Contents(p)' = Contents(p) \ X
    <3>1. completed'[w] = Tail(completed[idx])
      BY <1>2, <1>7
    <3>2. Contents(p) = ToSet(completed[idx]) /\ Contents(p)' = ToSet(completed'[w])
      BY <1>2, ContentsAt, ContentsNext
    <3> QED
      BY <1>3, <3>1, <3>2
  <2>3. Contents(q)' = Contents(q) \cup R
    <3>1. {m \in Node : ready_queue'[m] > 0} = {m \in Node : ready_queue[m] > 0} \cup R
      BY <1>5, <1>6
    <3> QED
      BY <3>1, ContentsAt, ContentsNext
  <2>4. \A u \in Place : u # p /\ u # q => Contents(u)' = Contents(u)
    BY <1>1, <1>7, Elsewhere
  <2>5. X \subseteq Contents(p)
    BY <1>2, <1>3, ContentsAt
  <2>6. R \cap Marked \subseteq X
    BY <1>5 DEF Marked
  <2>7. Marked' = (Marked \ X) \cup R
    BY <1>1, <1>2, <1>5 DEF Marked
  <2> HIDE DEF p, q, X
  <2> QED
    BY <2>1, <2>2, <2>3, <2>4, <2>5, <2>6, <2>7, MoveNodes
<1> QED
  BY <1>8, <1>9

\* The nodes of an instance that has not arrived have not moved.
LEMMA Asleep ==
    ASSUME CoreInv, ListInv, NEW n \in Node, AppOf[n] \in unarrived
    PROVE  iter[n] = 0 /\ ~in_ready_queue[n]
<1>1. iter[n] \in Nat
  BY DEF CoreInv, TypeOK, NodeTypeOK
<1> QED
  BY <1>1 DEF ListInv

\* No action loses or repeats a node.
LEMMA PlaceStep ==
    ASSUME CoreInv, ListInv, NodeInOnePlace, [Next]_vars
    PROVE  NodeInOnePlace'
<1>0. Placed /\ Distinct
  BY PlacedDistinct
<1>1. CASE UNCHANGED flightVars
  <2>1. /\ \A u \in Place : Contents(u)' = Contents(u)
        /\ Marked' = Marked
    BY <1>1, Elsewhere DEF flightVars, Marked
  <2>2. Place' = Place
    BY DEF Place, PE
  <2>3. Placed'
    <3>1. (UNION {Contents(u)' : u \in Place}) = (UNION {Contents(u) : u \in Place})
      BY <2>1
    <3> QED
      BY <1>0, <2>1, <2>2, <3>1 DEF Placed
  <2>4. Distinct'
    BY <1>0, <1>1 DEF flightVars, Distinct, PE
  <2> QED
    BY <2>3, <2>4, PlacedDistinct
<1>2. CASE PopCompleted
  BY <1>0, <1>2, PopPlaced, PlacedDistinct
<1>3. CASE ArriveApps
  <2>1. Starters(due) \in SUBSET Node /\ \A n \in Starters(due) : ~in_ready_queue[n]
    BY Asleep DEF Starters, ListInv
  <2>2. /\ Push(Starters(due)) /\ UNCHANGED <<todo, task, completed>>
        /\ in_ready_queue' = [n \in Node |-> in_ready_queue[n] \/ n \in Starters(due)]
    BY <1>3 DEF ArriveApps, workerVars
  <2> QED
    BY <1>0, <2>1, <2>2, PushPlaced, PlacedDistinct
<1>4. CASE FireStreams
  <2>1. Fireable \in SUBSET Node /\ \A n \in Fireable : ~in_ready_queue[n]
    BY DEF Fireable
  <2>2. /\ Push(Fireable) /\ UNCHANGED <<todo, task, completed>>
        /\ in_ready_queue' = [n \in Node |-> in_ready_queue[n] \/ n \in Fireable]
    BY <1>4 DEF FireStreams, workerVars
  <2> QED
    BY <1>0, <2>1, <2>2, PushPlaced, PlacedDistinct
<1>5. CASE \E n \in Node, w \in PE : AssignTask(n, w)
  BY <1>0, <1>5, AssignPlaced, PlacedDistinct
<1>6. CASE \E w \in PE : TakeTask(w) \/ HandBack(w)
  BY <1>0, <1>6, TakePlaced, HandBackPlaced, PlacedDistinct
<1> QED
  BY <1>1, <1>2, <1>3, <1>4, <1>5, <1>6, WhoMovesNodes

\* At first no node is anywhere.
LEMMA PlaceInit == Init => NodeInOnePlace
<1> SUFFICES ASSUME Init PROVE NodeInOnePlace
  OBVIOUS
<1>1. /\ \A n \in Node : ready_queue[n] = 0 /\ in_ready_queue[n] = FALSE
      /\ \A w \in PE : todo[w] = <<>> /\ completed[w] = <<>> /\ task[w] = NoNode
  BY DEF Init
<1>2. ToSet(<<>>) = {} /\ IsInjective(<<>>)
  BY DEF ToSet, IsInjective
<1>3. \A u \in Place : Contents(u) = {}
  <2> SUFFICES ASSUME NEW u \in Place PROVE Contents(u) = {}
    OBVIOUS
  <2>1. CASE u = <<"ready", 0>>
    BY <1>1, <2>1, ContentsAt
  <2>2. ASSUME NEW w \in PE, u = <<"todo", w>> \/ u = <<"held", w>> \/ u = <<"handed", w>>
        PROVE  Contents(u) = {}
    BY <1>1, <1>2, <2>2, ContentsAt
  <2> QED
    BY <2>1, <2>2, Places
<1>4. Placed
  BY <1>1, <1>3 DEF Placed, Marked
<1>5. Distinct
  BY <1>1, <1>2 DEF Distinct
<1> QED
  BY <1>4, <1>5, PlacedDistinct

-----------------------------------------------------------------------------
(* The lists of instances.                                                 *)

\* The node being drained is marked.
LEMMA DrainedIsMarked ==
    ASSUME CoreInv, NodeInOnePlace, mpc = "pop"
    PROVE  /\ Head(completed[idx]) \in Node
           /\ in_ready_queue[Head(completed[idx])]
           /\ Head(completed[idx]) \in ToSet(completed[idx])
<1>1. /\ idx \in PE /\ completed[idx] \in Seq(Node) /\ completed[idx] # <<>>
      /\ Head(completed[idx]) \in Node
  BY DrainedNode
<1>2. IsInjective(completed[idx])
  BY <1>1 DEF NodeInOnePlace
<1>3. Head(completed[idx]) \in ToSet(completed[idx])
  BY <1>1, <1>2, TailSet
<1>4. Head(completed[idx]) \in Marked
  <2>1. Head(completed[idx]) \in Contents(<<"handed", idx>>) /\ <<"handed", idx>> \in Place
    BY <1>1, <1>3, ContentsAt
  <2> QED
    BY <2>1, MarkedSomewhere, PlacedDistinct
<1> QED
  BY <1>1, <1>3, <1>4 DEF Marked

\* A node's neighbours belong to its instance.
LEMMA SameApp ==
    ASSUME NEW n \in Node
    PROVE  /\ \A p \in Pred[n] : p \in Node /\ AppOf[p] = AppOf[n]
           /\ \A c \in Succ(n) : c \in Node /\ AppOf[c] = AppOf[n]
           /\ \A m \in WiredPred(n) \cup WiredSucc(n) : m \in Node /\ AppOf[m] = AppOf[n]
BY GraphAssumption DEF Succ, WiredPred, WiredSucc, Heads, Tails, NodesOf

\* Instances go from list to list, and nodes move once theirs arrived.
LEMMA ListStep ==
    ASSUME CoreInv, ListInv, NodeInOnePlace, [Next]_vars
    PROVE  ListInv'
<1> USE DEF vars, mainVars, slotVars, phaseVars, arriveVars, retireVars, nodeVars,
   workerVars, GivenUp
<1> DEFINE lists == <<payload, unarrived, due, arrived, completed_apps, freed>>
           marks == <<iter, in_ready_queue>>
<1>1. CASE UNCHANGED <<lists, marks>>
  BY <1>1 DEF ListInv
<1>2. CASE SubDag
  <2>1. /\ UNCHANGED <<unarrived, due, arrived, completed_apps, freed, marks>>
        /\ payload' \subseteq {a \in Apps : Fresh(a)}
    BY <1>2 DEF SubDag
  <2> QED
    BY <2>1 DEF ListInv, Fresh
<1>3. CASE ReceiveApps
  <2>1. /\ UNCHANGED <<due, arrived, completed_apps, freed, marks>>
        /\ payload' = {} /\ unarrived' = unarrived \cup payload
    BY <1>3 DEF ReceiveApps
  <2> QED
    BY <2>1 DEF ListInv
<1>4. ASSUME NEW a \in Apps, BecomeDue(a) PROVE ListInv'
  <2>1. /\ UNCHANGED <<payload, unarrived, arrived, completed_apps, freed, marks>>
        /\ due' = due \cup {a} /\ a \in unarrived
    BY <1>4 DEF BecomeDue
  <2> QED
    BY <2>1 DEF ListInv
<1>5. ASSUME NEW a \in Apps, FreeApp(a) PROVE ListInv'
  <2>1. /\ UNCHANGED <<payload, unarrived, due, arrived, marks>>
        /\ completed_apps' \cup freed' = completed_apps \cup freed
    BY <1>5 DEF FreeApp
  <2> QED
    BY <2>1 DEF ListInv
<1>6. CASE ArriveApps
  <2>1. /\ UNCHANGED <<payload, completed_apps, freed, iter>>
        /\ unarrived' = unarrived \ due /\ arrived' = arrived \cup due /\ due' = {}
        /\ in_ready_queue' = [n \in Node |-> in_ready_queue[n] \/ n \in Starters(due)]
    BY <1>6 DEF ArriveApps
  <2>2. \A n \in Starters(due) : AppOf[n] \in due
    BY DEF Starters
  <2>3. due \subseteq unarrived
    BY DEF ListInv
  <2>4. \A n \in Node : iter'[n] > 0 \/ in_ready_queue'[n]
                           => AppOf[n] \in arrived' \cup completed_apps' \cup freed'
    BY <2>1, <2>2 DEF ListInv
  <2> QED
    BY <2>1, <2>3, <2>4 DEF ListInv
<1>7. CASE FireStreams
  <2>1. /\ UNCHANGED <<lists, iter>>
        /\ in_ready_queue' = [n \in Node |-> in_ready_queue[n] \/ n \in Fireable]
    BY <1>7 DEF FireStreams
  <2>2. \A n \in Fireable : AppOf[n] \in arrived
    BY DEF Fireable
  <2> QED
    BY <2>1, <2>2 DEF ListInv
<1>8. CASE PopCompleted
  <2> DEFINE n == Head(completed[idx])
             it == [iter EXCEPT ![n] = @ + 1]
             R == Released(n, it)
  <2>1. mpc = "pop"
    BY <1>8 DEF PopCompleted
  <2>2. n \in Node /\ in_ready_queue[n]
    BY <2>1, DrainedIsMarked
  <2>3. AppOf[n] \in arrived \cup completed_apps \cup freed
    BY <2>2 DEF ListInv
  <2>4. \A c \in R : AppOf[c] = AppOf[n]
    BY <2>2, SameApp DEF Released
  <2>5. iter' = it /\ in_ready_queue' = [m \in Node |-> m \in R \/ (m # n /\ in_ready_queue[m])]
    BY <1>8, PopEffect
  <2>6. /\ completed_apps' \in {completed_apps, completed_apps \cup {AppOf[n]}}
        /\ UNCHANGED <<payload, unarrived, due, freed>>
    BY <1>8, PopEffect
  <2>7. \/ arrived' = arrived /\ completed_apps' = completed_apps
        \/ arrived' = arrived \ {AppOf[n]} /\ completed_apps' = completed_apps \cup {AppOf[n]}
    BY <1>8 DEF PopCompleted
  <2>8. iter \in [Node -> Nat]
    BY DEF CoreInv, TypeOK, NodeTypeOK
  <2> HIDE DEF n, R
  <2>9. arrived' \cup completed_apps' \cup freed' = arrived \cup completed_apps \cup freed
    BY <2>3, <2>6, <2>7 DEF ListInv
  <2>10. /\ payload \cap (unarrived' \cup arrived' \cup (completed_apps' \cup freed')) = {}
         /\ unarrived \cap (arrived' \cup (completed_apps' \cup freed')) = {}
    BY <2>6, <2>9 DEF ListInv
  <2>11. ASSUME NEW m \in Node, iter'[m] > 0 \/ in_ready_queue'[m]
         PROVE  AppOf[m] \in arrived \cup completed_apps \cup freed
    <3>1. CASE m = n \/ m \in R
      BY <2>3, <2>4, <3>1
    <3>2. CASE m # n /\ m \notin R
      <4>1. iter[m] > 0 \/ in_ready_queue[m]
        BY <2>5, <2>8, <2>11, <3>2
      <4> QED
        BY <4>1 DEF ListInv
    <3> QED
      BY <3>1, <3>2
  <2> QED
    BY <2>6, <2>9, <2>10, <2>11 DEF ListInv
<1>9. \/ UNCHANGED <<lists, marks>>
      \/ SubDag \/ ReceiveApps \/ ArriveApps \/ FireStreams \/ PopCompleted
      \/ \E a \in Apps : BecomeDue(a) \/ FreeApp(a)
  <2>1. CASE KillDaemon \/ Gone \/ UNCHANGED vars
    BY <2>1 DEF KillDaemon, Gone
  <2>2. CASE ReceiveNothing \/ EndScheduling \/ EndPass \/ JoinWorkers
             \/ BeginExit \/ CountCompleted \/ RetirePE
    BY <2>2 DEF ReceiveNothing, EndScheduling, EndPass, JoinWorkers, BeginExit,
      CountCompleted, RetirePE
  <2>3. CASE \E n \in Node, w \in PE : AssignTask(n, w)
    BY <2>3 DEF AssignTask
  <2>4. CASE \E w \in PE : TakeTask(w) \/ HandBack(w) \/ StopWorker(w)
    BY <2>4 DEF TakeTask, HandBack, StopWorker
  <2> QED
    BY <2>1, <2>2, <2>3, <2>4 DEF Next, Main, Worker
<1> HIDE DEF lists, marks
<1> QED
  BY <1>1, <1>2, <1>3, <1>4, <1>5, <1>6, <1>7, <1>8, <1>9

-----------------------------------------------------------------------------
\* Where nodes and instances can be.
WhereInv == CoreInv /\ NodeInOnePlace /\ ListInv

LEMMA WhereInit == Init => WhereInv
<1>1. Init => ListInv
  BY DEF Init, ListInv, GivenUp
<1> QED
  BY <1>1, CoreInit, PlaceInit DEF WhereInv

LEMMA WhereInductive == WhereInv /\ [Next]_vars => WhereInv'
BY CoreInductive, PlaceStep, ListStep DEF WhereInv

THEOREM WhereInvariance == Spec => []WhereInv
BY WhereInit, WhereInductive, PTL DEF Spec

\* No node of a running graph is lost or fired twice: it is marked exactly while
\* it is in one queue or in one worker's hands, and there once.
THEOREM NodesAreConserved == Spec => []NodeInOnePlace
<1>1. WhereInv => NodeInOnePlace
  BY DEF WhereInv
<1> QED
  BY <1>1, WhereInvariance, PTL

=============================================================================
