-------------------------- MODULE CedrRuntimeProofs -------------------------
(***************************************************************************)
(* Theorems about CedrRuntime, for every set of applications, every number *)
(* of PEs and every configuration.                                         *)
(***************************************************************************)
EXTENDS CedrRuntime, QueueLemmas, TLAPS

-----------------------------------------------------------------------------
\* The inductive core: types, loop indices, what a worker holds, what a batch
\* counts, and which applications have a thread.
CoreInv == TypeOK /\ LoopInv /\ WorkerInv /\ BatchInv /\ StartInv

\* Every action keeps the variables in their types: the tasks that go from one
\* queue to the next exist, because the loops and the workers take them from
\* queues that are not empty.
LEMMA TypeStep ==
    ASSUME CoreInv, [Next]_vars
    PROVE  TypeOK'
<1> USE ConstantsAssumption DEF CoreInv, TypeOK, MainTypeOK, QueueTypeOK,
   LogTypeOK, WorkerTypeOK, CallTypeOK, AppState, vars, mainVars, slotVars,
   phaseVars, arriveVars, threadVars, logVars, workerVars, callVars, queueVars,
   otherThanPhase, PE
<1>1. ASSUME SubDag PROVE TypeOK'
  BY <1>1 DEF SubDag
<1>2. ASSUME KillDaemon PROVE TypeOK'
  BY <1>2 DEF KillDaemon
<1>3. ASSUME ReceiveApps PROVE TypeOK'
  BY <1>3 DEF ReceiveApps
<1>4. ASSUME ReceiveNothing PROVE TypeOK'
  BY <1>4 DEF ReceiveNothing
<1>5. ASSUME BeginExit PROVE TypeOK'
  BY <1>5 DEF BeginExit
<1>6. ASSUME ArriveApps PROVE TypeOK'
  BY <1>6 DEF ArriveApps
<1>7. ASSUME NEW a \in Apps, LaunchApp(a) PROVE TypeOK'
  BY <1>7 DEF LaunchApp
<1>8. ASSUME NEW a \in Apps, RegisterApp(a) PROVE TypeOK'
  BY <1>8 DEF RegisterApp
<1>9. ASSUME BeginScheduling PROVE TypeOK'
  BY <1>9 DEF BeginScheduling
<1>10. ASSUME NEW w \in PE, NEW i \in DOMAIN ready_queue, AssignTask(i, w) PROVE TypeOK'
  <2>1. UNCHANGED <<slotVars, mpc, idx, arriveVars, threadVars>> /\ cnt' = cnt + 1
    BY <1>10 DEF AssignTask
  <2>2. MainTypeOK'
    BY <2>1
  <2>3. ready_queue[i] \in Task
    BY ElementOfSeq, LenProperties
  <2>4. QueueTypeOK'
    BY <1>10, RemoveAtType DEF AssignTask
  <2>5. todo' \in [PE -> Seq(Task)]
    <3>1. Append(todo[w], ready_queue[i]) \in Seq(Task)
      <4>1. todo[w] \in Seq(Task)
        OBVIOUS
      <4> QED
        BY <2>3, <4>1, AppendType
    <3> QED
      BY <1>10, <3>1 DEF AssignTask
  <2>6. WorkerTypeOK'
    BY <1>10, <2>5 DEF AssignTask
  <2> QED
    BY <1>10, <2>2, <2>4, <2>6 DEF AssignTask
<1>11. ASSUME EndScheduling PROVE TypeOK'
  BY <1>11 DEF EndScheduling
<1>12. ASSUME CountCompleted PROVE TypeOK'
  <2>1. cnt' \in Nat /\ idx' \in Nat /\ mpc' \in {"drain", "pop"}
    <3>1. completed[idx] \in Seq(Task)
      BY <1>12 DEF CountCompleted
    <3>2. Len(completed[idx]) \in Nat
      BY <3>1
    <3> QED
      BY <1>12, <3>2 DEF CountCompleted
  <2>2. UNCHANGED otherThanPhase
    BY <1>12 DEF CountCompleted
  <2> QED
    BY <2>1, <2>2
<1>13. ASSUME PopCompleted PROVE TypeOK'
  <2> DEFINE q == completed[idx]
  <2>1. /\ idx \in PE /\ cnt \in 1..Len(q) /\ q \in Seq(Task) /\ q # <<>>
        /\ cnt \in Nat \ {0}
    BY <1>13 DEF PopCompleted, LoopInv
  <2>2. Head(q) \in Task /\ Tail(q) \in Seq(Task)
    BY <2>1, TailType
  <2>3. MainTypeOK'
    <3>1. cnt' \in Nat /\ idx' \in Nat /\ mpc' \in {"drain", "pop"}
      BY <1>13, <2>1 DEF PopCompleted
    <3>2. UNCHANGED <<slotVars, arriveVars, threadVars>>
      BY <1>13 DEF PopCompleted
    <3> QED
      BY <3>1, <3>2
  <2>4. LogTypeOK'
    <3>1. /\ completed_count' = [completed_count EXCEPT ![Head(q)[1]] = @ + 1]
          /\ stream_log' = stream_log \cup {Head(q)}
      BY <1>13 DEF PopCompleted
    <3>2. Head(q)[1] \in Apps
      BY <2>2 DEF Task
    <3>3. completed_count' \in [Apps -> Nat]
      BY <3>1, <3>2, CountType
    <3> QED
      BY <2>2, <3>1, <3>3
  <2>5. WorkerTypeOK'
    <3>1. completed' = [completed EXCEPT ![idx] = Tail(q)]
      BY <1>13 DEF PopCompleted
    <3>2. completed' \in [PE -> Seq(Task)]
      BY <2>2, <3>1
    <3> QED
      BY <1>13, <3>2 DEF PopCompleted
  <2>6. QueueTypeOK' /\ CallTypeOK'
    BY <1>13 DEF PopCompleted
  <2> QED
    BY <2>3, <2>4, <2>5, <2>6
<1>14. ASSUME BeginSweep PROVE TypeOK'
  BY <1>14 DEF BeginSweep
<1>15. ASSUME KeepPill PROVE TypeOK'
  <2>1. idx' = idx + 1 /\ UNCHANGED <<mpc, cnt, otherThanPhase>>
    BY <1>15 DEF KeepPill
  <2>2. idx' \in Nat
    BY <2>1
  <2> QED
    BY <2>1, <2>2
<1>16. ASSUME ReapApp PROVE TypeOK'
  <2>1. /\ arrived' \subseteq arrived /\ app_thread_map' \subseteq app_thread_map
        /\ freed' = freed \cup {poison_queue[idx].app}
        /\ poison_queue' = RemoveAt(poison_queue, idx)
        /\ UNCHANGED <<slotVars, phaseVars, received, unarrived, due, is_running, cancelled>>
    BY <1>16 DEF ReapApp
  <2>2. poison_queue[idx].app \in Apps
    <3>1. poison_queue[idx] \in Pill
      BY <1>16, ElementOfSeq, LenProperties DEF ReapApp
    <3> QED
      BY <1>16, <3>1 DEF ReapApp, Pill
  <2>3. MainTypeOK'
    BY <2>1, <2>2
  <2>4. poison_queue' \in Seq(Pill)
    BY <1>16, <2>1, RemoveAtType DEF ReapApp
  <2> QED
    BY <1>16, <2>3, <2>4 DEF ReapApp
<1>17. ASSUME EndSweep PROVE TypeOK'
  BY <1>17 DEF EndSweep
<1>18. ASSUME ReadNullPill PROVE TypeOK'
  BY <1>18 DEF ReadNullPill
<1>19. ASSUME QuiescePE PROVE TypeOK'
  BY <1>19 DEF QuiescePE
<1>20. ASSUME RetirePE PROVE TypeOK'
  <2>1. MainTypeOK'
    BY <1>20 DEF RetirePE
  <2>2. QueueTypeOK'
    BY <1>20 DEF RetirePE
  <2>3. LogTypeOK'
    BY <1>20 DEF RetirePE
  <2>4. WorkerTypeOK'
    BY <1>20 DEF RetirePE
  <2>5. CallTypeOK'
    BY <1>20 DEF RetirePE
  <2> QED
    BY <2>1, <2>2, <2>3, <2>4, <2>5
<1>21. ASSUME JoinPill PROVE TypeOK'
  <2>1. /\ arrived' \subseteq arrived /\ idx' = idx + 1
        /\ UNCHANGED <<slotVars, mpc, cnt, received, unarrived, due, threadVars>>
    BY <1>21 DEF JoinPill
  <2>2. MainTypeOK'
    BY <2>1
  <2> QED
    BY <1>21, <2>2 DEF JoinPill
<1>22. ASSUME KickOutApps PROVE TypeOK'
  BY <1>22 DEF KickOutApps
<1>23. ASSUME JoinWorkers PROVE TypeOK'
  BY <1>23 DEF JoinWorkers
<1>24. ASSUME NEW w \in PE, TakeTask(w) PROVE TypeOK'
  <2>1. Head(todo[w]) \in Task /\ Tail(todo[w]) \in Seq(Task)
    BY <1>24 DEF TakeTask
  <2>2. WorkerTypeOK'
    BY <1>24, <2>1 DEF TakeTask
  <2> QED
    BY <1>24, <2>2 DEF TakeTask
<1>25. ASSUME NEW w \in PE, SignalBarrier(w) PROVE TypeOK'
  <2>1. task[w] \in Task
    BY <1>25 DEF SignalBarrier, WorkerInv
  <2>2. task[w][1] \in Apps
    BY <2>1 DEF Task
  <2>3. ctr' \in [Apps -> Nat]
    BY <1>25, <2>2, CountType DEF SignalBarrier
  <2>4. apc' = [apc EXCEPT ![task[w][1]] = IF @ = "asleep" THEN "woken" ELSE @]
    BY <1>25 DEF SignalBarrier
  <2>5. CallTypeOK'
    <3>1. (IF apc[task[w][1]] = "asleep" THEN "woken" ELSE apc[task[w][1]]) \in AppState
      BY <2>2
    <3>2. apc' \in [Apps -> AppState]
      BY <2>2, <2>4, <3>1, UpdateType
    <3> QED
      BY <1>25, <2>3, <3>2 DEF SignalBarrier
  <2>6. WorkerTypeOK'
    BY <1>25 DEF SignalBarrier
  <2> QED
    BY <1>25, <2>5, <2>6 DEF SignalBarrier
<1>26. ASSUME NEW w \in PE, HandBack(w) PROVE TypeOK'
  <2>1. task[w] \in Task
    BY <1>26 DEF HandBack, WorkerInv
  <2>2. Append(completed[w], task[w]) \in Seq(Task)
    BY <2>1
  <2>3. completed' \in [PE -> Seq(Task)]
    BY <1>26, <2>2 DEF HandBack
  <2>4. WorkerTypeOK'
    BY <1>26, <2>3 DEF HandBack
  <2> QED
    BY <1>26, <2>4 DEF HandBack
<1>27. ASSUME NEW w \in PE, StopWorker(w) PROVE TypeOK'
  BY <1>27 DEF StopWorker
<1>28. ASSUME NEW a \in Apps, BecomeDue(a) PROVE TypeOK'
  BY <1>28 DEF BecomeDue
<1>29. ASSUME NEW a \in Apps, NEW n \in 1..MaxBatch, OpenBarrier(a, n) PROVE TypeOK'
  <2>1. MainTypeOK'
    BY <1>29 DEF OpenBarrier
  <2>2. QueueTypeOK'
    BY <1>29 DEF OpenBarrier
  <2>3. LogTypeOK'
    BY <1>29 DEF OpenBarrier
  <2>4. WorkerTypeOK'
    BY <1>29 DEF OpenBarrier
  <2>5. CallTypeOK'
    <3>1. n \in Nat /\ task_count[a] \in Nat /\ "call" \in AppState
      BY ConstantsAssumption
    <3> QED
      BY <1>29, <3>1 DEF OpenBarrier
  <2> QED
    BY <2>1, <2>2, <2>3, <2>4, <2>5
<1>30. ASSUME NEW a \in Apps, NumberTask(a) PROVE TypeOK'
  <2>1. MainTypeOK'
    <3>1. mpc' \in {mpc, "crashed"}
      BY <1>30 DEF NumberTask
    <3>2. UNCHANGED <<slotVars, idx, cnt, arriveVars, threadVars>>
      BY <1>30 DEF NumberTask
    <3> QED
      BY <3>1, <3>2
  <2>2. CASE a \in app_thread_map
    <3>1. left[a] - 1 \in Nat
      <4>1. left[a] > 0
        BY <1>30 DEF NumberTask, BatchInv
      <4>2. left[a] \in Nat
        OBVIOUS
      <4> HIDE DEF CoreInv
      <4> QED
        BY <4>1, <4>2
    <3>2. task_count' \in [Apps -> Nat]
      <4>1. task_count' = [task_count EXCEPT ![a] = @ + 1]
        BY <1>30, <2>2 DEF NumberTask
      <4> QED
        BY <4>1, CountType
    <3>3. left' \in [Apps -> Nat]
      <4>1. left' = [left EXCEPT ![a] = left[a] - 1]
        BY <1>30, <2>2 DEF NumberTask
      <4> QED
        BY <3>1, <4>1, UpdateType
    <3>4. apc' \in [Apps -> AppState]
      <4>1. apc' = [apc EXCEPT ![a] = "push"]
        BY <1>30, <2>2 DEF NumberTask
      <4> QED
        BY <4>1
    <3> QED
      BY <1>30, <2>1, <3>2, <3>3, <3>4 DEF NumberTask
  <2>3. CASE a \notin app_thread_map
    <3>1. UNCHANGED <<task_count, left, apc, size, first, ctr>>
      BY <1>30, <2>3 DEF NumberTask
    <3>2. UNCHANGED <<logVars, queueVars, workerVars>>
      BY <1>30 DEF NumberTask
    <3> QED
      BY <2>1, <3>1, <3>2
  <2> QED
    BY <2>2, <2>3
<1>31. ASSUME NEW a \in Apps, PushReady(a) PROVE TypeOK'
  <2>1. <<a, task_count[a] - 1>> \in Task
    <3>1. task_count[a] > first[a]
      BY <1>31 DEF PushReady, BatchInv
    <3>2. task_count[a] \in Nat /\ first[a] \in Nat
      OBVIOUS
    <3> HIDE DEF CoreInv
    <3>3. task_count[a] - 1 \in Nat
      BY <3>1, <3>2
    <3> QED
      BY <3>3 DEF Task
  <2>2. QueueTypeOK'
    BY <1>31, <2>1 DEF PushReady
  <2>3. CallTypeOK'
    BY <1>31 DEF PushReady
  <2> QED
    BY <1>31, <2>2, <2>3 DEF PushReady
<1>32. ASSUME NEW a \in Apps, CheckBarrier(a) PROVE TypeOK'
  <2>1. CASE BatchDone(a)
    <3>1. /\ apc' \in [Apps -> AppState]
          /\ size' \in [Apps -> Nat] /\ first' \in [Apps -> Nat] /\ ctr' \in [Apps -> Nat]
          /\ UNCHANGED <<left, task_count>>
      <4>1. /\ apc' = [apc EXCEPT ![a] = "main"]
            /\ size' = [size EXCEPT ![a] = 0]
            /\ first' = [first EXCEPT ![a] = 0]
            /\ ctr' = [ctr EXCEPT ![a] = 0]
            /\ UNCHANGED <<left, task_count>>
        BY <1>32, <2>1 DEF CheckBarrier
      <4> QED
        BY <4>1, UpdateType
    <3> QED
      BY <1>32, <3>1 DEF CheckBarrier
  <2>2. CASE ~BatchDone(a)
    <3>1. /\ apc' = [apc EXCEPT ![a] = "asleep"]
          /\ UNCHANGED <<size, first, ctr, mainVars, queueVars, workerVars, left, task_count>>
      BY <1>32, <2>2 DEF CheckBarrier
    <3> QED
      BY <3>1
  <2> QED
    BY <2>1, <2>2
<1>33. ASSUME NEW a \in Apps, InjectPill(a) PROVE TypeOK'
  <2>1. /\ apc' = [apc EXCEPT ![a] = "pilled"]
        /\ UNCHANGED <<mainVars, ready_queue, workerVars, left, size, first, ctr, task_count>>
        /\ poison_queue' = Append(poison_queue,
               [thread |-> a, app |-> IF a \in app_thread_map THEN a ELSE NoApp])
    BY <1>33 DEF InjectPill
  <2>2. [thread |-> a, app |-> IF a \in app_thread_map THEN a ELSE NoApp] \in Pill
    BY DEF Pill
  <2>3. poison_queue' \in Seq(Pill)
    BY <2>1, <2>2
  <2> QED
    BY <2>1, <2>3
<1>34. ASSUME NEW a \in Apps, ExitThread(a) PROVE TypeOK'
  BY <1>34 DEF ExitThread
<1>35. ASSUME NEW a \in Apps, WakeSpuriously(a) PROVE TypeOK'
  BY <1>35 DEF WakeSpuriously
<1>36. CASE UNCHANGED vars
  BY <1>36
<1> QED
  BY <1>1, <1>2, <1>3, <1>4, <1>5, <1>6, <1>7, <1>8, <1>9, <1>10, <1>11, <1>12,
     <1>13, <1>14, <1>15, <1>16, <1>17, <1>18, <1>19, <1>20, <1>21, <1>22,
     <1>23, <1>24, <1>25, <1>26, <1>27, <1>28, <1>29, <1>30, <1>31, <1>32,
     <1>33, <1>34, <1>35, <1>36 DEF Next, Client, Main, Worker, AppThread, Gone

\* The main thread's loops stay within the PEs, and a pass of the inner one
\* pops no more tasks than it counted: workers only add to a queue it drains.
LEMMA LoopStep ==
    ASSUME CoreInv, TypeOK', [Next]_vars
    PROVE  LoopInv'
<1> USE ConstantsAssumption DEF CoreInv, TypeOK, MainTypeOK, WorkerTypeOK,
   LoopInv, vars, mainVars, slotVars, phaseVars, arriveVars, threadVars,
   logVars, workerVars, callVars, queueVars, otherThanPhase, PE
<1>1. ASSUME SubDag PROVE LoopInv'
  BY <1>1 DEF SubDag
<1>2. ASSUME KillDaemon PROVE LoopInv'
  BY <1>2 DEF KillDaemon
<1>3. ASSUME ReceiveApps PROVE LoopInv'
  BY <1>3 DEF ReceiveApps
<1>4. ASSUME ReceiveNothing PROVE LoopInv'
  BY <1>4 DEF ReceiveNothing
<1>5. ASSUME BeginExit PROVE LoopInv'
  BY <1>5 DEF BeginExit
<1>6. ASSUME ArriveApps PROVE LoopInv'
  BY <1>6 DEF ArriveApps
<1>7. ASSUME NEW a \in Apps, LaunchApp(a) PROVE LoopInv'
  BY <1>7 DEF LaunchApp
<1>8. ASSUME NEW a \in Apps, RegisterApp(a) PROVE LoopInv'
  BY <1>8 DEF RegisterApp
<1>9. ASSUME BeginScheduling PROVE LoopInv'
  BY <1>9 DEF BeginScheduling
<1>10. ASSUME NEW w \in PE, NEW i \in DOMAIN ready_queue, AssignTask(i, w) PROVE LoopInv'
  BY <1>10 DEF AssignTask
<1>11. ASSUME EndScheduling PROVE LoopInv'
  BY <1>11 DEF EndScheduling
<1>12. ASSUME CountCompleted PROVE LoopInv'
  BY <1>12 DEF CountCompleted
<1>13. ASSUME PopCompleted PROVE LoopInv'
  BY <1>13 DEF PopCompleted
<1>14. ASSUME BeginSweep PROVE LoopInv'
  BY <1>14 DEF BeginSweep
<1>15. ASSUME KeepPill PROVE LoopInv'
  BY <1>15 DEF KeepPill
<1>16. ASSUME ReapApp PROVE LoopInv'
  BY <1>16 DEF ReapApp
<1>17. ASSUME EndSweep PROVE LoopInv'
  BY <1>17 DEF EndSweep
<1>18. ASSUME ReadNullPill PROVE LoopInv'
  BY <1>18 DEF ReadNullPill
<1>19. ASSUME QuiescePE PROVE LoopInv'
  BY <1>19 DEF QuiescePE
<1>20. ASSUME RetirePE PROVE LoopInv'
  BY <1>20 DEF RetirePE
<1>21. ASSUME JoinPill PROVE LoopInv'
  BY <1>21 DEF JoinPill
<1>22. ASSUME KickOutApps PROVE LoopInv'
  BY <1>22 DEF KickOutApps
<1>23. ASSUME JoinWorkers PROVE LoopInv'
  BY <1>23 DEF JoinWorkers
<1>24. ASSUME NEW w \in PE, TakeTask(w) PROVE LoopInv'
  BY <1>24 DEF TakeTask
<1>25. ASSUME NEW w \in PE, SignalBarrier(w) PROVE LoopInv'
  BY <1>25 DEF SignalBarrier
<1>26. ASSUME NEW w \in PE, HandBack(w) PROVE LoopInv'
  BY <1>26 DEF HandBack
<1>27. ASSUME NEW w \in PE, StopWorker(w) PROVE LoopInv'
  BY <1>27 DEF StopWorker
<1>28. ASSUME NEW a \in Apps, BecomeDue(a) PROVE LoopInv'
  BY <1>28 DEF BecomeDue
<1>29. ASSUME NEW a \in Apps, NEW n \in 1..MaxBatch, OpenBarrier(a, n) PROVE LoopInv'
  BY <1>29 DEF OpenBarrier
<1>30. ASSUME NEW a \in Apps, NumberTask(a) PROVE LoopInv'
  BY <1>30 DEF NumberTask
<1>31. ASSUME NEW a \in Apps, PushReady(a) PROVE LoopInv'
  BY <1>31 DEF PushReady
<1>32. ASSUME NEW a \in Apps, CheckBarrier(a) PROVE LoopInv'
  BY <1>32 DEF CheckBarrier
<1>33. ASSUME NEW a \in Apps, InjectPill(a) PROVE LoopInv'
  BY <1>33 DEF InjectPill
<1>34. ASSUME NEW a \in Apps, ExitThread(a) PROVE LoopInv'
  BY <1>34 DEF ExitThread
<1>35. ASSUME NEW a \in Apps, WakeSpuriously(a) PROVE LoopInv'
  BY <1>35 DEF WakeSpuriously
<1>36. CASE UNCHANGED vars
  BY <1>36
<1> QED
  BY <1>1, <1>2, <1>3, <1>4, <1>5, <1>6, <1>7, <1>8, <1>9, <1>10, <1>11, <1>12,
     <1>13, <1>14, <1>15, <1>16, <1>17, <1>18, <1>19, <1>20, <1>21, <1>22,
     <1>23, <1>24, <1>25, <1>26, <1>27, <1>28, <1>29, <1>30, <1>31, <1>32,
     <1>33, <1>34, <1>35, <1>36 DEF Next, Client, Main, Worker, AppThread, Gone

\* A worker is busy exactly while it holds a task, and a PE found quiet stays
\* quiet until it is told to stop, because nothing is scheduled any more.
LEMMA WorkerStep ==
    ASSUME CoreInv, TypeOK', [Next]_vars
    PROVE  WorkerInv'
<1> USE ConstantsAssumption DEF CoreInv, TypeOK, MainTypeOK, WorkerTypeOK,
   LoopInv, WorkerInv, Quiet, Exiting, Up, vars, mainVars, slotVars, phaseVars,
   arriveVars, threadVars, logVars, workerVars, callVars, queueVars,
   otherThanPhase, PE
<1>1. ASSUME SubDag PROVE WorkerInv'
  BY <1>1 DEF SubDag
<1>2. ASSUME KillDaemon PROVE WorkerInv'
  BY <1>2 DEF KillDaemon
<1>3. ASSUME ReceiveApps PROVE WorkerInv'
  BY <1>3 DEF ReceiveApps
<1>4. ASSUME ReceiveNothing PROVE WorkerInv'
  BY <1>4 DEF ReceiveNothing
<1>5. ASSUME BeginExit PROVE WorkerInv'
  BY <1>5 DEF BeginExit
<1>6. ASSUME ArriveApps PROVE WorkerInv'
  BY <1>6 DEF ArriveApps
<1>7. ASSUME NEW a \in Apps, LaunchApp(a) PROVE WorkerInv'
  BY <1>7 DEF LaunchApp
<1>8. ASSUME NEW a \in Apps, RegisterApp(a) PROVE WorkerInv'
  BY <1>8 DEF RegisterApp
<1>9. ASSUME BeginScheduling PROVE WorkerInv'
  BY <1>9 DEF BeginScheduling
<1>10. ASSUME NEW w \in PE, NEW i \in DOMAIN ready_queue, AssignTask(i, w) PROVE WorkerInv'
  BY <1>10 DEF AssignTask
<1>11. ASSUME EndScheduling PROVE WorkerInv'
  BY <1>11 DEF EndScheduling
<1>12. ASSUME CountCompleted PROVE WorkerInv'
  BY <1>12 DEF CountCompleted
<1>13. ASSUME PopCompleted PROVE WorkerInv'
  BY <1>13 DEF PopCompleted
<1>14. ASSUME BeginSweep PROVE WorkerInv'
  BY <1>14 DEF BeginSweep
<1>15. ASSUME KeepPill PROVE WorkerInv'
  BY <1>15 DEF KeepPill
<1>16. ASSUME ReapApp PROVE WorkerInv'
  BY <1>16 DEF ReapApp
<1>17. ASSUME EndSweep PROVE WorkerInv'
  BY <1>17 DEF EndSweep
<1>18. ASSUME ReadNullPill PROVE WorkerInv'
  BY <1>18 DEF ReadNullPill
<1>19. ASSUME QuiescePE PROVE WorkerInv'
  BY <1>19 DEF QuiescePE
<1>20. ASSUME RetirePE PROVE WorkerInv'
  <2>1. /\ resource_state' = [resource_state EXCEPT ![idx] = 3]
        /\ UNCHANGED <<wpc, task, todo>>
        /\ mpc = "retire" /\ idx \in PE /\ mpc' \in {"quiesce", "joinpills"}
    BY <1>20 DEF RetirePE
  <2>2. ASSUME NEW v \in PE
        PROVE  /\ resource_state'[v] = IF v = idx THEN 3 ELSE resource_state[v]
               /\ wpc'[v] = wpc[v] /\ task'[v] = task[v] /\ todo'[v] = todo[v]
    BY <2>1
  <2>3. Quiet(idx) /\ wpc[idx] \notin {"run", "signalled"} /\ wpc[idx] # "exited"
    <3>1. todo[idx] = <<>> /\ resource_state[idx] = 0
      BY <2>1
    <3>2. /\ wpc[idx] \in {"run", "signalled"} <=> resource_state[idx] = 1
          /\ wpc[idx] = "exited" => resource_state[idx] = 3
      BY <2>1
    <3> QED
      BY <3>1, <3>2
  <2>4. (Exiting \/ ~Up)' /\ mpc' # "retire"
    BY <2>1
  <2>5. ASSUME NEW v \in PE
        PROVE  /\ wpc'[v] \in {"run", "signalled"} <=> resource_state'[v] = 1
               /\ wpc'[v] \in {"run", "signalled"} <=> task'[v] # NoTask
               /\ wpc'[v] = "exited" => resource_state'[v] = 3
               /\ resource_state'[v] = 3 => todo'[v] = <<>>
    <3>1. CASE v = idx
      BY <2>2, <2>3, <3>1
    <3>2. CASE v # idx
      <4>1. /\ wpc[v] \in {"run", "signalled"} <=> resource_state[v] = 1
            /\ wpc[v] \in {"run", "signalled"} <=> task[v] # NoTask
            /\ wpc[v] = "exited" => resource_state[v] = 3
            /\ resource_state[v] = 3 => todo[v] = <<>>
        OBVIOUS
      <4>2. /\ resource_state'[v] = resource_state[v] /\ wpc'[v] = wpc[v]
            /\ task'[v] = task[v] /\ todo'[v] = todo[v]
        BY <2>2, <3>2
      <4> HIDE DEF CoreInv
      <4> QED
        BY <4>1, <4>2
    <3> QED
      BY <3>1, <3>2
  <2> QED
    BY <2>4, <2>5
<1>21. ASSUME JoinPill PROVE WorkerInv'
  BY <1>21 DEF JoinPill
<1>22. ASSUME KickOutApps PROVE WorkerInv'
  BY <1>22 DEF KickOutApps
<1>23. ASSUME JoinWorkers PROVE WorkerInv'
  BY <1>23 DEF JoinWorkers
<1>24. ASSUME NEW w \in PE, TakeTask(w) PROVE WorkerInv'
  <2>1. /\ task' = [task EXCEPT ![w] = Head(todo[w])]
        /\ todo' = [todo EXCEPT ![w] = Tail(@)]
        /\ resource_state' = [resource_state EXCEPT ![w] = 1]
        /\ wpc' = [wpc EXCEPT ![w] = "run"]
        /\ todo[w] # <<>> /\ UNCHANGED mainVars
    BY <1>24 DEF TakeTask
  <2>2. Head(todo[w]) # NoTask
    <3>1. Head(todo[w]) \in Task
      BY <2>1, TailType
    <3> QED
      BY <3>1
  <2>3. ASSUME NEW v \in PE
        PROVE  /\ wpc'[v] = IF v = w THEN "run" ELSE wpc[v]
               /\ resource_state'[v] = IF v = w THEN 1 ELSE resource_state[v]
               /\ v = w => task'[v] # NoTask
               /\ v # w => task'[v] = task[v] /\ todo'[v] = todo[v]
    BY <2>1, <2>2
  <2>4. mpc' = "retire" => Quiet(idx)'
    BY <2>1, <2>3
  <2>5. ASSUME NEW v \in PE
        PROVE  /\ wpc'[v] \in {"run", "signalled"} <=> resource_state'[v] = 1
               /\ wpc'[v] \in {"run", "signalled"} <=> task'[v] # NoTask
               /\ wpc'[v] = "exited" => resource_state'[v] = 3
    <3>1. CASE v = w
      BY <2>3, <3>1
    <3>2. CASE v # w
      <4>1. /\ wpc[v] \in {"run", "signalled"} <=> resource_state[v] = 1
            /\ wpc[v] \in {"run", "signalled"} <=> task[v] # NoTask
            /\ wpc[v] = "exited" => resource_state[v] = 3
        OBVIOUS
      <4>2. resource_state'[v] = resource_state[v] /\ wpc'[v] = wpc[v] /\ task'[v] = task[v]
        BY <2>3, <3>2
      <4> HIDE DEF CoreInv
      <4> QED
        BY <4>1, <4>2
    <3> QED
      BY <3>1, <3>2
  <2>6. ASSUME NEW v \in PE
        PROVE  resource_state'[v] = 3 => todo'[v] = <<>> /\ (Exiting \/ ~Up)'
    BY <2>1, <2>3
  <2> QED
    BY <2>4, <2>5, <2>6
<1>25. ASSUME NEW w \in PE, SignalBarrier(w) PROVE WorkerInv'
  BY <1>25 DEF SignalBarrier
<1>26. ASSUME NEW w \in PE, HandBack(w) PROVE WorkerInv'
  <2>1. /\ task' = [task EXCEPT ![w] = NoTask]
        /\ resource_state' = [resource_state EXCEPT ![w] = 0]
        /\ wpc' = [wpc EXCEPT ![w] = "poll"]
        /\ wpc[w] = "signalled" /\ UNCHANGED <<mainVars, todo>>
    BY <1>26 DEF HandBack
  <2>2. ASSUME NEW v \in PE
        PROVE  /\ wpc'[v] = IF v = w THEN "poll" ELSE wpc[v]
               /\ resource_state'[v] = IF v = w THEN 0 ELSE resource_state[v]
               /\ task'[v] = IF v = w THEN NoTask ELSE task[v]
               /\ todo'[v] = todo[v]
    BY <2>1
  <2>3. mpc' = "retire" => Quiet(idx)'
    BY <2>1, <2>2
  <2> QED
    BY <2>1, <2>2, <2>3
<1>27. ASSUME NEW w \in PE, StopWorker(w) PROVE WorkerInv'
  <2>1. /\ wpc' = [wpc EXCEPT ![w] = "exited"]
        /\ wpc[w] = "poll" /\ resource_state[w] = 3
        /\ UNCHANGED <<mainVars, task, resource_state, todo>>
    BY <1>27 DEF StopWorker
  <2>2. ASSUME NEW v \in PE
        PROVE  /\ wpc'[v] = IF v = w THEN "exited" ELSE wpc[v]
               /\ resource_state'[v] = resource_state[v]
               /\ task'[v] = task[v] /\ todo'[v] = todo[v]
    BY <2>1
  <2>3. ASSUME NEW v \in PE
        PROVE  /\ wpc'[v] \in {"run", "signalled"} <=> resource_state'[v] = 1
               /\ wpc'[v] \in {"run", "signalled"} <=> task'[v] # NoTask
               /\ wpc'[v] = "exited" => resource_state'[v] = 3
    <3>1. CASE v = w
      BY <2>1, <2>2, <3>1
    <3>2. CASE v # w
      BY <2>2, <3>2
    <3> QED
      BY <3>1, <3>2
  <2>4. ASSUME NEW v \in PE
        PROVE  resource_state'[v] = 3 => todo'[v] = <<>> /\ (Exiting \/ ~Up)'
    BY <2>1, <2>2
  <2>5. mpc' = "retire" => Quiet(idx)'
    BY <2>1
  <2> QED
    BY <2>3, <2>4, <2>5
<1>28. ASSUME NEW a \in Apps, BecomeDue(a) PROVE WorkerInv'
  BY <1>28 DEF BecomeDue
<1>29. ASSUME NEW a \in Apps, NEW n \in 1..MaxBatch, OpenBarrier(a, n) PROVE WorkerInv'
  BY <1>29 DEF OpenBarrier
<1>30. ASSUME NEW a \in Apps, NumberTask(a) PROVE WorkerInv'
  BY <1>30 DEF NumberTask
<1>31. ASSUME NEW a \in Apps, PushReady(a) PROVE WorkerInv'
  BY <1>31 DEF PushReady
<1>32. ASSUME NEW a \in Apps, CheckBarrier(a) PROVE WorkerInv'
  BY <1>32 DEF CheckBarrier
<1>33. ASSUME NEW a \in Apps, InjectPill(a) PROVE WorkerInv'
  BY <1>33 DEF InjectPill
<1>34. ASSUME NEW a \in Apps, ExitThread(a) PROVE WorkerInv'
  BY <1>34 DEF ExitThread
<1>35. ASSUME NEW a \in Apps, WakeSpuriously(a) PROVE WorkerInv'
  BY <1>35 DEF WakeSpuriously
<1>36. CASE UNCHANGED vars
  BY <1>36
<1> QED
  BY <1>1, <1>2, <1>3, <1>4, <1>5, <1>6, <1>7, <1>8, <1>9, <1>10, <1>11, <1>12,
     <1>13, <1>14, <1>15, <1>16, <1>17, <1>18, <1>19, <1>20, <1>21, <1>22,
     <1>23, <1>24, <1>25, <1>26, <1>27, <1>28, <1>29, <1>30, <1>31, <1>32,
     <1>33, <1>34, <1>35, <1>36 DEF Next, Client, Main, Worker, AppThread, Gone

\* The tasks of a batch, numbered or still to number, make up its size.
LEMMA BatchStep ==
    ASSUME CoreInv, TypeOK', [Next]_vars
    PROVE  BatchInv'
<1> USE ConstantsAssumption DEF CoreInv, TypeOK, CallTypeOK, BatchInv, CallOpen,
   vars, mainVars, slotVars, phaseVars, arriveVars, threadVars, logVars,
   workerVars, callVars, queueVars, otherThanPhase
<1>1. ASSUME SubDag PROVE BatchInv'
  BY <1>1 DEF SubDag
<1>2. ASSUME KillDaemon PROVE BatchInv'
  BY <1>2 DEF KillDaemon
<1>3. ASSUME ReceiveApps PROVE BatchInv'
  BY <1>3 DEF ReceiveApps
<1>4. ASSUME ReceiveNothing PROVE BatchInv'
  BY <1>4 DEF ReceiveNothing
<1>5. ASSUME BeginExit PROVE BatchInv'
  BY <1>5 DEF BeginExit
<1>6. ASSUME ArriveApps PROVE BatchInv'
  BY <1>6 DEF ArriveApps
<1>7. ASSUME NEW a \in Apps, LaunchApp(a) PROVE BatchInv'
  BY <1>7 DEF LaunchApp
<1>8. ASSUME NEW a \in Apps, RegisterApp(a) PROVE BatchInv'
  BY <1>8 DEF RegisterApp
<1>9. ASSUME BeginScheduling PROVE BatchInv'
  BY <1>9 DEF BeginScheduling
<1>10. ASSUME NEW w \in PE, NEW i \in DOMAIN ready_queue, AssignTask(i, w) PROVE BatchInv'
  BY <1>10 DEF AssignTask
<1>11. ASSUME EndScheduling PROVE BatchInv'
  BY <1>11 DEF EndScheduling
<1>12. ASSUME CountCompleted PROVE BatchInv'
  BY <1>12 DEF CountCompleted
<1>13. ASSUME PopCompleted PROVE BatchInv'
  BY <1>13 DEF PopCompleted
<1>14. ASSUME BeginSweep PROVE BatchInv'
  BY <1>14 DEF BeginSweep
<1>15. ASSUME KeepPill PROVE BatchInv'
  BY <1>15 DEF KeepPill
<1>16. ASSUME ReapApp PROVE BatchInv'
  BY <1>16 DEF ReapApp
<1>17. ASSUME EndSweep PROVE BatchInv'
  BY <1>17 DEF EndSweep
<1>18. ASSUME ReadNullPill PROVE BatchInv'
  BY <1>18 DEF ReadNullPill
<1>19. ASSUME QuiescePE PROVE BatchInv'
  BY <1>19 DEF QuiescePE
<1>20. ASSUME RetirePE PROVE BatchInv'
  BY <1>20 DEF RetirePE
<1>21. ASSUME JoinPill PROVE BatchInv'
  BY <1>21 DEF JoinPill
<1>22. ASSUME KickOutApps PROVE BatchInv'
  BY <1>22 DEF KickOutApps
<1>23. ASSUME JoinWorkers PROVE BatchInv'
  BY <1>23 DEF JoinWorkers
<1>24. ASSUME NEW w \in PE, TakeTask(w) PROVE BatchInv'
  BY <1>24 DEF TakeTask
<1>25. ASSUME NEW w \in PE, SignalBarrier(w) PROVE BatchInv'
  BY <1>25 DEF SignalBarrier
<1>26. ASSUME NEW w \in PE, HandBack(w) PROVE BatchInv'
  BY <1>26 DEF HandBack
<1>27. ASSUME NEW w \in PE, StopWorker(w) PROVE BatchInv'
  BY <1>27 DEF StopWorker
<1>28. ASSUME NEW a \in Apps, BecomeDue(a) PROVE BatchInv'
  BY <1>28 DEF BecomeDue
<1>29. ASSUME NEW a \in Apps, NEW n \in 1..MaxBatch, OpenBarrier(a, n) PROVE BatchInv'
  BY <1>29 DEF OpenBarrier
<1>30. ASSUME NEW a \in Apps, NumberTask(a) PROVE BatchInv'
  BY <1>30 DEF NumberTask
<1>31. ASSUME NEW a \in Apps, PushReady(a) PROVE BatchInv'
  <2>1. /\ apc[a] = "push"
        /\ apc' = [apc EXCEPT ![a] = IF left[a] = 0 THEN "check" ELSE "call"]
        /\ UNCHANGED <<left, size, first, task_count>>
    BY <1>31 DEF PushReady
  <2> QED
    BY <2>1
<1>32. ASSUME NEW a \in Apps, CheckBarrier(a) PROVE BatchInv'
  BY <1>32 DEF CheckBarrier
<1>33. ASSUME NEW a \in Apps, InjectPill(a) PROVE BatchInv'
  BY <1>33 DEF InjectPill
<1>34. ASSUME NEW a \in Apps, ExitThread(a) PROVE BatchInv'
  BY <1>34 DEF ExitThread
<1>35. ASSUME NEW a \in Apps, WakeSpuriously(a) PROVE BatchInv'
  BY <1>35 DEF WakeSpuriously
<1>36. CASE UNCHANGED vars
  BY <1>36
<1> QED
  BY <1>1, <1>2, <1>3, <1>4, <1>5, <1>6, <1>7, <1>8, <1>9, <1>10, <1>11, <1>12,
     <1>13, <1>14, <1>15, <1>16, <1>17, <1>18, <1>19, <1>20, <1>21, <1>22,
     <1>23, <1>24, <1>25, <1>26, <1>27, <1>28, <1>29, <1>30, <1>31, <1>32,
     <1>33, <1>34, <1>35, <1>36 DEF Next, Client, Main, Worker, AppThread, Gone

\* A thread exists exactly for the applications marked running.
LEMMA StartStep ==
    ASSUME CoreInv, TypeOK', [Next]_vars
    PROVE  StartInv'
<1> StartInv /\ apc \in [Apps -> AppState]
  BY DEF CoreInv, TypeOK, CallTypeOK
<1> USE DEF StartInv, vars, mainVars, slotVars, phaseVars, arriveVars,
   threadVars, logVars, workerVars, callVars, queueVars, otherThanPhase
<1>1. ASSUME SubDag PROVE StartInv'
  BY <1>1 DEF SubDag
<1>2. ASSUME KillDaemon PROVE StartInv'
  BY <1>2 DEF KillDaemon
<1>3. ASSUME ReceiveApps PROVE StartInv'
  BY <1>3 DEF ReceiveApps
<1>4. ASSUME ReceiveNothing PROVE StartInv'
  BY <1>4 DEF ReceiveNothing
<1>5. ASSUME BeginExit PROVE StartInv'
  BY <1>5 DEF BeginExit
<1>6. ASSUME ArriveApps PROVE StartInv'
  BY <1>6 DEF ArriveApps
<1>7. ASSUME NEW a \in Apps, LaunchApp(a) PROVE StartInv'
  BY <1>7 DEF LaunchApp
<1>8. ASSUME NEW a \in Apps, RegisterApp(a) PROVE StartInv'
  BY <1>8 DEF RegisterApp
<1>9. ASSUME BeginScheduling PROVE StartInv'
  BY <1>9 DEF BeginScheduling
<1>10. ASSUME NEW w \in PE, NEW i \in DOMAIN ready_queue, AssignTask(i, w) PROVE StartInv'
  BY <1>10 DEF AssignTask
<1>11. ASSUME EndScheduling PROVE StartInv'
  BY <1>11 DEF EndScheduling
<1>12. ASSUME CountCompleted PROVE StartInv'
  BY <1>12 DEF CountCompleted
<1>13. ASSUME PopCompleted PROVE StartInv'
  BY <1>13 DEF PopCompleted
<1>14. ASSUME BeginSweep PROVE StartInv'
  BY <1>14 DEF BeginSweep
<1>15. ASSUME KeepPill PROVE StartInv'
  BY <1>15 DEF KeepPill
<1>16. ASSUME ReapApp PROVE StartInv'
  BY <1>16 DEF ReapApp
<1>17. ASSUME EndSweep PROVE StartInv'
  BY <1>17 DEF EndSweep
<1>18. ASSUME ReadNullPill PROVE StartInv'
  BY <1>18 DEF ReadNullPill
<1>19. ASSUME QuiescePE PROVE StartInv'
  BY <1>19 DEF QuiescePE
<1>20. ASSUME RetirePE PROVE StartInv'
  BY <1>20 DEF RetirePE
<1>21. ASSUME JoinPill PROVE StartInv'
  BY <1>21 DEF JoinPill
<1>22. ASSUME KickOutApps PROVE StartInv'
  BY <1>22 DEF KickOutApps
<1>23. ASSUME JoinWorkers PROVE StartInv'
  BY <1>23 DEF JoinWorkers
<1>24. ASSUME NEW w \in PE, TakeTask(w) PROVE StartInv'
  BY <1>24 DEF TakeTask
<1>25. ASSUME NEW w \in PE, SignalBarrier(w) PROVE StartInv'
  BY <1>25 DEF SignalBarrier
<1>26. ASSUME NEW w \in PE, HandBack(w) PROVE StartInv'
  BY <1>26 DEF HandBack
<1>27. ASSUME NEW w \in PE, StopWorker(w) PROVE StartInv'
  BY <1>27 DEF StopWorker
<1>28. ASSUME NEW a \in Apps, BecomeDue(a) PROVE StartInv'
  BY <1>28 DEF BecomeDue
<1>29. ASSUME NEW a \in Apps, NEW n \in 1..MaxBatch, OpenBarrier(a, n) PROVE StartInv'
  BY <1>29 DEF OpenBarrier, MayCall
<1>30. ASSUME NEW a \in Apps, NumberTask(a) PROVE StartInv'
  BY <1>30 DEF NumberTask
<1>31. ASSUME NEW a \in Apps, PushReady(a) PROVE StartInv'
  BY <1>31 DEF PushReady
<1>32. ASSUME NEW a \in Apps, CheckBarrier(a) PROVE StartInv'
  BY <1>32 DEF CheckBarrier
<1>33. ASSUME NEW a \in Apps, InjectPill(a) PROVE StartInv'
  BY <1>33 DEF InjectPill, MayCall
<1>34. ASSUME NEW a \in Apps, ExitThread(a) PROVE StartInv'
  BY <1>34 DEF ExitThread
<1>35. ASSUME NEW a \in Apps, WakeSpuriously(a) PROVE StartInv'
  BY <1>35 DEF WakeSpuriously
<1>36. CASE UNCHANGED vars
  BY <1>36
<1> QED
  BY <1>1, <1>2, <1>3, <1>4, <1>5, <1>6, <1>7, <1>8, <1>9, <1>10, <1>11, <1>12,
     <1>13, <1>14, <1>15, <1>16, <1>17, <1>18, <1>19, <1>20, <1>21, <1>22,
     <1>23, <1>24, <1>25, <1>26, <1>27, <1>28, <1>29, <1>30, <1>31, <1>32,
     <1>33, <1>34, <1>35, <1>36 DEF Next, Client, Main, Worker, AppThread, Gone

\* The daemon starts in the core invariant ...
LEMMA CoreInit == Init => CoreInv
<1> SUFFICES ASSUME Init PROVE CoreInv
  OBVIOUS
<1> USE ConstantsAssumption DEF Init
<1>1. MainTypeOK /\ LogTypeOK
  BY DEF MainTypeOK, LogTypeOK
<1>2. QueueTypeOK
  BY EmptySeq DEF QueueTypeOK
<1>3. WorkerTypeOK
  BY EmptySeq DEF WorkerTypeOK
<1>4. CallTypeOK
  BY DEF CallTypeOK, AppState
<1>5. LoopInv /\ WorkerInv /\ BatchInv /\ StartInv
  BY DEF LoopInv, WorkerInv, BatchInv, StartInv, CallOpen
<1> QED
  BY <1>1, <1>2, <1>3, <1>4, <1>5 DEF CoreInv, TypeOK

\* ... and no step of any thread leaves it.
LEMMA CoreInductive == CoreInv /\ [Next]_vars => CoreInv'
<1> SUFFICES ASSUME CoreInv, [Next]_vars PROVE CoreInv'
  OBVIOUS
<1>1. TypeOK'
  BY TypeStep
<1> QED
  BY <1>1, LoopStep, WorkerStep, BatchStep, StartStep DEF CoreInv

\* CoreInv holds in every reachable state of launchDaemonRuntime, its workers
\* and its application threads.
THEOREM CoreInvariance == Spec => []CoreInv
BY CoreInit, CoreInductive, PTL DEF Spec

\* TypeOK: for any number of PEs, applications and calls, the queues hold tasks,
\* counters never go below zero, and loops index what is there.
THEOREM TypeCorrectness == Spec => []TypeOK
<1>1. CoreInv => TypeOK
  BY DEF CoreInv
<1> QED
  BY <1>1, CoreInvariance, PTL

\* StoppedIsIdle: whatever workers and applications do between the main thread's
\* look at a PE and its write of resource_state 3, the worker that is told to stop
\* has nothing queued and nothing in hand.
THEOREM StoppedWorkersAreIdle == Spec => []StoppedIsIdle
<1>1. CoreInv => StoppedIsIdle
  BY DEF CoreInv, WorkerInv, StoppedIsIdle
<1> QED
  BY <1>1, CoreInvariance, PTL

\* Only three actions write resource_state.
LEMMA WhoWritesState ==
    ASSUME [Next]_vars
    PROVE  \/ UNCHANGED resource_state
           \/ RetirePE
           \/ \E w \in PE : TakeTask(w) \/ HandBack(w)
<1> USE DEF vars, mainVars, workerVars, callVars, queueVars, otherThanPhase
<1>1. CASE Client
  BY <1>1 DEF Client, SubDag, KillDaemon
<1>2. CASE Main
  BY <1>2 DEF Main, ReceiveApps, ReceiveNothing, BeginExit, ArriveApps,
     LaunchApp,
      RegisterApp, BeginScheduling, AssignTask, EndScheduling, CountCompleted, PopCompleted,
      BeginSweep, KeepPill, ReapApp, EndSweep, ReadNullPill, QuiescePE, JoinPill,
      KickOutApps, JoinWorkers
<1>3. ASSUME NEW w \in PE, Worker(w)
      PROVE  UNCHANGED resource_state \/ TakeTask(w) \/ HandBack(w)
  BY <1>3 DEF Worker, SignalBarrier, StopWorker
<1>4. ASSUME NEW a \in Apps, BecomeDue(a) \/ AppThread(a) \/ WakeSpuriously(a)
      PROVE  UNCHANGED resource_state
  BY <1>4 DEF BecomeDue, AppThread, WakeSpuriously, OpenBarrier, NumberTask,
     PushReady,
      CheckBarrier, InjectPill, ExitThread
<1>5. CASE Gone \/ UNCHANGED vars
  BY <1>5 DEF Gone
<1> QED
  BY <1>1, <1>2, <1>3, <1>4, <1>5 DEF Next

\* StopIsFinal: no worker overwrites the 3 in its resource_state, which is what
\* lets the main thread join it.
THEOREM StopIsNeverTakenBack == Spec => StopIsFinal
<1>1. ASSUME CoreInv, [Next]_vars, NEW w \in PE, resource_state[w] = 3
      PROVE  resource_state'[w] = 3
  <2> USE <1>1 DEF CoreInv, TypeOK, WorkerTypeOK, WorkerInv
  <2>1. CASE UNCHANGED resource_state
    BY <2>1
  <2>2. CASE RetirePE
    BY <2>2 DEF RetirePE
  <2>3. ASSUME NEW v \in PE, TakeTask(v)
        PROVE  resource_state'[w] = 3
    BY <2>3 DEF TakeTask
  <2>4. ASSUME NEW v \in PE, HandBack(v)
        PROVE  resource_state'[w] = 3
    BY <2>4 DEF HandBack
  <2> QED
    BY <2>1, <2>2, <2>3, <2>4, WhoWritesState
<1>2. CoreInv /\ [Next]_vars =>
        [\A w \in PE : resource_state[w] = 3 => resource_state'[w] = 3]_vars
  BY <1>1
<1> QED
  BY <1>2, CoreInvariance, PTL DEF Spec, StopIsFinal

=============================================================================
