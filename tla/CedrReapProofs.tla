--------------------------- MODULE CedrReapProofs ---------------------------
(***************************************************************************)
(* An application is freed only when nothing refers to it any more, and    *)
(* none that started late enough is unknown to the daemon; an idle daemon  *)
(* exits cleanly; without queueing a PE has one task; and CedrRuntime      *)
(* implements KernelService and SchedRound.                                *)
(***************************************************************************)
EXTENDS CedrTaskProofs

\* The logged tasks of a.
LogOf(a) == {t \in stream_log : t[1] = a}

\* The log holds only numbered tasks of a, finitely many.
LEMMA LogInNumbered ==
    ASSUME CoreInv, EveryTaskInOnePlace, NEW a \in Apps
    PROVE  /\ LogOf(a) \subseteq Numbered(a)
           /\ IsFiniteSet(Numbered(a)) /\ Cardinality(Numbered(a)) = task_count[a]
           /\ IsFiniteSet(LogOf(a))
<1>1. LogOf(a) \subseteq Numbered(a)
  <2> SUFFICES ASSUME NEW t \in LogOf(a) PROVE t \in Numbered(a)
    OBVIOUS
  <2>1. t \in Signalled /\ t[1] = a
    BY SignalledIs DEF LogOf
  <2> QED
    BY <2>1, SignalledNumbered
<1>2. IsFiniteSet(Numbered(a)) /\ Cardinality(Numbered(a)) = task_count[a]
  <2> DEFINE I == 0..(task_count[a] - 1)
  <2>1. task_count[a] \in Nat /\ 0 \in Int /\ task_count[a] - 1 \in Int
    BY DEF CoreInv, TypeOK, CallTypeOK
  <2>2. /\ IsFiniteSet(I)
        /\ Cardinality(I) = IF 0 > task_count[a] - 1 THEN 0 ELSE (task_count[a] - 1) - 0 + 1
    BY <2>1, FS_Interval
  <2>3. IsFiniteSet({a}) /\ Cardinality({a}) = 1
    BY FS_Singleton
  <2>4. IsFiniteSet({a} \X I) /\ Cardinality({a} \X I) = Cardinality({a}) * Cardinality(I)
    BY <2>2, <2>3, FS_Product
  <2> QED
    BY <2>1, <2>2, <2>3, <2>4 DEF Numbered
<1> QED
  BY <1>1, <1>2, FS_Subset

\* An application all of whose tasks were counted has all of them in the log.
LEMMA CountedIsLogged ==
    ASSUME CoreInv, EveryTaskInOnePlace, LogInv, NEW a \in Apps, AllLogged(a)
    PROVE  Numbered(a) \subseteq stream_log
<1>1. Cardinality(LogOf(a)) = Cardinality(Numbered(a))
  BY LogInNumbered DEF LogInv, LogOf, AllLogged
<1>2. LogOf(a) = Numbered(a)
  BY <1>1, LogInNumbered, FS_Subset
<1> QED
  BY <1>2 DEF LogOf

\* What the main thread pops is numbered and not in the log.
LEMMA PoppedIsUnlogged ==
    ASSUME CoreInv, EveryTaskInOnePlace, PopCompleted
    PROVE  LET t == Head(completed[idx]) IN
           /\ t[1] \in Apps /\ t \in Numbered(t[1]) /\ t \notin stream_log
           /\ completed_count' = [completed_count EXCEPT ![t[1]] = @ + 1]
           /\ stream_log' = stream_log \cup {t}
<1>1. PICK w \in PE : w = idx
  BY DEF PopCompleted, CoreInv, LoopInv
<1> DEFINE t == Head(completed[w])
<1>2. completed[w] \in Seq(Task) /\ completed[w] # <<>>
  BY <1>1 DEF PopCompleted, CoreInv, LoopInv, TypeOK, WorkerTypeOK
<1>3. t \in ToSet(completed[w])
  BY <1>2, HeadAndTail
<1>4. t \in Signalled
  BY <1>3, SignalledIs
<1>5. t \notin stream_log
  <2>1. Contents(<<"handed", w>>) \cap Contents(<<"logged", 0>>) = {}
    BY ContentsAt DEF EveryTaskInOnePlace
  <2> QED
    BY <1>3, <2>1, ContentsAt
<1> QED
  BY <1>1, <1>4, <1>5, SignalledNumbered DEF PopCompleted

\* Only PopCompleted logs.
LEMMA WhoLogs ==
    ASSUME [Next]_vars
    PROVE  UNCHANGED logVars \/ PopCompleted
<1> USE DEF vars, mainVars, otherThanPhase
<1>1. CASE Client
  BY <1>1 DEF Client, SubDag, KillDaemon
<1>2. CASE Main
  BY <1>2 DEF Main, ReceiveApps, ReceiveNothing, BeginExit, ArriveApps,
     LaunchApp,
      RegisterApp, BeginScheduling, AssignTask, EndScheduling, CountCompleted,
      BeginSweep, KeepPill, ReapApp, EndSweep, ReadNullPill, QuiescePE, RetirePE, JoinPill,
      KickOutApps, JoinWorkers
<1>3. ASSUME NEW w \in PE, Worker(w) PROVE UNCHANGED logVars
  BY <1>3 DEF Worker, TakeTask, SignalBarrier, HandBack, StopWorker
<1>4. ASSUME NEW a \in Apps, BecomeDue(a) \/ AppThread(a) \/ WakeSpuriously(a)
      PROVE  UNCHANGED logVars
  BY <1>4 DEF BecomeDue, AppThread, WakeSpuriously, OpenBarrier, NumberTask,
     PushReady,
      CheckBarrier, InjectPill, ExitThread
<1>5. CASE Gone \/ UNCHANGED vars
  BY <1>5 DEF Gone
<1> QED
  BY <1>1, <1>2, <1>3, <1>4, <1>5 DEF Next

\* completed_task_count grows by one exactly when a new task enters the log.
LEMMA LogStep ==
    ASSUME CoreInv, EveryTaskInOnePlace, LogInv, [Next]_vars
    PROVE  LogInv'
<1> SUFFICES ASSUME NEW a \in Apps PROVE completed_count'[a] = Cardinality(LogOf(a)')
  BY DEF LogInv, LogOf
<1>1. completed_count \in [Apps -> Nat] /\ completed_count[a] = Cardinality(LogOf(a))
  BY DEF LogInv, LogOf, CoreInv, TypeOK, LogTypeOK
<1>2. CASE UNCHANGED logVars
  BY <1>1, <1>2 DEF logVars, LogOf
<1>3. CASE PopCompleted
  <2> DEFINE t == Head(completed[idx])
  <2>1. /\ t[1] \in Apps /\ t \notin stream_log
        /\ completed_count' = [completed_count EXCEPT ![t[1]] = @ + 1]
        /\ stream_log' = stream_log \cup {t}
    BY <1>3, PoppedIsUnlogged
  <2> HIDE DEF t
  <2>2. CASE t[1] = a
    <3>1. LogOf(a)' = LogOf(a) \cup {t} /\ t \notin LogOf(a)
      BY <2>1, <2>2 DEF LogOf
    <3>2. Cardinality(LogOf(a)') = Cardinality(LogOf(a)) + 1
      BY <3>1, LogInNumbered, FS_AddElement
    <3> QED
      BY <1>1, <2>1, <2>2, <3>2
  <2>3. CASE t[1] # a
    <3>1. LogOf(a)' = LogOf(a)
      BY <2>1, <2>3 DEF LogOf
    <3> QED
      BY <1>1, <2>1, <2>3, <3>1
  <2> QED
    BY <2>2, <2>3
<1> QED
  BY <1>2, <1>3, WhoLogs

LifeInv == ListInv /\ FreedInv /\ PillInv

\* What every action does to the life of applications but those that submit,
\* launch, register, number, end or free one: the main thread forgets some, a
\* thread that left its pill may exit.
LifeStill ==
    /\ UNCHANGED <<payload, unarrived, due, is_running, freed, poison_queue,
                   task_count, completed_count>>
    /\ arrived' \subseteq arrived /\ app_thread_map' \subseteq app_thread_map
    /\ \A a \in Apps :
          /\ apc'[a] = "unborn" <=> apc[a] = "unborn"
          /\ apc[a] \in {"pilled", "exited"} => apc'[a] \in {"pilled", "exited"}
          /\ apc[a] = "exited" => apc'[a] = "exited"

\* Ten kinds of steps make an application's life go on.
LEMMA WhoMovesApps ==
    ASSUME CoreInv, EveryTaskInOnePlace, [Next]_vars
    PROVE  \/ LifeStill
           \/ SubDag \/ ReceiveApps \/ ArriveApps \/ PopCompleted \/ ReapApp
           \/ \E a \in Apps : \/ BecomeDue(a) \/ LaunchApp(a) \/ RegisterApp(a)
                              \/ NumberTask(a) /\ a \in app_thread_map
                              \/ InjectPill(a)
<1> USE DEF LifeStill, vars, mainVars, slotVars, arriveVars, threadVars,
   logVars,
            callVars, queueVars, otherThanPhase
<1>0. apc \in [Apps -> AppState]
  BY DEF CoreInv, TypeOK, CallTypeOK
<1>1. KillDaemon => LifeStill
  BY DEF KillDaemon
<1>2. CASE Main
  <2>1. ASSUME NEW i \in DOMAIN ready_queue, NEW w \in PE, AssignTask(i, w) PROVE LifeStill
    BY <2>1 DEF AssignTask
  <2>2. \/ ReceiveNothing \/ BeginExit \/ BeginScheduling \/ EndScheduling \/ CountCompleted
        \/ BeginSweep \/ KeepPill \/ EndSweep \/ ReadNullPill \/ QuiescePE \/ RetirePE
        \/ JoinPill \/ JoinWorkers
        => LifeStill
    BY DEF ReceiveNothing, BeginExit, BeginScheduling, EndScheduling,
       CountCompleted,
      BeginSweep, KeepPill, EndSweep, ReadNullPill, QuiescePE, RetirePE, JoinPill, JoinWorkers
  <2>3. KickOutApps => LifeStill
    BY DEF KickOutApps
  <2> HIDE DEF LifeStill
  <2> QED
    BY <1>2, <2>1, <2>2, <2>3 DEF Main
<1>3. ASSUME NEW w \in PE, Worker(w) PROVE LifeStill
  <2>1. SignalBarrier(w) => LifeStill
    <3> SUFFICES ASSUME SignalBarrier(w) PROVE LifeStill
      OBVIOUS
    <3>1. task[w][1] \in Apps
      BY RunningUnsignalled DEF SignalBarrier
    <3>2. apc' = [apc EXCEPT ![task[w][1]] = IF @ = "asleep" THEN "woken" ELSE @]
      BY DEF SignalBarrier
    <3>3. \A a \in Apps : apc'[a] = apc[a] \/ (apc[a] = "asleep" /\ apc'[a] = "woken")
      BY <1>0, <3>1, <3>2
    <3> QED
      BY <3>3 DEF SignalBarrier
  <2>2. TakeTask(w) \/ HandBack(w) \/ StopWorker(w) => LifeStill
    BY DEF TakeTask, HandBack, StopWorker
  <2> QED
    BY <1>3, <2>1, <2>2 DEF Worker
<1>4. ASSUME NEW a \in Apps, AppThread(a) \/ WakeSpuriously(a)
      PROVE  LifeStill \/ (NumberTask(a) /\ a \in app_thread_map) \/ InjectPill(a)
  <2>1. ASSUME NEW n \in 1..MaxBatch, OpenBarrier(a, n) PROVE LifeStill
    BY <1>0, <2>1 DEF OpenBarrier, MayCall
  <2>2. WakeSpuriously(a) => LifeStill
    BY <1>0 DEF WakeSpuriously
  <2>3. NumberTask(a) => LifeStill \/ a \in app_thread_map
    BY DEF NumberTask
  <2>4. PushReady(a) => LifeStill
    BY <1>0 DEF PushReady
  <2>5. CheckBarrier(a) => LifeStill
    BY <1>0 DEF CheckBarrier
  <2>6. ExitThread(a) => LifeStill
    BY <1>0 DEF ExitThread
  <2> QED
    BY <1>4, <2>1, <2>2, <2>3, <2>4, <2>5, <2>6 DEF AppThread
<1>5. CASE Gone \/ UNCHANGED vars
  BY <1>5 DEF Gone
<1> QED
  BY <1>1, <1>2, <1>3, <1>4, <1>5 DEF Next, Client

\* An application passes from the submission slot to unarrived_apps and
\* arrived_nonstreaming_apps, never back.
LEMMA ListStep ==
    ASSUME CoreInv, EveryTaskInOnePlace, ListInv, [Next]_vars
    PROVE  ListInv'
<1> USE DEF ListInv, mainVars, slotVars, arriveVars, threadVars, callVars,
   queueVars
<1>0. apc \in [Apps -> AppState] /\ task_count \in [Apps -> Nat]
  BY DEF CoreInv, TypeOK, CallTypeOK
<1>1. CASE LifeStill
  BY <1>1 DEF LifeStill
<1>2. CASE SubDag
  BY <1>2 DEF SubDag, Fresh
<1>3. CASE ReceiveApps
  BY <1>3 DEF ReceiveApps
<1>4. CASE ArriveApps
  BY <1>4 DEF ArriveApps
<1>5. CASE PopCompleted
  BY <1>5 DEF PopCompleted
<1>6. CASE ReapApp
  BY <1>6 DEF ReapApp
<1>7. ASSUME NEW a \in Apps, BecomeDue(a) PROVE ListInv'
  BY <1>7 DEF BecomeDue
<1>8. ASSUME NEW a \in Apps, LaunchApp(a) PROVE ListInv'
  BY <1>0, <1>8 DEF LaunchApp
<1>9. ASSUME NEW a \in Apps, RegisterApp(a) PROVE ListInv'
  BY <1>9 DEF RegisterApp
<1>10. ASSUME NEW a \in Apps, NumberTask(a), a \in app_thread_map PROVE ListInv'
  BY <1>0, <1>10 DEF NumberTask
<1>11. ASSUME NEW a \in Apps, InjectPill(a) PROVE ListInv'
  BY <1>0, <1>11 DEF InjectPill, MayCall
<1> QED
  BY <1>1, <1>2, <1>3, <1>4, <1>5, <1>6, <1>7, <1>8, <1>9, <1>10, <1>11,
     WhoMovesApps

\* The pill that ReapApp takes is that of the thread it frees.
LEMMA ReapedPill ==
    ASSUME CoreInv, PillInv, ReapApp
    PROVE  LET p == poison_queue[idx] IN
           /\ p \in ToSet(poison_queue)
           /\ p.app = p.thread /\ p.app \in Apps
           /\ ToSet(poison_queue') = ToSet(poison_queue) \ {p}
           /\ IsInjective(poison_queue')
<1> DEFINE p == poison_queue[idx]
<1>1. idx \in DOMAIN poison_queue /\ p.app # NoApp /\ poison_queue' = RemoveAt(poison_queue, idx)
  BY DEF ReapApp
<1>2. poison_queue \in Seq(Pill) /\ p \in Pill
  BY <1>1, ElementOfSeq, LenProperties DEF CoreInv, TypeOK, QueueTypeOK
<1>3. /\ p \in ToSet(poison_queue)
      /\ ToSet(poison_queue') = ToSet(poison_queue) \ {p}
      /\ IsInjective(poison_queue')
  BY <1>1, <1>2, RemoveAtSet DEF PillInv
<1> QED
  BY <1>1, <1>2, <1>3 DEF PillInv, Pill

\* The sweep frees an application that ended and is logged, and nothing brings it
\* back: its thread is gone, and no task of it is left to pop.
LEMMA FreedStep ==
    ASSUME CoreInv, EveryTaskInOnePlace, LogInv, ListInv, FreedInv, PillInv, [Next]_vars
    PROVE  FreedInv'
<1> USE DEF FreedInv, AllLogged, mainVars, slotVars, arriveVars, threadVars,
   logVars,
            callVars, queueVars
<1>0. /\ apc \in [Apps -> AppState] /\ task_count \in [Apps -> Nat]
      /\ completed_count \in [Apps -> Nat] /\ freed \subseteq Apps
  BY DEF CoreInv, TypeOK, MainTypeOK, LogTypeOK, CallTypeOK
<1>1. CASE LifeStill
  BY <1>0, <1>1 DEF LifeStill
<1>2. CASE SubDag
  BY <1>2 DEF SubDag
<1>3. CASE ReceiveApps
  BY <1>3 DEF ReceiveApps
<1>4. CASE ArriveApps
  BY <1>0, <1>4 DEF ArriveApps, ListInv
<1>5. CASE PopCompleted
  <2> DEFINE t == Head(completed[idx])
  <2>1. /\ t[1] \in Apps /\ t \in Numbered(t[1]) /\ t \notin stream_log
        /\ completed_count' = [completed_count EXCEPT ![t[1]] = @ + 1]
    BY <1>5, PoppedIsUnlogged
  <2> HIDE DEF t
  <2>2. t[1] \notin freed
    BY <2>1, CountedIsLogged
  <2>3. UNCHANGED <<freed, apc, task_count, arrived, app_thread_map>>
    BY <1>5 DEF PopCompleted
  <2> QED
    BY <1>0, <2>1, <2>2, <2>3
<1>6. CASE ReapApp
  <2> DEFINE a == poison_queue[idx].app
  <2>1. a \in Apps /\ poison_queue[idx].thread = a
    BY <1>6, ReapedPill
  <2>2. /\ AllLogged(a) /\ apc[poison_queue[idx].thread] = "exited"
        /\ arrived' = arrived \ {a} /\ app_thread_map' = app_thread_map \ {a}
        /\ freed' = freed \cup {a}
        /\ UNCHANGED <<apc, task_count, completed_count>>
    BY <1>6 DEF ReapApp, workerVars
  <2> HIDE DEF a
  <2> QED
    BY <2>1, <2>2
<1>7. ASSUME NEW a \in Apps, BecomeDue(a) PROVE FreedInv'
  BY <1>7 DEF BecomeDue
<1>8. ASSUME NEW a \in Apps, LaunchApp(a) PROVE FreedInv'
  BY <1>0, <1>8 DEF LaunchApp
<1>9. ASSUME NEW a \in Apps, RegisterApp(a) PROVE FreedInv'
  BY <1>9 DEF RegisterApp
<1>10. ASSUME NEW a \in Apps, NumberTask(a), a \in app_thread_map PROVE FreedInv'
  BY <1>0, <1>10 DEF NumberTask
<1>11. ASSUME NEW a \in Apps, InjectPill(a) PROVE FreedInv'
  BY <1>0, <1>11 DEF InjectPill, MayCall
<1> QED
  BY <1>1, <1>2, <1>3, <1>4, <1>5, <1>6, <1>7, <1>8, <1>9, <1>10, <1>11,
     WhoMovesApps

\* A thread leaves its one pill when its main function returns, and the pill goes
\* when the application is freed.
LEMMA PillStep ==
    ASSUME CoreInv, EveryTaskInOnePlace, FreedInv, PillInv, [Next]_vars
    PROVE  PillInv'
<1> USE DEF mainVars, slotVars, arriveVars, threadVars, logVars, callVars,
   queueVars
<1>0. /\ apc \in [Apps -> AppState] /\ freed \subseteq Apps /\ poison_queue \in Seq(Pill)
      /\ \A p \in ToSet(poison_queue) : p \in Pill /\ p.thread \in Apps
  <2>1. poison_queue \in Seq(Pill)
    BY DEF CoreInv, TypeOK, QueueTypeOK
  <2>2. \A p \in ToSet(poison_queue) : p \in Pill
    BY <2>1, LenProperties, ElementOfSeq DEF ToSet
  <2> QED
    BY <2>1, <2>2 DEF CoreInv, TypeOK, MainTypeOK, CallTypeOK, Pill
<1>1. ASSUME UNCHANGED <<poison_queue, freed>>,
             \A a \in Apps : apc[a] \in {"pilled", "exited"} => apc'[a] \in {"pilled", "exited"}
      PROVE  PillInv'
  BY <1>0, <1>1 DEF PillInv
<1>2. CASE ReapApp
  <2> DEFINE p == poison_queue[idx]
  <2>1. /\ p \in ToSet(poison_queue) /\ p.app = p.thread
        /\ ToSet(poison_queue') = ToSet(poison_queue) \ {p}
        /\ IsInjective(poison_queue')
    BY <1>2, ReapedPill
  <2>2. freed' = freed \cup {p.app} /\ UNCHANGED apc
    BY <1>2 DEF ReapApp
  <2> HIDE DEF p
  <2>3. \A q \in ToSet(poison_queue') : q.thread \notin freed'
    BY <2>1, <2>2 DEF PillInv
  <2> QED
    BY <2>1, <2>2, <2>3 DEF PillInv
<1>3. ASSUME NEW a \in Apps, InjectPill(a) PROVE PillInv'
  <2>1. PICK p \in Pill : /\ p.thread = a /\ p.app \in {a, NoApp}
                          /\ poison_queue' = Append(poison_queue, p)
    BY <1>3 DEF InjectPill, Pill
  <2>2. apc[a] = "main" /\ apc' = [apc EXCEPT ![a] = "pilled"] /\ UNCHANGED freed
    BY <1>3 DEF InjectPill, MayCall
  <2>3. \A q \in ToSet(poison_queue) : q.thread # a
    BY <2>2 DEF PillInv
  <2>4. /\ ToSet(poison_queue') = ToSet(poison_queue) \cup {p}
        /\ IsInjective(poison_queue')
    BY <1>0, <2>1, <2>3, AppendSet DEF PillInv
  <2>5. a \notin freed
    BY <2>2 DEF FreedInv
  <2> QED
    BY <1>0, <2>1, <2>2, <2>3, <2>4, <2>5 DEF PillInv
<1>4. CASE LifeStill
  BY <1>1, <1>4 DEF LifeStill
<1>5. SubDag \/ ReceiveApps \/ ArriveApps \/ PopCompleted => UNCHANGED <<poison_queue, freed, apc>>
  BY DEF SubDag, ReceiveApps, ArriveApps, PopCompleted
<1>6. ASSUME NEW a \in Apps, BecomeDue(a) \/ RegisterApp(a)
      PROVE  UNCHANGED <<poison_queue, freed, apc>>
  BY <1>6 DEF BecomeDue, RegisterApp
<1>7. ASSUME NEW a \in Apps, LaunchApp(a) PROVE PillInv'
  <2>1. apc[a] = "unborn" /\ apc' = [apc EXCEPT ![a] = "main"]
    BY <1>7 DEF LaunchApp, CoreInv, StartInv
  <2>2. UNCHANGED <<poison_queue, freed>>
    BY <1>7 DEF LaunchApp
  <2> QED
    BY <1>0, <1>1, <2>1, <2>2
<1>8. ASSUME NEW a \in Apps, NumberTask(a), a \in app_thread_map PROVE PillInv'
  <2>1. apc[a] = "call" /\ apc' = [apc EXCEPT ![a] = "push"] /\ UNCHANGED <<poison_queue, freed>>
    BY <1>8 DEF NumberTask
  <2> QED
    BY <1>0, <1>1, <2>1
<1>9. UNCHANGED <<poison_queue, freed, apc>> => PillInv'
  BY <1>1
<1> QED
  BY <1>2, <1>3, <1>4, <1>5, <1>6, <1>7, <1>8, <1>9, WhoMovesApps

-----------------------------------------------------------------------------
(* Threads that start late do not crash the daemon.                        *)

\* What every action leaves of LateInv but those that reap, cancel, join or stop,
\* and those of a thread that opens a call, issues a kernel or leaves its pill.
LateStill ==
    /\ UNCHANGED poison_queue
    /\ mpc' = "crashed" => mpc = "crashed"
    /\ \A a \in Apps : /\ a \in app_thread_map => a \in app_thread_map'
                       /\ CallOpen(a)' => CallOpen(a)

\* Seven kinds of steps can make a thread's call or pill unknown, or read it.
LEMMA WhoIsLate ==
    ASSUME CoreInv, [Next]_vars
    PROVE  \/ LateStill \/ ReapApp \/ ReadNullPill \/ RetirePE \/ KickOutApps
           \/ \E a \in Apps : \/ \E n \in 1..MaxBatch : OpenBarrier(a, n)
                              \/ NumberTask(a) \/ InjectPill(a)
<1> USE DEF LateStill, CallOpen, vars, mainVars, phaseVars, threadVars, callVars,
            queueVars, otherThanPhase
<1>0. apc \in [Apps -> AppState]
  BY DEF CoreInv, TypeOK, CallTypeOK
<1>1. CASE Client
  BY <1>1 DEF Client, SubDag, KillDaemon
<1>2. CASE Main
  <2>1. ASSUME NEW a \in Apps, LaunchApp(a) PROVE LateStill
    BY <1>0, <2>1 DEF LaunchApp
  <2>2. ASSUME NEW a \in Apps, RegisterApp(a) PROVE LateStill
    BY <2>2 DEF RegisterApp
  <2>3. ASSUME NEW i \in DOMAIN ready_queue, NEW w \in PE, AssignTask(i, w) PROVE LateStill
    BY <2>3 DEF AssignTask
  <2>4. \/ ReceiveApps \/ ReceiveNothing \/ BeginExit \/ ArriveApps \/ BeginScheduling
        \/ EndScheduling
        => LateStill
    BY DEF ReceiveApps, ReceiveNothing, BeginExit, ArriveApps, BeginScheduling,
      EndScheduling
  <2>5. CountCompleted \/ PopCompleted \/ BeginSweep \/ KeepPill \/ EndSweep => LateStill
    BY DEF CountCompleted, PopCompleted, BeginSweep, KeepPill, EndSweep
  <2>6. QuiescePE \/ JoinPill \/ JoinWorkers => LateStill
    BY DEF QuiescePE, JoinPill, JoinWorkers
  <2> HIDE DEF LateStill
  <2> QED
    BY <1>2, <2>1, <2>2, <2>3, <2>4, <2>5, <2>6 DEF Main
<1>3. ASSUME NEW w \in PE, Worker(w) PROVE LateStill
  <2>1. SignalBarrier(w) => LateStill
    BY <1>0 DEF SignalBarrier
  <2>2. TakeTask(w) \/ HandBack(w) \/ StopWorker(w) => LateStill
    BY DEF TakeTask, HandBack, StopWorker
  <2> QED
    BY <1>3, <2>1, <2>2 DEF Worker
<1>4. ASSUME NEW a \in Apps, BecomeDue(a) \/ AppThread(a) \/ WakeSpuriously(a)
      PROVE  \/ LateStill
             \/ \E n \in 1..MaxBatch : OpenBarrier(a, n)
             \/ NumberTask(a) \/ InjectPill(a)
  <2>1. BecomeDue(a) => LateStill
    BY DEF BecomeDue
  <2>2. WakeSpuriously(a) => LateStill
    BY <1>0 DEF WakeSpuriously
  <2>3. PushReady(a) => LateStill
    BY <1>0 DEF PushReady
  <2>4. CheckBarrier(a) => LateStill
    BY <1>0 DEF CheckBarrier
  <2>5. ExitThread(a) => LateStill
    BY <1>0 DEF ExitThread
  <2> QED
    BY <1>4, <2>1, <2>2, <2>3, <2>4, <2>5 DEF AppThread
<1>5. CASE Gone \/ UNCHANGED vars
  BY <1>5 DEF Gone
<1> QED
  BY <1>1, <1>2, <1>3, <1>4, <1>5 DEF Next

\* Only the sweep takes an application out of app_thread_map, when its thread is
\* gone; so a thread that was registered is known whenever it calls.
LEMMA LateStep ==
    ASSUME CoreInv, PillInv, LateInv, WayOutInv, [Next]_vars
    PROVE  LateInv'
<1> SUFFICES ASSUME LateStart
             PROVE  /\ mpc' # "crashed"
                    /\ \A a \in Apps : CallOpen(a)' => a \in app_thread_map'
                    /\ \A p \in ToSet(poison_queue') : p.app # NoApp
  BY DEF LateInv
<1>0. /\ apc \in [Apps -> AppState] /\ poison_queue \in Seq(Pill) /\ Len(poison_queue) \in Nat
      /\ cnt \in Nat /\ idx \in Nat /\ idx > 0
      /\ DOMAIN poison_queue = 1..Len(poison_queue)
  BY LenProperties DEF CoreInv, TypeOK, CallTypeOK, QueueTypeOK, MainTypeOK, LoopInv
<1>1. /\ mpc # "crashed"
      /\ \A a \in Apps : CallOpen(a) => a \in app_thread_map
      /\ \A p \in ToSet(poison_queue) : p.app # NoApp
  BY DEF LateInv
<1>2. CASE LateStill
  BY <1>1, <1>2 DEF LateStill
<1>3. CASE ReapApp
  <2> DEFINE p == poison_queue[idx]
  <2>1. /\ p.app = p.thread
        /\ ToSet(poison_queue') = ToSet(poison_queue) \ {p}
    BY <1>3, ReapedPill
  <2>2. /\ mpc = "sweep" /\ apc[p.thread] = "exited"
        /\ app_thread_map' = app_thread_map \ {p.app}
        /\ UNCHANGED <<mpc, apc>>
    BY <1>3 DEF ReapApp, phaseVars, callVars
  <2> HIDE DEF p
  <2> QED
    BY <1>1, <2>1, <2>2 DEF CallOpen
<1>4. CASE ReadNullPill
  <2>1. idx \in DOMAIN poison_queue
    <3>1. CASE mpc = "sweep"
      BY <1>4, <3>1 DEF ReadNullPill
    <3>2. CASE mpc = "joinpills" /\ idx <= cnt
      <4>1. cnt <= Len(poison_queue)
        BY <3>2 DEF WayOutInv
      <4> QED
        BY <1>0, <3>2, <4>1
    <3> QED
      BY <1>4, <3>1, <3>2 DEF ReadNullPill
  <2>2. poison_queue[idx] \in ToSet(poison_queue)
    BY <2>1 DEF ToSet
  <2> QED
    BY <1>1, <1>4, <2>2 DEF ReadNullPill
<1>5. CASE RetirePE
  <2>1. /\ UNCHANGED <<apc, app_thread_map, poison_queue>>
        /\ mpc' # "crashed"
    BY <1>5 DEF RetirePE, threadVars, queueVars, callVars
  <2> QED
    BY <1>0, <1>1, <2>1 DEF CallOpen
<1>6. CASE KickOutApps
  <2>1. /\ UNCHANGED <<apc, poison_queue>> /\ mpc' = "joinworkers"
        /\ app_thread_map' = app_thread_map
    BY <1>6 DEF KickOutApps, KickOutCondition, queueVars, callVars
  <2> QED
    BY <1>1, <2>1 DEF CallOpen
<1>7. ASSUME NEW a \in Apps, NEW n \in 1..MaxBatch, OpenBarrier(a, n)
      PROVE  LateInv'
  <2>1. /\ a \in app_thread_map /\ apc' = [apc EXCEPT ![a] = "call"]
        /\ UNCHANGED <<mpc, cnt, poison_queue, app_thread_map>>
    BY <1>7 DEF OpenBarrier, MayCall, mainVars, phaseVars, threadVars, queueVars
  <2> QED
    BY <1>0, <1>1, <2>1 DEF CallOpen, LateInv
<1>8. ASSUME NEW a \in Apps, NumberTask(a)
      PROVE  LateInv'
  <2>1. apc[a] = "call" /\ UNCHANGED <<cnt, poison_queue, app_thread_map>>
    BY <1>8 DEF NumberTask, threadVars, queueVars
  <2>2. a \in app_thread_map
    BY <1>1, <2>1 DEF CallOpen
  <2>3. apc' = [apc EXCEPT ![a] = "push"] /\ mpc' = mpc
    BY <1>8, <2>2 DEF NumberTask
  <2> QED
    BY <1>0, <1>1, <2>1, <2>2, <2>3 DEF CallOpen, LateInv
<1>9. ASSUME NEW a \in Apps, InjectPill(a)
      PROVE  LateInv'
  <2> DEFINE p == [thread |-> a, app |-> a]
  <2>1. /\ poison_queue' = Append(poison_queue, p)
        /\ apc' = [apc EXCEPT ![a] = "pilled"]
        /\ UNCHANGED <<mpc, cnt, app_thread_map>>
    BY <1>9 DEF InjectPill, MayCall, mainVars, phaseVars, threadVars
  <2>2. p \in Pill /\ p.app # NoApp
    BY ConstantsAssumption DEF Pill
  <2> HIDE DEF p
  <2>3. ToSet(poison_queue') = ToSet(poison_queue) \cup {p}
    BY <1>0, <2>1, <2>2, AppendElements
  <2> QED
    BY <1>0, <1>1, <2>1, <2>2, <2>3 DEF CallOpen, LateInv
<1>10. LateInv' <=> /\ mpc' # "crashed"
                    /\ \A a \in Apps : CallOpen(a)' => a \in app_thread_map'
                    /\ \A p \in ToSet(poison_queue') : p.app # NoApp
  BY DEF LateInv
<1> QED
  BY <1>2, <1>3, <1>4, <1>5, <1>6, <1>7, <1>8, <1>9, <1>10, WhoIsLate

-----------------------------------------------------------------------------
(* What a scheduling round reads stays as it is.                           *)

\* What every action leaves but those that schedule, move tasks or end the
\* process: the main thread is in the same round, or in none before and after.
RoundStill ==
    /\ UNCHANGED <<ready_queue, todo, task, completed>>
    /\ \/ UNCHANGED <<mpc, cnt>>
       \/ {mpc, mpc'} \cap {"schedule", "dead", "crashed"} = {}

\* While a round is open only its own steps, and those of the workers, touch what
\* it goes by.
LEMMA WhoSchedules ==
    ASSUME CoreInv, [Next]_vars
    PROVE  \/ RoundStill \/ BeginScheduling \/ EndScheduling
           \/ \E i \in DOMAIN ready_queue, w \in PE : AssignTask(i, w)
           \/ PopCompleted \/ ReadNullPill
           \/ \E w \in PE : TakeTask(w) \/ HandBack(w)
           \/ \E a \in Apps : PushReady(a) \/ (NumberTask(a) /\ a \notin app_thread_map)
<1> USE DEF RoundStill, vars, mainVars, phaseVars, workerVars, queueVars, otherThanPhase
<1>1. CASE Client
  BY <1>1 DEF Client, SubDag, KillDaemon
<1>2. CASE Main
  <2>1. ASSUME NEW a \in Apps, LaunchApp(a) \/ RegisterApp(a) PROVE RoundStill
    BY <2>1 DEF LaunchApp, RegisterApp
  <2>2. ReceiveApps \/ ReceiveNothing \/ BeginExit \/ ArriveApps => RoundStill
    BY DEF ReceiveApps, ReceiveNothing, BeginExit, ArriveApps
  <2>3. CountCompleted \/ BeginSweep \/ KeepPill \/ ReapApp \/ EndSweep => RoundStill
    BY DEF CountCompleted, BeginSweep, KeepPill, ReapApp, EndSweep
  <2>4. QuiescePE \/ RetirePE \/ JoinPill \/ KickOutApps \/ JoinWorkers => RoundStill
    BY DEF QuiescePE, RetirePE, JoinPill, KickOutApps, JoinWorkers
  <2> HIDE DEF RoundStill
  <2> QED
    BY <1>2, <2>1, <2>2, <2>3, <2>4 DEF Main
<1>3. ASSUME NEW w \in PE, Worker(w) PROVE RoundStill \/ TakeTask(w) \/ HandBack(w)
  BY <1>3 DEF Worker, SignalBarrier, StopWorker
<1>4. ASSUME NEW a \in Apps, BecomeDue(a) \/ AppThread(a) \/ WakeSpuriously(a)
      PROVE  RoundStill \/ PushReady(a) \/ (NumberTask(a) /\ a \notin app_thread_map)
  BY <1>4 DEF BecomeDue, AppThread, WakeSpuriously, OpenBarrier, NumberTask,
     CheckBarrier, InjectPill, ExitThread
<1>5. CASE Gone \/ UNCHANGED vars
  BY <1>5 DEF Gone
<1> QED
  BY <1>1, <1>2, <1>3, <1>4, <1>5 DEF Next

\* performScheduling is called only when there is a ready task, and nobody else
\* takes one.
LEMMA RoundInvStep ==
    ASSUME CoreInv, RoundInv, [Next]_vars
    PROVE  RoundInv'
<1> USE DEF RoundInv
<1>1. CASE RoundStill
  BY <1>1 DEF RoundStill
<1>2. CASE BeginScheduling
  BY <1>2 DEF BeginScheduling, otherThanPhase, queueVars
<1>3. CASE EndScheduling \/ PopCompleted \/ ReadNullPill
  BY <1>3 DEF EndScheduling, PopCompleted, ReadNullPill
<1>4. ASSUME NEW i \in DOMAIN ready_queue, NEW w \in PE, AssignTask(i, w) PROVE RoundInv'
  <2>1. cnt \in Nat /\ cnt' = cnt + 1
    BY <1>4 DEF AssignTask, CoreInv, TypeOK, MainTypeOK
  <2> QED
    BY <2>1
<1>5. ASSUME NEW w \in PE, TakeTask(w) \/ HandBack(w) PROVE RoundInv'
  BY <1>5 DEF TakeTask, HandBack, mainVars, phaseVars, queueVars
<1>6. ASSUME NEW a \in Apps, PushReady(a) \/ (NumberTask(a) /\ a \notin app_thread_map)
      PROVE  RoundInv'
  BY <1>6 DEF PushReady, NumberTask, mainVars, phaseVars
<1> QED
  BY <1>1, <1>2, <1>3, <1>4, <1>5, <1>6, WhoSchedules

-----------------------------------------------------------------------------
(* The way out.                                                            *)

\* Where the main thread is on its way out, as far as WayOutInv looks.
OnWayOut == {"quiesce", "retire", "joinpills", "joinworkers", "done"}

\* What every action leaves but those on the way out, and some of workers and
\* application threads.
WayOutStill ==
    /\ UNCHANGED <<resource_state, poison_queue>>
    /\ mpc' \in OnWayOut => UNCHANGED <<mpc, idx, cnt>>

\* These actions change what the main thread goes by on its way out.
LEMMA WhoLeaves ==
    ASSUME [Next]_vars
    PROVE  \/ WayOutStill \/ BeginExit \/ ReapApp
           \/ QuiescePE \/ RetirePE \/ JoinPill \/ KickOutApps \/ JoinWorkers
           \/ \E w \in PE : TakeTask(w) \/ HandBack(w)
           \/ \E a \in Apps : InjectPill(a)
<1> USE DEF WayOutStill, OnWayOut, vars, mainVars, phaseVars, workerVars, queueVars,
   otherThanPhase
<1>1. CASE Client
  BY <1>1 DEF Client, SubDag, KillDaemon
<1>2. CASE Main
  <2>1. ASSUME NEW a \in Apps, LaunchApp(a) \/ RegisterApp(a) PROVE WayOutStill
    BY <2>1 DEF LaunchApp, RegisterApp
  <2>2. ReceiveApps \/ ReceiveNothing \/ ArriveApps \/ BeginScheduling => WayOutStill
    BY DEF ReceiveApps, ReceiveNothing, ArriveApps, BeginScheduling
  <2>3. CountCompleted \/ PopCompleted \/ BeginSweep \/ KeepPill \/ EndSweep => WayOutStill
    BY DEF CountCompleted, PopCompleted, BeginSweep, KeepPill, EndSweep
  <2>4. EndScheduling \/ ReadNullPill => WayOutStill
    BY DEF EndScheduling, ReadNullPill
  <2>5. ASSUME NEW i \in DOMAIN ready_queue, NEW w \in PE, AssignTask(i, w)
        PROVE  WayOutStill
    BY <2>5 DEF AssignTask
  <2> HIDE DEF WayOutStill
  <2> QED
    BY <1>2, <2>1, <2>2, <2>3, <2>4, <2>5 DEF Main
<1>3. ASSUME NEW w \in PE, Worker(w) PROVE WayOutStill \/ TakeTask(w) \/ HandBack(w)
  BY <1>3 DEF Worker, SignalBarrier, StopWorker
<1>4. ASSUME NEW a \in Apps, BecomeDue(a) \/ AppThread(a) \/ WakeSpuriously(a)
      PROVE  WayOutStill \/ InjectPill(a)
  BY <1>4 DEF BecomeDue, AppThread, WakeSpuriously, OpenBarrier, NumberTask,
     PushReady, CheckBarrier, ExitThread
<1>5. CASE Gone \/ UNCHANGED vars
  BY <1>5 DEF Gone
<1> QED
  BY <1>1, <1>2, <1>3, <1>4, <1>5 DEF Next

\* A busy worker was not told to stop, and one told to stop has nothing to take:
\* only the main thread tells them, one after the other.
LEMMA WayOutStep ==
    ASSUME CoreInv, WayOutInv, [Next]_vars
    PROVE  WayOutInv'
<1>0. /\ resource_state \in [PE -> {0, 1, 3}] /\ poison_queue \in Seq(Pill)
      /\ idx \in Nat /\ cnt \in Nat /\ NumPEs \in Nat /\ PE = 1..NumPEs
  BY ConstantsAssumption DEF CoreInv, TypeOK, WorkerTypeOK, QueueTypeOK, MainTypeOK, PE
<1>1. CASE WayOutStill
  BY <1>1 DEF WayOutStill, OnWayOut, WayOutInv
<1>2. CASE BeginExit
  <2>1. mpc = "ipc" /\ mpc' = "quiesce" /\ idx' = 1 /\ UNCHANGED resource_state
    BY <1>2 DEF BeginExit, workerVars
  <2>2. \A w \in PE : resource_state[w] # 3
    BY <2>1 DEF CoreInv, WorkerInv, Exiting, Up
  <2> QED
    BY <1>0, <2>1, <2>2 DEF WayOutInv
<1>3. CASE ReapApp
  BY <1>3 DEF ReapApp, phaseVars, WayOutInv
<1>4. CASE QuiescePE
  BY <1>4 DEF QuiescePE, otherThanPhase, workerVars, queueVars, WayOutInv
<1>5. CASE RetirePE
  <2>1. /\ resource_state' = [resource_state EXCEPT ![idx] = 3]
        /\ UNCHANGED poison_queue
        /\ \/ mpc' = "quiesce" /\ idx' = idx + 1 /\ idx < NumPEs
           \/ mpc' = "joinpills" /\ cnt' = Len(poison_queue) /\ ~(idx < NumPEs)
        /\ idx \in PE
    BY <1>5 DEF RetirePE, queueVars, CoreInv, LoopInv
  <2>2. \A w \in PE : resource_state[w] = 3 <=> w < idx
    BY <1>5 DEF RetirePE, WayOutInv
  <2>3. \A w \in PE : resource_state'[w] = 3 <=> w <= idx
    <3> SUFFICES ASSUME NEW w \in PE PROVE resource_state'[w] = 3 <=> w <= idx
      OBVIOUS
    <3>1. w \in Int /\ idx \in Int
      BY <1>0
    <3>2. resource_state'[w] = IF w = idx THEN 3 ELSE resource_state[w]
      BY <1>0, <2>1
    <3> QED
      BY <2>2, <3>1, <3>2
  <2>4. CASE mpc' = "quiesce"
    <3>1. \A w \in PE : w <= idx <=> w < idx'
      BY <1>0, <2>1, <2>4
    <3> QED
      BY <2>3, <2>4, <3>1 DEF WayOutInv
  <2>5. CASE mpc' = "joinpills"
    <3>1. \A w \in PE : w <= idx
      BY <1>0, <2>1, <2>5
    <3>2. cnt' = Len(poison_queue') /\ Len(poison_queue') \in Nat
      BY <1>0, <2>1, <2>5, LenProperties
    <3>3. cnt' <= Len(poison_queue')
      BY <3>2
    <3> QED
      BY <2>3, <2>5, <3>1, <3>3 DEF WayOutInv
  <2> QED
    BY <2>1, <2>4, <2>5
<1>6. CASE JoinPill \/ KickOutApps \/ JoinWorkers
  BY <1>6 DEF JoinPill, KickOutApps, JoinWorkers, otherThanPhase, queueVars,
     workerVars, WayOutInv
<1>7. ASSUME NEW w \in PE, TakeTask(w) \/ HandBack(w) PROVE WayOutInv'
  <2>1. /\ UNCHANGED <<mpc, idx, cnt, poison_queue>>
        /\ \/ resource_state' = [resource_state EXCEPT ![w] = 1] /\ todo[w] # <<>>
           \/ resource_state' = [resource_state EXCEPT ![w] = 0] /\ wpc[w] = "signalled"
    BY <1>7 DEF TakeTask, HandBack, mainVars, phaseVars, queueVars
  <2>2. resource_state[w] # 3
    BY <2>1 DEF CoreInv, WorkerInv
  <2>3. \A v \in PE : resource_state'[v] = 3 <=> resource_state[v] = 3
    <3> SUFFICES ASSUME NEW v \in PE PROVE resource_state'[v] = 3 <=> resource_state[v] = 3
      OBVIOUS
    <3>1. CASE v = w
      BY <1>0, <2>1, <2>2, <3>1
    <3>2. CASE v # w
      BY <1>0, <2>1, <3>2
    <3> QED
      BY <3>1, <3>2
  <2> QED
    BY <2>1, <2>3 DEF WayOutInv
<1>8. ASSUME NEW a \in Apps, InjectPill(a) PROVE WayOutInv'
  <2> DEFINE p == [thread |-> a, app |-> IF a \in app_thread_map THEN a ELSE NoApp]
  <2>1. /\ UNCHANGED <<mpc, idx, cnt, resource_state>>
        /\ poison_queue' = Append(poison_queue, p)
    BY <1>8 DEF InjectPill, mainVars, phaseVars, workerVars
  <2>2. p \in Pill
    BY DEF Pill
  <2> HIDE DEF p
  <2>3. Len(poison_queue') = Len(poison_queue) + 1
    BY <1>0, <2>1, <2>2, AppendType
  <2>4. Len(poison_queue) \in Nat
    BY <1>0, LenProperties
  <2>5. mpc' = "joinpills" => cnt' <= Len(poison_queue')
    BY <1>0, <2>1, <2>3, <2>4 DEF WayOutInv
  <2> QED
    BY <2>1, <2>5 DEF WayOutInv
<1> QED
  BY <1>1, <1>2, <1>3, <1>4, <1>5, <1>6, <1>7, <1>8, WhoLeaves

-----------------------------------------------------------------------------
(* The inductive invariant.                                                *)

\* At first nothing is logged, submitted, freed or pilled.
LEMMA ReapInit == Init => LogInv /\ LifeInv /\ LateInv /\ WayOutInv /\ RoundInv
<1> SUFFICES ASSUME Init PROVE LogInv /\ LifeInv /\ LateInv /\ WayOutInv /\ RoundInv
  OBVIOUS
<1> USE DEF Init
<1>1. LogInv
  <2>1. \A a \in Apps : {t \in stream_log : t[1] = a} = {}
    OBVIOUS
  <2> QED
    BY <2>1, FS_EmptySet DEF LogInv
<1>2. ListInv /\ FreedInv
  BY DEF ListInv, FreedInv
<1>3. PillInv
  BY DEF PillInv, ToSet, IsInjective
<1>4. LateInv
  BY DEF LateInv, CallOpen, ToSet
<1>5. RoundInv /\ WayOutInv
  BY DEF RoundInv, WayOutInv
<1> QED
  BY <1>1, <1>2, <1>3, <1>4, <1>5 DEF LifeInv

\* IInv: the inductive invariant of the daemon, which implies every other.
THEOREM DaemonInvariance == Spec => []IInv
<1>1. Init => IInv
  BY CoreInit, TaskInit, BarrierInit, ReapInit DEF IInv, CoreInv, LifeInv
<1>2. IInv /\ [Next]_vars => IInv'
  <2> SUFFICES ASSUME IInv, [Next]_vars PROVE IInv'
    OBVIOUS
  <2>1. /\ CoreInv /\ EveryTaskInOnePlace /\ BarrierInv /\ LogInv
        /\ ListInv /\ FreedInv /\ PillInv /\ LateInv /\ WayOutInv /\ RoundInv
    BY DEF IInv, CoreInv
  <2>2. CoreInv'
    BY <2>1, CoreInductive
  <2>3. EveryTaskInOnePlace' /\ BarrierInv' /\ LogInv'
    BY <2>1, TaskStep, BarrierStep, LogStep
  <2>4. ListInv' /\ FreedInv' /\ PillInv'
    BY <2>1, ListStep, FreedStep, PillStep
  <2>5. LateInv' /\ WayOutInv' /\ RoundInv'
    BY <2>1, LateStep, WayOutStep, RoundInvStep
  <2> QED
    BY <2>2, <2>3, <2>4, <2>5 DEF IInv, CoreInv
<1> QED
  BY <1>1, <1>2, PTL DEF Spec

\* FreedIsUnreferenced: for any number of applications and tasks, the sweep of
\* poison_queue frees an application only when no task, pill, list or thread
\* refers to it.
THEOREM FreedAppsAreUnreferenced == Spec => []FreedIsUnreferenced
<1>1. ASSUME IInv, NEW a \in freed
      PROVE  /\ \A p \in Place : p[1] # "logged" => \A t \in Contents(p) : t[1] # a
             /\ \A p \in ToSet(poison_queue) : a \notin {p.thread, p.app}
             /\ a \notin arrived \cup app_thread_map
             /\ apc[a] = "exited"
  <2>1. /\ CoreInv /\ EveryTaskInOnePlace /\ LogInv /\ FreedInv /\ PillInv
        /\ a \in Apps
    BY <1>1 DEF IInv, CoreInv, TypeOK, MainTypeOK
  <2>2. AllLogged(a) /\ apc[a] = "exited" /\ a \notin arrived \cup app_thread_map
    BY <2>1 DEF FreedInv
  <2>3. Numbered(a) \subseteq stream_log
    BY <2>1, <2>2, CountedIsLogged
  <2>4. ASSUME NEW p \in Place, p[1] # "logged", NEW t \in Contents(p) PROVE t[1] # a
    <3>1. t \notin stream_log
      <4>1. Contents(p) \cap Contents(<<"logged", 0>>) = {}
        BY <2>1, <2>4, ContentsAt DEF EveryTaskInOnePlace
      <4> QED
        BY <4>1, ContentsAt
    <3>2. t \in UNION {Numbered(b) : b \in Apps}
      BY <2>1 DEF EveryTaskInOnePlace
    <3> QED
      BY <2>3, <3>1, <3>2, NumberedIs
  <2>5. \A p \in ToSet(poison_queue) : a \notin {p.thread, p.app}
    BY <2>1, ConstantsAssumption DEF PillInv
  <2> QED
    BY <2>2, <2>4, <2>5
<1>2. IInv => FreedIsUnreferenced
  BY <1>1 DEF FreedIsUnreferenced
<1> QED
  BY <1>2, DaemonInvariance, PTL

\* WaitsEnd: for any number of PEs, applications and calls, whatever the daemon is
\* killed in, the main thread waits only for workers and threads that can do
\* without it what it waits for.
THEOREM MainThreadIsNotBlocked == Spec => []WaitsEnd
<1>1. ASSUME IInv PROVE WaitsEnd
  <2>0. /\ CoreInv /\ PillInv /\ WayOutInv
        /\ wpc \in [PE -> {"poll", "run", "signalled", "exited"}]
        /\ resource_state \in [PE -> {0, 1, 3}]
        /\ poison_queue \in Seq(Pill) /\ idx \in Nat /\ cnt \in Nat
    BY <1>1 DEF IInv, CoreInv, TypeOK, WorkerTypeOK, QueueTypeOK, MainTypeOK
  <2>1. ASSUME NEW i \in DOMAIN poison_queue
        PROVE  apc[poison_queue[i].thread] \in {"pilled", "exited"}
    <3>1. poison_queue[i] \in ToSet(poison_queue)
      BY DEF ToSet
    <3> QED
      BY <2>0, <3>1 DEF PillInv
  <2>2. \A w \in PE : /\ wpc[w] \in {"run", "signalled"} <=> resource_state[w] = 1
                      /\ wpc[w] = "exited" => resource_state[w] = 3
                      /\ resource_state[w] = 3 => todo[w] = <<>>
    BY <2>0 DEF CoreInv, WorkerInv
  <2>3. ASSUME mpc = "quiesce", ~Quiet(idx)
        PROVE  wpc[idx] \in {"run", "signalled"} \/ (wpc[idx] = "poll" /\ todo[idx] # <<>>)
    <3>1. idx \in PE
      BY <2>0, <2>3 DEF CoreInv, LoopInv
    <3>2. resource_state[idx] # 3
      <4>1. resource_state[idx] = 3 <=> idx < idx
        BY <2>0, <2>3, <3>1 DEF WayOutInv
      <4> QED
        BY <2>0, <4>1
    <3>3. todo[idx] # <<>> \/ resource_state[idx] # 0
      BY <2>3 DEF Quiet
    <3>4. wpc[idx] \in {"poll", "run", "signalled", "exited"} /\ resource_state[idx] \in {0, 1, 3}
      BY <2>0, <3>1
    <3> QED
      BY <2>2, <3>1, <3>2, <3>3, <3>4
  <2>4. ASSUME mpc = "joinpills", idx <= cnt PROVE idx \in DOMAIN poison_queue
    <3>1. cnt <= Len(poison_queue)
      BY <2>0, <2>4 DEF WayOutInv
    <3>2. DOMAIN poison_queue = 1..Len(poison_queue) /\ Len(poison_queue) \in Nat
      BY <2>0, LenProperties
    <3>3. idx > 0
      BY <2>0 DEF CoreInv, LoopInv
    <3> QED
      BY <2>0, <2>4, <3>1, <3>2, <3>3
  <2>5. ASSUME mpc = "joinworkers", NEW w \in PE
        PROVE  \/ wpc[w] = "exited"
               \/ wpc[w] = "poll" /\ todo[w] = <<>> /\ resource_state[w] = 3
    <3>1. resource_state[w] = 3
      BY <2>0, <2>5 DEF WayOutInv
    <3>2. wpc[w] \in {"poll", "run", "signalled", "exited"}
      BY <2>0
    <3> QED
      BY <2>2, <3>1, <3>2
  <2> QED
    BY <2>1, <2>3, <2>4, <2>5 DEF WaitsEnd
<1> QED
  BY <1>1, DaemonInvariance, PTL

\* NoNullDereference: where threads reach their first call after they were
\* registered, no application and no pill is ever looked up in vain, on the way
\* out of the daemon included.
THEOREM LateThreadsAreKnown == Spec => []NoNullDereference
<1>1. IInv => NoNullDereference
  BY DEF IInv, LateInv, NoNullDereference
<1> QED
  BY <1>1, DaemonInvariance, PTL

-----------------------------------------------------------------------------
(* Without queueing a PE has one task.                                     *)

\* The task in a worker's hands counts too.
Held(w) == IF task[w] = NoTask THEN 0 ELSE 1

\* The tasks a PE has: queued, held by its worker, handed back.
Load(w) == Len(todo[w]) + Len(completed[w]) + Held(w)

\* A task goes to an idle PE, and from its queue to its worker to its
\* completed_task_dequeue: the PE's load grows by one from zero, or not at all.
LEMMA LoadStep ==
    ASSUME CoreInv, ~Queueing, [Next]_vars, NEW w \in PE, Load(w) <= 1
    PROVE  Load(w)' <= 1
<1> USE DEF workerVars
<1>0. /\ todo \in [PE -> Seq(Task)] /\ completed \in [PE -> Seq(Task)]
      /\ task \in [PE -> Task \cup {NoTask}] /\ ready_queue \in Seq(Task)
  BY DEF CoreInv, TypeOK, WorkerTypeOK, QueueTypeOK
<1>1. PICK x \in Nat, y \in Nat, h \in 0..1, g \in 0..1 :
        x = Len(todo[w]) /\ y = Len(completed[w]) /\ h = Held(w) /\ g = Held(w)'
  <2>1. Len(todo[w]) \in Nat /\ Len(completed[w]) \in Nat
    BY <1>0, LenProperties
  <2>2. Held(w) \in 0..1
    BY DEF Held
  <2>3. Held(w)' \in 0..1
    BY DEF Held
  <2> QED
    BY <2>1, <2>2, <2>3
<1>9. x + y + h <= 1
  BY <1>1 DEF Load
<1>2. ASSUME UNCHANGED <<todo, completed, task>> PROVE Load(w)' <= 1
  BY <1>2 DEF Load, Held
<1>3. ASSUME NEW i \in DOMAIN ready_queue, NEW v \in PE, AssignTask(i, v)
      PROVE  Load(w)' <= 1
  <2>1. /\ Idle(v) /\ todo' = [todo EXCEPT ![v] = Append(@, ready_queue[i])]
        /\ UNCHANGED <<completed, task>>
    BY <1>3 DEF AssignTask
  <2>2. CASE v = w
    <3>1. todo[w] = <<>> /\ completed[w] = <<>> /\ resource_state[w] = 0
      BY <2>1, <2>2 DEF Idle
    <3>2. task[w] = NoTask
      BY <3>1 DEF CoreInv, WorkerInv
    <3>3. ready_queue[i] \in Task
      BY <1>0, ElementOfSeq, LenProperties
    <3>4. Len(todo'[w]) = Len(todo[w]) + 1
      BY <1>0, <2>1, <2>2, <3>3, AppendType
    <3>5. Len(<<>>) = 0
      OBVIOUS
    <3> QED
      BY <2>1, <3>1, <3>2, <3>4, <3>5 DEF Load, Held
  <2>3. CASE v # w
    BY <1>0, <2>1, <2>3 DEF Load, Held
  <2> QED
    BY <2>2, <2>3
<1>4. CASE PopCompleted
  <2>1. PICK v \in PE : v = idx
    BY <1>4 DEF PopCompleted, CoreInv, LoopInv
  <2>2. /\ completed' = [completed EXCEPT ![v] = Tail(@)] /\ UNCHANGED <<todo, task>>
        /\ completed[v] # <<>>
    BY <1>0, <1>4, <2>1 DEF PopCompleted, CoreInv, LoopInv
  <2>3. Len(Tail(completed[v])) = Len(completed[v]) - 1
    BY <1>0, <2>2, TailType
  <2>4. Len(todo'[w]) = x /\ Held(w)' = h
    BY <1>1, <2>2 DEF Held
  <2>5. CASE v = w
    <3>1. Load(w)' = x + (y - 1) + h
      BY <1>0, <1>1, <2>2, <2>3, <2>4, <2>5 DEF Load
    <3> QED
      BY <1>9, <3>1
  <2>6. CASE v # w
    BY <1>0, <2>2, <2>6 DEF Load, Held
  <2> QED
    BY <2>5, <2>6
<1>5. ASSUME NEW v \in PE, TakeTask(v) PROVE Load(w)' <= 1
  <2>1. /\ task' = [task EXCEPT ![v] = Head(todo[v])] /\ wpc[v] = "poll"
        /\ todo' = [todo EXCEPT ![v] = Tail(@)] /\ UNCHANGED completed
        /\ todo[v] # <<>>
    BY <1>5 DEF TakeTask
  <2>2. CASE v = w
    <3>1. task[w] = NoTask
      BY <2>1, <2>2 DEF CoreInv, WorkerInv
    <3>2. Len(todo'[w]) = Len(todo[w]) - 1
      BY <1>0, <2>1, <2>2, TailType
    <3>3. h = 0 /\ Load(w)' = (x - 1) + y + g
      BY <1>1, <2>1, <3>1, <3>2 DEF Load, Held
    <3> QED
      BY <1>9, <3>3
  <2>3. CASE v # w
    BY <1>0, <2>1, <2>3 DEF Load, Held
  <2> QED
    BY <2>2, <2>3
<1>6. ASSUME NEW v \in PE, HandBack(v) PROVE Load(w)' <= 1
  <2>1. /\ task' = [task EXCEPT ![v] = NoTask] /\ wpc[v] = "signalled"
        /\ completed' = [completed EXCEPT ![v] = Append(@, task[v])] /\ UNCHANGED todo
    BY <1>6 DEF HandBack
  <2>2. CASE v = w
    <3>1. task[w] # NoTask
      BY <2>1, <2>2 DEF CoreInv, WorkerInv
    <3>2. Len(completed'[w]) = Len(completed[w]) + 1
      BY <1>0, <2>1, <2>2, <3>1, AppendType
    <3>3. h = 1 /\ Held(w)' = 0
      BY <1>0, <1>1, <2>1, <2>2, <3>1 DEF Held
    <3>4. Load(w)' = x + (y + 1) + 0
      BY <1>1, <2>1, <3>2, <3>3 DEF Load
    <3> QED
      BY <1>9, <3>3, <3>4
  <2>3. CASE v # w
    BY <1>0, <2>1, <2>3 DEF Load, Held
  <2> QED
    BY <2>2, <2>3
<1>7. ASSUME NEW a \in Apps, NumberTask(a) \/ PushReady(a)
      PROVE  UNCHANGED <<todo, completed, task>>
  BY <1>7 DEF NumberTask, PushReady
<1>8. UNCHANGED taskVars => UNCHANGED <<todo, completed, task>>
  BY DEF taskVars
<1> QED
  BY <1>2, <1>3, <1>4, <1>5, <1>6, <1>7, <1>8, WhoMovesTasks

\* OneTaskPerPE: without queueing no PE ever has a second task, however many
\* PEs and applications there are, because what the scheduler reads of a PE can
\* only become less before it assigns.
THEOREM PEsHaveOneTask == Spec => []OneTaskPerPE
<1>1. OneTaskPerPE <=> Queueing \/ \A w \in PE : Load(w) <= 1
  BY DEF OneTaskPerPE, Load, Held
<1>2. OneTaskPerPE' <=> Queueing \/ \A w \in PE : Load(w)' <= 1
  BY DEF OneTaskPerPE, Load, Held
<1>3. Init => OneTaskPerPE
  BY DEF Init, OneTaskPerPE
<1>4. CoreInv /\ OneTaskPerPE /\ [Next]_vars => OneTaskPerPE'
  BY <1>1, <1>2, LoadStep
<1> QED
  BY <1>3, <1>4, CoreInvariance, PTL DEF Spec

-----------------------------------------------------------------------------
(* Exit When Idle.                                                         *)

\* While the loop runs, every application that was launched is in
\* arrived_nonstreaming_apps or was freed; once an idle daemon left the loop,
\* each of them was freed.
ExitInv ==
    /\ Up /\ ~Exiting => \A a \in Apps : apc[a] = "unborn" \/ a \in arrived \cup freed
    /\ Exiting /\ cmd # "CLOSED" => \A a \in Apps : apc[a] = "unborn" \/ a \in freed

\* The main thread stays in its loop, or out of it, and a removed slot removed.
StaysOnCourse ==
    /\ Exiting' => Exiting
    /\ Up' /\ ~Exiting' => Up /\ ~Exiting
    /\ cmd = "CLOSED" => cmd' = "CLOSED"

\* Only BeginExit leaves the loop, and arrived_nonstreaming_apps loses an
\* application only to the sweep or on the way out.
LEMMA WhoExits ==
    ASSUME [Next]_vars
    PROVE  \/ BeginExit \/ ReapApp
           \/ StaysOnCourse /\ (Exiting' \/ arrived \subseteq arrived')
<1> USE DEF StaysOnCourse, Up, Exiting, vars, mainVars, slotVars, phaseVars,
            arriveVars, otherThanPhase
<1>1. CASE Client
  BY <1>1 DEF Client, SubDag, KillDaemon
<1>2. CASE Main
  <2>1. ASSUME NEW a \in Apps, LaunchApp(a) \/ RegisterApp(a)
        PROVE  StaysOnCourse /\ arrived \subseteq arrived'
    BY <2>1 DEF LaunchApp, RegisterApp
  <2>2. ASSUME NEW i \in DOMAIN ready_queue, NEW w \in PE, AssignTask(i, w)
        PROVE  StaysOnCourse /\ arrived \subseteq arrived'
    BY <2>2 DEF AssignTask
  <2>3. \/ ReceiveApps \/ ReceiveNothing \/ ArriveApps \/ BeginScheduling
        \/ EndScheduling
        => StaysOnCourse /\ arrived \subseteq arrived'
    BY DEF ReceiveApps, ReceiveNothing, ArriveApps, BeginScheduling, EndScheduling
  <2>4. \/ CountCompleted \/ PopCompleted \/ BeginSweep
        \/ KeepPill \/ EndSweep \/ ReadNullPill
        => StaysOnCourse /\ arrived \subseteq arrived'
    BY DEF CountCompleted, PopCompleted, BeginSweep, KeepPill, EndSweep, ReadNullPill
  <2>5. QuiescePE \/ RetirePE \/ JoinPill \/ KickOutApps \/ JoinWorkers
        => StaysOnCourse /\ Exiting'
    BY DEF QuiescePE, RetirePE, JoinPill, KickOutApps, JoinWorkers
  <2> HIDE DEF StaysOnCourse, Exiting, Up
  <2> QED
    BY <1>2, <2>1, <2>2, <2>3, <2>4, <2>5 DEF Main
<1>3. ASSUME NEW w \in PE, Worker(w) PROVE StaysOnCourse /\ arrived \subseteq arrived'
  BY <1>3 DEF Worker, TakeTask, SignalBarrier, HandBack, StopWorker
<1>4. ASSUME NEW a \in Apps, BecomeDue(a) \/ AppThread(a) \/ WakeSpuriously(a)
      PROVE  StaysOnCourse /\ arrived \subseteq arrived'
  BY <1>4 DEF BecomeDue, AppThread, WakeSpuriously, OpenBarrier, NumberTask,
     PushReady, CheckBarrier, InjectPill, ExitThread
<1>5. CASE Gone \/ UNCHANGED vars
  BY <1>5 DEF Gone
<1> QED
  BY <1>1, <1>2, <1>3, <1>4, <1>5 DEF Next

\* An idle daemon finds the list empty when it leaves; nothing is launched
\* after that.
LEMMA ExitStep ==
    ASSUME CoreInv, EveryTaskInOnePlace, PillInv, ExitInv, [Next]_vars
    PROVE  ExitInv'
<1> DEFINE Kept == freed' = freed /\ \A a \in Apps : apc'[a] = "unborn" <=> apc[a] = "unborn"
<1>0. apc \in [Apps -> AppState]
  BY DEF CoreInv, TypeOK, CallTypeOK
<1>1. CASE BeginExit
  <2>1. Up /\ ~Exiting /\ Exiting' /\ UNCHANGED <<apc, freed, arrived>>
    BY <1>1 DEF BeginExit, Up, Exiting, arriveVars, threadVars, callVars
  <2>2. cmd' = "CLOSED" \/ arrived = {}
    BY <1>1 DEF BeginExit, ShouldExitEarly
  <2> QED
    BY <2>1, <2>2 DEF ExitInv
<1>2. CASE ReapApp
  <2> DEFINE b == poison_queue[idx].app
  <2>1. /\ mpc = "sweep" /\ UNCHANGED <<mpc, apc>>
        /\ arrived' = arrived \ {b} /\ freed' = freed \cup {b}
    BY <1>2 DEF ReapApp, phaseVars, callVars
  <2>2. Up /\ ~Exiting /\ ~Exiting'
    BY <2>1 DEF Up, Exiting
  <2> QED
    BY <2>1, <2>2 DEF ExitInv
<1>3. CASE StaysOnCourse /\ Kept /\ (Exiting' \/ arrived \subseteq arrived')
  BY <1>3 DEF ExitInv, StaysOnCourse
<1>4. ASSUME NEW a \in Apps, LaunchApp(a) PROVE ExitInv'
  <2>1. /\ a \in arrived /\ apc' = [apc EXCEPT ![a] = "main"]
        /\ UNCHANGED <<arrived, freed>>
    BY <1>4 DEF LaunchApp, arriveVars
  <2>2. Up /\ ~Exiting /\ ~Exiting'
    BY <1>4 DEF LaunchApp, Up, Exiting
  <2> QED
    BY <1>0, <2>1, <2>2 DEF ExitInv
<1>5. LifeStill => Kept
  BY DEF LifeStill
<1>6. SubDag \/ ReceiveApps \/ ArriveApps \/ PopCompleted => Kept
  BY DEF SubDag, ReceiveApps, ArriveApps, PopCompleted, threadVars, callVars
<1>7. ASSUME NEW a \in Apps,
             \/ BecomeDue(a) \/ RegisterApp(a) \/ InjectPill(a)
             \/ NumberTask(a) /\ a \in app_thread_map
      PROVE  Kept
  BY <1>0, <1>7 DEF BecomeDue, RegisterApp, InjectPill, MayCall, NumberTask,
     mainVars, threadVars, callVars
<1> HIDE DEF Kept
<1> QED
  BY <1>1, <1>2, <1>3, <1>4, <1>5, <1>6, <1>7, WhoMovesApps, WhoExits

\* Nothing is left of applications that never started or were freed.
LEMMA NothingLeft ==
    ASSUME IInv, FreedIsUnreferenced, \A a \in Apps : apc[a] = "unborn" \/ a \in freed
    PROVE  ready_queue = <<>> /\ poison_queue = <<>>
<1>0. /\ CoreInv /\ EveryTaskInOnePlace /\ ListInv /\ PillInv
      /\ ready_queue \in Seq(Task) /\ poison_queue \in Seq(Pill)
      /\ task_count \in [Apps -> Nat]
  BY DEF IInv, CoreInv, TypeOK, QueueTypeOK, CallTypeOK
<1>1. ASSUME ready_queue # <<>> PROVE FALSE
  <2> DEFINE t == ready_queue[1]
  <2>1. t \in ToSet(ready_queue)
    BY <1>0, <1>1 DEF ToSet
  <2>2. <<"ready", 0>> \in Place /\ t \in Contents(<<"ready", 0>>)
    BY <2>1, ContentsAt
  <2> HIDE DEF t
  <2>3. PICK a \in Apps : t \in Numbered(a)
    <3>1. UNION {Contents(p) : p \in Place} = UNION {Numbered(a) : a \in Apps}
      BY <1>0 DEF EveryTaskInOnePlace
    <3>2. t \in UNION {Contents(p) : p \in Place}
      BY <2>2
    <3>3. t \in UNION {Numbered(a) : a \in Apps}
      BY <3>1, <3>2, Zenon
    <3> QED
      BY <3>3
  <2>4. t[1] = a /\ task_count[a] # 0
    BY <1>0, <2>3 DEF Numbered
  <2>5. a \in freed
    BY <1>0, <2>4 DEF ListInv
  <2> QED
    BY <2>2, <2>4, <2>5 DEF FreedIsUnreferenced
<1>2. ASSUME poison_queue # <<>> PROVE FALSE
  <2> DEFINE p == poison_queue[1]
  <2>1. p \in ToSet(poison_queue) /\ p \in Pill
    BY <1>0, <1>2 DEF ToSet
  <2> HIDE DEF p
  <2>2. p.thread \in Apps /\ p.thread \notin freed /\ apc[p.thread] \in {"pilled", "exited"}
    BY <1>0, <2>1 DEF PillInv, Pill
  <2> QED
    BY <2>2
<1> QED
  BY <1>1, <1>2

\* IdleExitIsClean: whatever the number of applications, a daemon that exits
\* because it is idle has freed every application it started.
THEOREM IdleDaemonExitsClean == Spec => []IdleExitIsClean
<1>1. Init => ExitInv
  BY DEF Init, ExitInv, Exiting
<1>2. IInv /\ ExitInv /\ [Next]_vars => ExitInv'
  BY ExitStep DEF IInv, CoreInv
<1>3. IInv /\ FreedIsUnreferenced /\ ExitInv => IdleExitIsClean
  BY NothingLeft DEF ExitInv, IdleExitIsClean
<1> QED
  BY <1>1, <1>2, <1>3, DaemonInvariance, FreedAppsAreUnreferenced, PTL DEF Spec

-----------------------------------------------------------------------------
(* CedrRuntime implements KernelService.                                   *)


life == [a \in Apps |-> Life(a)]

\* The life of an application, by the state of its thread.
LEMMA LifeCases ==
    ASSUME NEW a \in Apps
    PROVE  /\ a \in freed => life[a] = "freed"
           /\ a \notin freed => /\ apc[a] = "unborn" => life[a] = "absent"
                                /\ apc[a] = "main" => life[a] = "computing"
                                /\ CallOpen(a) => life[a] = "waiting"
                                /\ apc[a] \in {"pilled", "exited"} => life[a] = "ended"
<1>1. life[a] = Life(a)
  BY DEF life
<1>2. a \in freed => Life(a) = "freed"
  BY DEF Life
<1>3. ASSUME a \notin freed, apc[a] = "unborn" PROVE Life(a) = "absent"
  BY <1>3 DEF Life, CallOpen
<1>4. ASSUME a \notin freed, apc[a] = "main" PROVE Life(a) = "computing"
  BY <1>4 DEF Life, CallOpen
<1>5. ASSUME a \notin freed, CallOpen(a) PROVE Life(a) = "waiting"
  BY <1>5 DEF Life, CallOpen
<1>6. ASSUME a \notin freed, apc[a] \in {"pilled", "exited"} PROVE Life(a) = "ended"
  BY <1>6 DEF Life, CallOpen
<1> QED
  BY <1>1, <1>2, <1>3, <1>4, <1>5, <1>6

\* The same after a step.
LEMMA LifeCasesNext ==
    ASSUME NEW a \in Apps
    PROVE  /\ a \in freed' => Life(a)' = "freed"
           /\ a \notin freed' => /\ apc'[a] = "unborn" => Life(a)' = "absent"
                                 /\ apc'[a] = "main" => Life(a)' = "computing"
                                 /\ CallOpen(a)' => Life(a)' = "waiting"
                                 /\ apc'[a] \in {"pilled", "exited"} => Life(a)' = "ended"
<1>2. a \in freed' => Life(a)' = "freed"
  BY DEF Life
<1>3. ASSUME a \notin freed', apc'[a] = "unborn" PROVE Life(a)' = "absent"
  BY <1>3 DEF Life, CallOpen
<1>4. ASSUME a \notin freed', apc'[a] = "main" PROVE Life(a)' = "computing"
  BY <1>4 DEF Life, CallOpen
<1>5. ASSUME a \notin freed', CallOpen(a)' PROVE Life(a)' = "waiting"
  BY <1>5 DEF Life, CallOpen
<1>6. ASSUME a \notin freed', apc'[a] \in {"pilled", "exited"} PROVE Life(a)' = "ended"
  BY <1>6 DEF Life, CallOpen
<1> QED
  BY <1>2, <1>3, <1>4, <1>5, <1>6

\* The table of lives.
LEMMA LifeIs == \A a \in Apps : life[a] = Life(a)
BY DEF life

\* The rest of the applications live on as they did.
LEMMA LifeFrame ==
    ASSUME NEW a \in Apps, apc[a] \in AppState,
           apc'[a] = apc[a], a \in freed' <=> a \in freed
    PROVE  Life(a)' = Life(a)
<1>1. CallOpen(a)' <=> CallOpen(a)
  BY DEF CallOpen
<1>2. apc[a] \in {"unborn", "main", "pilled", "exited"} \/ CallOpen(a)
  BY DEF AppState, CallOpen
<1> QED
  BY <1>1, <1>2, LifeIs, LifeCases, LifeCasesNext

\* A step that changes the life of one application only.
LEMMA LifeUpdate ==
    ASSUME NEW a \in Apps, NEW s,
           Life(a)' = s, \A b \in Apps : b # a => Life(b)' = Life(b)
    PROVE  life' = [life EXCEPT ![a] = s]
BY DEF life

\* A step that changes the life of none.
LEMMA LifeSame ==
    ASSUME \A a \in Apps : Life(a)' = Life(a)
    PROVE  life' = life
BY DEF life

\* The actions that the service sees; every other changes neither the threads
\* nor what was numbered and freed, or lets a thread go on within its call or
\* after its pill.
Unseen ==
    /\ UNCHANGED <<task_count, freed>>
    /\ \A a \in Apps : \/ apc'[a] = apc[a]
                       \/ CallOpen(a) /\ CallOpen(a)'
                       \/ apc[a] = "pilled" /\ apc'[a] = "exited"

\* Seven kinds of steps are seen by the service.
LEMMA WhoIsSeen ==
    ASSUME CoreInv, [Next]_vars
    PROVE  \/ Unseen
           \/ ReapApp
           \/ \E w \in PE : SignalBarrier(w)
           \/ \E a \in Apps : \/ LaunchApp(a)
                              \/ \E n \in 1..MaxBatch : OpenBarrier(a, n)
                              \/ NumberTask(a) /\ a \in app_thread_map
                              \/ CheckBarrier(a) /\ BatchDone(a)
                              \/ InjectPill(a)
<1> USE DEF Unseen, vars, mainVars, threadVars, callVars, otherThanPhase
<1>0. apc \in [Apps -> AppState]
  BY DEF CoreInv, TypeOK, CallTypeOK
<1>1. CASE Client
  BY <1>1 DEF Client, SubDag, KillDaemon
<1>2. CASE Main
  <2>1. ASSUME NEW a \in Apps, RegisterApp(a) PROVE Unseen
    BY <2>1 DEF RegisterApp
  <2>2. ASSUME NEW i \in DOMAIN ready_queue, NEW w \in PE, AssignTask(i, w) PROVE Unseen
    BY <2>2 DEF AssignTask
  <2>3. \/ ReceiveApps \/ ReceiveNothing \/ BeginExit \/ ArriveApps \/ BeginScheduling
        \/ EndScheduling \/ CountCompleted \/ PopCompleted \/ BeginSweep \/ KeepPill
        \/ EndSweep \/ ReadNullPill \/ QuiescePE \/ RetirePE \/ JoinPill \/ KickOutApps
        \/ JoinWorkers
        => UNCHANGED <<callVars, freed>>
    BY DEF ReceiveApps, ReceiveNothing, BeginExit, ArriveApps, BeginScheduling,
      EndScheduling, CountCompleted, PopCompleted, BeginSweep, KeepPill, EndSweep,
      ReadNullPill, QuiescePE, RetirePE, JoinPill, KickOutApps, JoinWorkers
  <2>4. UNCHANGED <<callVars, freed>> => Unseen
    OBVIOUS
  <2> HIDE DEF Unseen, callVars
  <2> QED
    BY <1>2, <2>1, <2>2, <2>3, <2>4 DEF Main
<1>3. ASSUME NEW w \in PE, Worker(w) PROVE Unseen \/ SignalBarrier(w)
  BY <1>3 DEF Worker, TakeTask, HandBack, StopWorker
<1>4. ASSUME NEW a \in Apps, BecomeDue(a) \/ AppThread(a) \/ WakeSpuriously(a)
      PROVE  \/ Unseen
             \/ \E n \in 1..MaxBatch : OpenBarrier(a, n)
             \/ NumberTask(a) /\ a \in app_thread_map
             \/ CheckBarrier(a) /\ BatchDone(a)
             \/ InjectPill(a)
  <2> USE DEF CallOpen
  <2>1. BecomeDue(a) => Unseen
    BY DEF BecomeDue
  <2>2. WakeSpuriously(a) => Unseen
    BY <1>0 DEF WakeSpuriously
  <2>3. NumberTask(a) => Unseen \/ a \in app_thread_map
    BY DEF NumberTask
  <2>4. PushReady(a) => Unseen
    BY <1>0 DEF PushReady
  <2>5. CheckBarrier(a) => Unseen \/ BatchDone(a)
    BY <1>0 DEF CheckBarrier
  <2>6. ExitThread(a) => Unseen
    BY <1>0 DEF ExitThread
  <2> QED
    BY <1>4, <2>1, <2>2, <2>3, <2>4, <2>5, <2>6 DEF AppThread
<1>5. CASE Gone \/ UNCHANGED vars
  BY <1>5 DEF Gone
<1> QED
  BY <1>1, <1>2, <1>3, <1>4, <1>5 DEF Next

\* A call that returns has had all of its application's kernels run.
LEMMA ReturnedIsExecuted ==
    ASSUME CoreInv, EveryTaskInOnePlace, BarrierInv,
           NEW a \in Apps, CheckBarrier(a), BatchDone(a)
    PROVE  CallOpen(a) /\ Numbered(a) \subseteq Signalled
<1>0. first \in [Apps -> Nat] /\ task_count \in [Apps -> Nat]
  BY DEF CoreInv, TypeOK, CallTypeOK
<1>1. CallOpen(a) /\ left[a] = 0
  BY DEF CheckBarrier, CallOpen, CoreInv, BatchInv
<1>2. Batch(a) \subseteq Signalled
  BY <1>1, FullBarrier
<1>3. \A t \in Numbered(a) : t[2] >= first[a] => t \in Batch(a)
  BY <1>0 DEF Numbered, Batch
<1> QED
  BY <1>1, <1>2, <1>3 DEF BarrierInv

\* The daemon starts as the service does.
LEMMA ServiceInit == Init => Service!Init
<1> SUFFICES ASSUME Init PROVE Service!Init
  OBVIOUS
<1>1. \A a \in Apps : Life(a) = "absent"
  BY DEF Init, Life, CallOpen
<1>2. Signalled = {}
  <2>1. ToSet(<<>>) = {}
    BY DEF ToSet
  <2>2. \A w \in PE : wpc[w] = "poll" /\ completed[w] = <<>>
    BY DEF Init
  <2>3. \A x : x \notin Signalled
    BY <2>1, <2>2, SignalledIs DEF Init
  <2> QED
    BY <2>3
<1> QED
  BY <1>1, <1>2 DEF Init, Service!Init

\* Every step of the daemon is a step of the service or none.
LEMMA ServiceStep ==
    ASSUME IInv, IInv', [Next]_vars
    PROVE  [Service!Next]_(Service!sVars)
<1>0. /\ CoreInv /\ CoreInv' /\ EveryTaskInOnePlace /\ BarrierInv /\ LogInv
      /\ ListInv /\ FreedInv /\ PillInv /\ FreedInv'
      /\ apc \in [Apps -> AppState] /\ task_count \in [Apps -> Nat]
      /\ \A b \in freed : apc[b] = "exited"
  BY DEF IInv, CoreInv, TypeOK, CallTypeOK, FreedInv
<1> DEFINE Same == UNCHANGED <<life, task_count, Signalled>>
<1>1. Same => [Service!Next]_(Service!sVars)
  BY DEF life, Service!sVars
<1>2. CASE Unseen /\ Signalled' = Signalled
  <2>1. ASSUME NEW a \in Apps PROVE Life(a)' = Life(a)
    <3>1. CASE apc'[a] = apc[a]
      BY <1>0, <1>2, <3>1, LifeFrame DEF Unseen
    <3>2. CASE CallOpen(a) /\ CallOpen(a)'
      BY <1>0, <1>2, <3>2, LifeIs, LifeCases, LifeCasesNext DEF Unseen
    <3>3. CASE apc[a] = "pilled" /\ apc'[a] = "exited"
      BY <1>0, <1>2, <3>3, LifeIs, LifeCases, LifeCasesNext DEF Unseen
    <3> QED
      BY <1>2, <3>1, <3>2, <3>3 DEF Unseen
  <2> QED
    BY <1>1, <1>2, <2>1, LifeSame DEF Unseen
<1>3. ASSUME NEW a \in Apps, LaunchApp(a), Signalled' = Signalled
      PROVE  Service!Start(a)
  <2>1. apc[a] = "unborn" /\ apc' = [apc EXCEPT ![a] = "main"] /\ UNCHANGED <<freed, task_count>>
    BY <1>0, <1>3 DEF LaunchApp, CoreInv, StartInv
  <2>2. life[a] = "absent"
    BY <1>0, <2>1, LifeCases
  <2>3. Life(a)' = "computing" /\ \A b \in Apps : b # a => Life(b)' = Life(b)
    BY <1>0, <2>1, LifeCasesNext, LifeFrame
  <2> QED
    BY <1>3, <2>1, <2>2, <2>3, LifeUpdate DEF Service!Start, life
<1>4. ASSUME NEW a \in Apps, NEW n \in 1..MaxBatch, OpenBarrier(a, n), Signalled' = Signalled
      PROVE  Service!Enter(a)
  <2>1. /\ apc[a] = "main" /\ apc' = [apc EXCEPT ![a] = "call"]
        /\ UNCHANGED <<freed, task_count>>
    BY <1>4 DEF OpenBarrier, MayCall, mainVars, threadVars
  <2>2. life[a] = "computing" /\ CallOpen(a)'
    BY <1>0, <2>1, LifeCases DEF CallOpen
  <2>3. Life(a)' = "waiting" /\ \A b \in Apps : b # a => Life(b)' = Life(b)
    BY <1>0, <2>1, <2>2, LifeCasesNext, LifeFrame
  <2> QED
    BY <1>4, <2>1, <2>2, <2>3, LifeUpdate DEF Service!Enter, life
<1>5. ASSUME NEW a \in Apps, NumberTask(a), a \in app_thread_map, Signalled' = Signalled
      PROVE  Service!Issue(a)
  <2>1. /\ apc[a] = "call" /\ apc' = [apc EXCEPT ![a] = "push"]
        /\ task_count' = [task_count EXCEPT ![a] = @ + 1]
        /\ UNCHANGED freed
    BY <1>5 DEF NumberTask, threadVars
  <2>2. CallOpen(a) /\ CallOpen(a)' /\ a \notin freed
    BY <1>0, <2>1 DEF CallOpen
  <2>3. life[a] = "waiting"
    BY <1>0, <2>2, LifeCases
  <2>4. \A b \in Apps : Life(b)' = Life(b)
    <3>1. Life(a)' = Life(a)
      BY <1>0, <2>1, <2>2, LifeIs, LifeCases, LifeCasesNext
    <3>2. \A b \in Apps : b # a => Life(b)' = Life(b)
      BY <1>0, <2>1, LifeFrame
    <3> QED
      BY <3>1, <3>2
  <2> QED
    BY <1>5, <2>1, <2>3, <2>4, LifeSame DEF Service!Issue, life
<1>6. ASSUME NEW w \in PE, SignalBarrier(w), Signalled' = Signalled \cup {task[w]}
      PROVE  \E a \in Apps : \E k \in 0..(task_count[a] - 1) : Service!Execute(<<a, k>>)
  <2> DEFINE t == task[w]
             a == t[1]
  <2>1. a \in Apps /\ t \in Numbered(a) /\ t \notin Signalled
    BY <1>0, <1>6, RunningUnsignalled DEF SignalBarrier
  <2>2. t = <<a, t[2]>> /\ t[2] \in 0..(task_count[a] - 1)
    BY <2>1, NumberedIs
  <2>3. /\ apc' = [apc EXCEPT ![a] = IF @ = "asleep" THEN "woken" ELSE @]
        /\ UNCHANGED <<freed, task_count>>
    BY <1>6 DEF SignalBarrier, mainVars, threadVars
  <2>4. CallOpen(a) /\ a \notin freed
    BY <1>0, <2>1 DEF BarrierInv, CallOpen
  <2>5. \A b \in Apps : apc'[b] = apc[b] \/ (CallOpen(b) /\ CallOpen(b)')
    BY <1>0, <2>1, <2>3 DEF CallOpen
  <2>6. life[a] = "waiting"
    BY <1>0, <2>1, <2>4, LifeCases
  <2>7. ASSUME NEW b \in Apps PROVE Life(b)' = Life(b)
    <3>1. CASE apc'[b] = apc[b]
      BY <1>0, <2>3, <3>1, LifeFrame
    <3>2. CASE CallOpen(b) /\ CallOpen(b)'
      BY <1>0, <2>3, <3>2, LifeIs, LifeCases, LifeCasesNext DEF CallOpen
    <3> QED
      BY <2>5, <3>1, <3>2
  <2>8. life' = life
    BY <2>7, LifeSame
  <2> HIDE DEF a, t
  <2>9. Service!Execute(<<a, t[2]>>)
    BY <1>6, <2>1, <2>2, <2>3, <2>6, <2>8 DEF Service!Execute, life, t
  <2> QED
    BY <2>1, <2>2, <2>9
<1>7. ASSUME NEW a \in Apps, CheckBarrier(a), BatchDone(a), Signalled' = Signalled
      PROVE  Service!Return(a)
  <2>1. CallOpen(a) /\ Numbered(a) \subseteq Signalled
    BY <1>0, <1>7, ReturnedIsExecuted
  <2>2. apc' = [apc EXCEPT ![a] = "main"] /\ UNCHANGED <<freed, task_count>>
    BY <1>7 DEF CheckBarrier, mainVars, threadVars
  <2>3. a \notin freed /\ life[a] = "waiting"
    BY <1>0, <2>1, LifeCases DEF CallOpen
  <2>4. Life(a)' = "computing" /\ \A b \in Apps : b # a => Life(b)' = Life(b)
    BY <1>0, <2>2, <2>3, LifeCasesNext, LifeFrame
  <2>5. \A k \in 0..(task_count[a] - 1) : <<a, k>> \in Signalled
    BY <2>1 DEF Numbered
  <2> QED
    BY <1>7, <2>2, <2>3, <2>4, <2>5, LifeUpdate DEF Service!Return, life
<1>8. ASSUME NEW a \in Apps, InjectPill(a), Signalled' = Signalled
      PROVE  Service!End(a)
  <2>1. /\ apc[a] = "main" /\ apc' = [apc EXCEPT ![a] = "pilled"]
        /\ UNCHANGED <<freed, task_count>>
    BY <1>8 DEF InjectPill, MayCall, mainVars, threadVars
  <2>2. life[a] = "computing" /\ a \notin freed
    BY <1>0, <2>1, LifeCases
  <2>3. Life(a)' = "ended" /\ \A b \in Apps : b # a => Life(b)' = Life(b)
    BY <1>0, <2>1, <2>2, LifeCasesNext, LifeFrame
  <2> QED
    BY <1>8, <2>1, <2>2, <2>3, LifeUpdate DEF Service!End, life
<1>9. ASSUME ReapApp, Signalled' = Signalled
      PROVE  \E a \in Apps : Service!Free(a)
  <2> DEFINE p == poison_queue[idx]
             a == p.app
  <2>1. p \in ToSet(poison_queue) /\ a = p.thread /\ a \in Apps
    BY <1>0, <1>9, ReapedPill
  <2>2. apc[a] = "exited" /\ freed' = freed \cup {a} /\ UNCHANGED <<apc, task_count>>
    BY <1>9, <2>1 DEF ReapApp, callVars
  <2>3. a \notin freed
    BY <1>0, <2>1 DEF PillInv
  <2> HIDE DEF p, a
  <2>4. life[a] = "ended"
    BY <1>0, <2>1, <2>2, <2>3, LifeCases
  <2>5. PICK b \in Apps : b = a
    BY <2>1
  <2>6. Life(b)' = "freed" /\ \A c \in Apps : c # b => Life(c)' = Life(c)
    BY <1>0, <2>2, <2>5, LifeCasesNext, LifeFrame
  <2>7. Service!Free(b)
    BY <1>9, <2>2, <2>4, <2>5, <2>6, LifeUpdate DEF Service!Free, life
  <2> QED
    BY <2>7
<1>10. Signalled' = Signalled \/ \E w \in PE : SignalBarrier(w) /\ Signalled' = Signalled \cup {task[w]}
  BY <1>0, SignalledStep
<1>11. ASSUME NEW w \in PE, SignalBarrier(w) PROVE Signalled' = Signalled \cup {task[w]}
  <2>1. wpc' = [wpc EXCEPT ![w] = "signalled"] /\ UNCHANGED <<task, completed, stream_log>>
    BY <1>11 DEF SignalBarrier, mainVars, logVars
  <2>2. \A v \in PE : wpc'[v] = "signalled" <=> wpc[v] = "signalled" \/ v = w
    BY <1>0, <2>1 DEF CoreInv, TypeOK, WorkerTypeOK
  <2>3. \A x : x \in Signalled' <=> x \in Signalled \/ x = task[w]
    BY <2>1, <2>2, SignalledIs, SignalledNext
  <2> QED
    BY <2>3
<1>12. [Service!Next]_(Service!sVars) \/ (Signalled' = Signalled /\ ~\E w \in PE : SignalBarrier(w))
  BY <1>6, <1>10, <1>11 DEF Service!Next
<1> QED
  BY <1>0, <1>2, <1>3, <1>4, <1>5, <1>7, <1>8, <1>9, <1>12, WhoIsSeen
     DEF Service!Next

\* ServiceSpec: the daemon runs every kernel exactly once and returns a call
\* only when its kernels have run, for any number of applications, PEs, calls.
THEOREM DaemonImplementsService == Spec => ServiceSpec
<1>1. IInv /\ IInv' /\ [Next]_vars => [Service!Next]_(Service!sVars)
  BY ServiceStep
<1> QED
  BY <1>1, ServiceInit, DaemonInvariance, PTL DEF Spec, ServiceSpec,
     Service!Spec

-----------------------------------------------------------------------------
(* CedrRuntime implements SchedRound.                                      *)

able == [t \in Task |-> CanRun[t[1]]]
pending == [w \in PE |-> Pending(w)]

phase ==
    CASE mpc = "schedule" -> "open"
      [] mpc = "dead" -> "dead"
      [] mpc = "crashed" -> "over"
      [] OTHER -> "rest"

\* The phase of a round, by the place of the main thread.
LEMMA PhaseIs ==
    /\ mpc = "schedule" => phase = "open"
    /\ mpc = "dead" => phase = "dead"
    /\ mpc = "crashed" => phase = "over"
    /\ mpc \notin {"schedule", "dead", "crashed"} => phase = "rest"
BY DEF phase

\* The same after a step.
LEMMA PhaseNext ==
    /\ mpc' = "schedule" => phase' = "open"
    /\ mpc' = "dead" => phase' = "dead"
    /\ mpc' = "crashed" => phase' = "over"
    /\ mpc' \notin {"schedule", "dead", "crashed"} => phase' = "rest"
BY DEF phase

\* What the scheduler reads of a PE tells whether all it was given is logged.
LEMMA IdleIsPending ==
    ASSUME CoreInv, mpc = "schedule", NEW w \in PE
    PROVE  Idle(w) <=> Pending(w) = {}
<1>1. todo[w] \in Seq(Task) /\ completed[w] \in Seq(Task) /\ resource_state[w] \in {0, 1, 3}
  BY DEF CoreInv, TypeOK, WorkerTypeOK
<1>2. /\ todo[w] = <<>> <=> ToSet(todo[w]) = {}
      /\ completed[w] = <<>> <=> ToSet(completed[w]) = {}
  BY <1>1, EmptyAsSet
<1>3. resource_state[w] # 3
  BY DEF CoreInv, WorkerInv, Exiting, Up
<1>4. resource_state[w] = 0 <=> task[w] = NoTask
  BY <1>1, <1>3 DEF CoreInv, WorkerInv
<1> QED
  BY <1>2, <1>4 DEF Idle, Pending

\* A ready task is not pending, nor is one that waits to be pushed.
LEMMA ReadyIsNotPending ==
    ASSUME EveryTaskInOnePlace, NEW w \in PE
    PROVE  Pending(w) \cap (ToSet(ready_queue) \cup Contents(<<"draft", 0>>)) = {}
<1>1. ASSUME NEW q \in Place, q = <<"ready", 0>> \/ q = <<"draft", 0>>
      PROVE  Pending(w) \cap Contents(q) = {}
  <2>1. \A p \in Place : p # q => Contents(p) \cap Contents(q) = {}
    BY DEF EveryTaskInOnePlace
  <2>2. /\ <<"todo", w>> \in Place \ {q}
        /\ <<"held", w>> \in Place \ {q}
        /\ <<"handed", w>> \in Place \ {q}
    BY <1>1, ContentsAt
  <2>3. /\ Contents(<<"todo", w>>) = ToSet(todo[w])
        /\ Contents(<<"held", w>>) = {task[w]} \ {NoTask}
        /\ Contents(<<"handed", w>>) = ToSet(completed[w])
    BY ContentsAt
  <2>4. /\ ToSet(todo[w]) \cap Contents(q) = {}
        /\ ({task[w]} \ {NoTask}) \cap Contents(q) = {}
        /\ ToSet(completed[w]) \cap Contents(q) = {}
    BY <2>1, <2>2, <2>3
  <2> QED
    BY <2>4 DEF Pending
<1> QED
  BY <1>1, ContentsAt

\* A step that changes what one PE has pending, or none.
LEMMA PendingSame ==
    ASSUME \A w \in PE : Pending(w)' = Pending(w)
    PROVE  pending' = pending
BY DEF pending, PE

LEMMA PendingUpdate ==
    ASSUME NEW v \in PE, NEW e, Pending(v)' = e,
           \A w \in PE : w # v => Pending(w)' = Pending(w)
    PROVE  pending' = [pending EXCEPT ![v] = e]
BY DEF pending, PE

\* Before the first round nothing is ready or pending.
LEMMA RoundInit == Init => Round!Init
<1> SUFFICES ASSUME Init PROVE Round!Init
  OBVIOUS
<1>1. ToSet(<<>>) = {}
  BY DEF ToSet
<1>2. \A w \in PE : Pending(w) = {}
  BY <1>1 DEF Init, Pending
<1>3. phase = "rest" /\ ~(mpc = "schedule" /\ cnt > 0)
  BY PhaseIs DEF Init
<1>4. Queueing \in BOOLEAN /\ ToSet(ready_queue) = {}
  BY <1>1, ConstantsAssumption DEF Init
<1> QED
  BY <1>2, <1>3, <1>4 DEF Round!Init, phase

\* A task leaves ready_queue for a PE that can run it and, without queueing, has
\* nothing to drain.
LEMMA AssignMaps ==
    ASSUME CoreInv, EveryTaskInOnePlace,
           NEW i \in DOMAIN ready_queue, NEW w \in PE, AssignTask(i, w)
    PROVE  Round!Give(ready_queue[i], w) /\ ready_queue[i] \in ToSet(ready_queue)
<1> DEFINE t == ready_queue[i]
<1>0. ready_queue \in Seq(Task) /\ todo \in [PE -> Seq(Task)] /\ cnt \in Nat
  BY DEF CoreInv, TypeOK, MainTypeOK, QueueTypeOK, WorkerTypeOK
<1>1. t \in Task
  BY <1>0, ElementOfSeq, LenProperties
<1>2. /\ mpc = "schedule" /\ mpc' = "schedule" /\ cnt' = cnt + 1
      /\ w \in CanRun[t[1]]
      /\ Queueing \/ Idle(w)
      /\ todo' = [todo EXCEPT ![w] = Append(@, t)]
      /\ ready_queue' = RemoveAt(ready_queue, i)
      /\ UNCHANGED <<task, completed>>
  BY DEF AssignTask
<1>3. t \in ToSet(ready_queue) /\ ToSet(ready_queue)' = ToSet(ready_queue) \ {t}
  BY <1>0, <1>2, RemoveAtSet DEF EveryTaskInOnePlace
<1>4. phase = "open" /\ phase' = "open"
  BY <1>2, PhaseIs, PhaseNext
<1>5. w \in able[t]
  BY <1>1, <1>2 DEF able
<1> HIDE DEF t
<1>6. Pending(w)' = Pending(w) \cup {t}
  <2>1. ToSet(todo'[w]) = ToSet(todo[w]) \cup {t}
    BY <1>0, <1>1, <1>2, AppendElements
  <2> QED
    BY <1>2, <2>1 DEF Pending
<1>7. \A v \in PE : v # w => Pending(v)' = Pending(v)
  BY <1>0, <1>2 DEF Pending
<1>8. pending' = [pending EXCEPT ![w] = @ \cup {t}]
  <2>1. pending[w] = Pending(w)
    BY DEF pending
  <2> QED
    BY <1>6, <1>7, <2>1, PendingUpdate
<1>9. Queueing \/ pending[w] = {}
  BY <1>2, IdleIsPending DEF pending
<1>10. (mpc = "schedule" /\ cnt > 0)' = TRUE
  BY <1>0, <1>2
<1>11. Round!Give(t, w)
  BY <1>3, <1>4, <1>5, <1>8, <1>9, <1>10
     DEF Round!Give, Round!Idle, phase, able, pending
<1> QED
  BY <1>3, <1>11 DEF t

\* A round that assigned something, or has nothing left, ends well; one that
\* assigned nothing found a PE taken, and ends the process.
LEMMA EndMaps ==
    ASSUME CoreInv, RoundInv, EndScheduling
    PROVE  Round!Close
<1>0. ready_queue \in Seq(Task) /\ cnt \in Nat
  BY DEF CoreInv, TypeOK, MainTypeOK, QueueTypeOK
<1>1. mpc = "schedule" /\ cnt' = 0 /\ UNCHANGED <<ready_queue, todo, task, completed>>
  BY DEF EndScheduling, otherThanPhase, queueVars, workerVars
<1>2. phase = "open" /\ pending' = pending
  <2>1. \A w \in PE : Pending(w)' = Pending(w)
    BY <1>1 DEF Pending
  <2> QED
    BY <1>1, <2>1, PhaseIs, PendingSame
<1>3. (mpc = "schedule" /\ cnt > 0)' = FALSE
  BY <1>1
<1>4. CASE mpc' = "drain" /\ cnt > 0 /\ (ready_queue = <<>> \/ ~Queueing)
  <2>1. phase' = "rest" /\ (mpc = "schedule" /\ cnt > 0) = TRUE
    BY <1>1, <1>4, PhaseNext
  <2>2. ToSet(ready_queue) = {} \/ ~Queueing
    BY <1>4 DEF ToSet
  <2> QED
    BY <1>1, <1>2, <1>3, <2>1, <2>2 DEF Round!Close, phase, pending
<1>5. CASE mpc' = "dead" /\ NothingAssigned
  <2>0. PICK i \in DOMAIN ready_queue : \E w \in CanRun[ready_queue[i][1]] : ~Idle(w)
    BY <1>5 DEF NothingAssigned
  <2>1. PICK w \in CanRun[ready_queue[i][1]] : ~Idle(w)
    BY <2>0
  <2> DEFINE t == ready_queue[i]
  <2>2. t \in ToSet(ready_queue) /\ t \in Task
    BY <1>0, ElementOfSeq, LenProperties DEF ToSet
  <2>3. w \in able[t] /\ w \in PE
    BY <2>2, ConstantsAssumption DEF able, Task
  <2>4. pending[w] # {}
    BY <1>1, <2>1, <2>3, IdleIsPending DEF pending
  <2> HIDE DEF t
  <2>5. Round!Blocked(t)
    BY <2>3, <2>4 DEF Round!Blocked, Round!Idle, able, pending
  <2>6. phase' = "dead" /\ (mpc = "schedule" /\ cnt > 0) = FALSE /\ ~Queueing
    BY <1>0, <1>5, PhaseNext DEF NothingAssigned
  <2> QED
    BY <1>1, <1>2, <1>3, <2>2, <2>5, <2>6 DEF Round!Close, phase, pending
<1>6. \/ mpc' = "drain" /\ (ready_queue = <<>> \/ (~Queueing /\ cnt > 0))
      \/ mpc' = "dead" /\ NothingAssigned
  BY DEF EndScheduling
<1>7. ready_queue = <<>> => cnt > 0
  BY <1>0, <1>1 DEF RoundInv
<1> QED
  BY <1>4, <1>5, <1>6, <1>7

\* Tasks become ready, and are drained, between the rounds only.
LEMMA BetweenMaps ==
    ASSUME EveryTaskInOnePlace,
           ToSet(ready_queue) \subseteq ToSet(ready_queue'),
           ToSet(ready_queue') \subseteq ToSet(ready_queue) \cup Contents(<<"draft", 0>>),
           \A w \in PE : Pending(w)' \subseteq Pending(w),
           ~(mpc = "schedule" /\ cnt > 0), ~(mpc = "schedule" /\ cnt > 0)'
    PROVE  Round!Between
<1>1. pending' = [w \in PE |-> pending[w] \cap pending'[w]]
  <2>1. \A w \in PE : Pending(w) \cap Pending(w)' = Pending(w)'
    OBVIOUS
  <2> QED
    BY <2>1 DEF pending, PE
<1>2. \A w \in PE : pending'[w] \cap ToSet(ready_queue') = {}
  BY ReadyIsNotPending DEF pending, PE
<1>3. (mpc = "schedule" /\ cnt > 0)' = (mpc = "schedule" /\ cnt > 0)
  OBVIOUS
<1> QED
  BY <1>1, <1>2, <1>3 DEF Round!Between, pending

\* The main thread calls performScheduling, or finds nothing to schedule.
LEMMA BeginMaps ==
    ASSUME CoreInv, EveryTaskInOnePlace, BeginScheduling
    PROVE  Round!Open \/ Round!Rest
<1>0. ready_queue \in Seq(Task)
  BY DEF CoreInv, TypeOK, QueueTypeOK
<1>1. /\ mpc = "launch" /\ cnt' = 0 /\ UNCHANGED <<ready_queue, todo, task, completed>>
      /\ mpc' = IF ready_queue = <<>> THEN "drain" ELSE "schedule"
  BY DEF BeginScheduling, otherThanPhase, queueVars, workerVars
<1>2. Round!Between
  <2>1. \A w \in PE : Pending(w)' = Pending(w)
    BY <1>1 DEF Pending
  <2>2. ~(mpc = "schedule" /\ cnt > 0) /\ ~(mpc = "schedule" /\ cnt > 0)'
    BY <1>1
  <2> QED
    BY <1>1, <2>1, <2>2, BetweenMaps
<1>3. phase = "rest"
  BY <1>1, PhaseIs
<1>4. CASE ready_queue = <<>>
  <2>1. phase' = "rest"
    BY <1>1, <1>4, PhaseNext
  <2> QED
    BY <1>2, <1>3, <2>1 DEF Round!Rest, phase
<1>5. CASE ready_queue # <<>>
  <2>1. phase' = "open"
    BY <1>1, <1>5, PhaseNext
  <2>2. ToSet(ready_queue') # {}
    BY <1>0, <1>1, <1>5, EmptyAsSet
  <2> QED
    BY <1>2, <1>3, <2>1, <2>2 DEF Round!Open, phase
<1> QED
  BY <1>4, <1>5

\* What was handed back is drained while no round is open.
LEMMA PopMaps ==
    ASSUME CoreInv, EveryTaskInOnePlace, PopCompleted
    PROVE  Round!Rest
<1>0. completed \in [PE -> Seq(Task)] /\ idx \in PE /\ completed[idx] # <<>>
  BY DEF PopCompleted, CoreInv, LoopInv, TypeOK, WorkerTypeOK
<1>1. /\ mpc = "pop" /\ mpc' \in {"pop", "drain"}
      /\ completed' = [completed EXCEPT ![idx] = Tail(@)]
      /\ UNCHANGED <<ready_queue, todo, task>>
  BY DEF PopCompleted, queueVars
<1>2. ASSUME NEW w \in PE PROVE Pending(w)' \subseteq Pending(w)
  <2>1. ToSet(completed'[w]) \subseteq ToSet(completed[w])
    <3>1. CASE w = idx
      BY <1>0, <1>1, <3>1, HeadAndTail
    <3>2. CASE w # idx
      BY <1>0, <1>1, <3>2
    <3> QED
      BY <3>1, <3>2
  <2> QED
    BY <1>1, <2>1 DEF Pending
<1>3. Round!Between
  <2>1. ~(mpc = "schedule" /\ cnt > 0) /\ ~(mpc = "schedule" /\ cnt > 0)'
    BY <1>1
  <2> QED
    BY <1>1, <1>2, <2>1, BetweenMaps
<1>4. phase = "rest" /\ phase' = "rest"
  BY <1>1, PhaseIs, PhaseNext
<1> QED
  BY <1>3, <1>4 DEF Round!Rest, phase

\* enqueue_kernel gets ready_queue_mutex while no round is open.
LEMMA PushMaps ==
    ASSUME CoreInv, EveryTaskInOnePlace, NEW a \in Apps, PushReady(a)
    PROVE  Round!Rest
<1> DEFINE t == <<a, task_count[a] - 1>>
<1>0. ready_queue \in Seq(Task) /\ task_count \in [Apps -> Nat]
  BY DEF CoreInv, TypeOK, QueueTypeOK, CallTypeOK
<1>1. /\ mpc \notin {"schedule", "dead", "crashed"} /\ apc[a] = "push"
      /\ ready_queue' = Append(ready_queue, t)
      /\ UNCHANGED <<mpc, cnt, todo, task, completed>>
  BY DEF PushReady, Up, mainVars, phaseVars, workerVars
<1>2. t \in Task
  <2>1. task_count[a] > first[a] /\ first[a] \in Nat
    BY <1>1 DEF CoreInv, BatchInv, TypeOK, CallTypeOK
  <2> QED
    BY <1>0, <2>1 DEF Task
<1>3. t \in Contents(<<"draft", 0>>)
  BY <1>1, ContentsAt DEF Pushing
<1> HIDE DEF t
<1>4. ToSet(ready_queue') = ToSet(ready_queue) \cup {t}
  BY <1>0, <1>1, <1>2, AppendElements
<1>5. \A w \in PE : Pending(w)' = Pending(w)
  BY <1>1 DEF Pending
<1>6. Round!Between
  <2>1. ~(mpc = "schedule" /\ cnt > 0) /\ ~(mpc = "schedule" /\ cnt > 0)'
    BY <1>1
  <2> QED
    BY <1>3, <1>4, <1>5, <2>1, BetweenMaps
<1>7. phase = "rest" /\ phase' = "rest"
  BY <1>1, PhaseIs, PhaseNext
<1> QED
  BY <1>6, <1>7 DEF Round!Rest, phase

\* A worker that takes a task or hands it back has it still.
LEMMA WorkerMaps ==
    ASSUME CoreInv, NEW w \in PE, TakeTask(w) \/ HandBack(w)
    PROVE  UNCHANGED Round!roundVars
<1>0. /\ todo \in [PE -> Seq(Task)] /\ completed \in [PE -> Seq(Task)]
      /\ task \in [PE -> Task \cup {NoTask}]
  BY DEF CoreInv, TypeOK, WorkerTypeOK
<1>1. UNCHANGED <<mpc, cnt, ready_queue>>
  BY DEF TakeTask, HandBack, mainVars, phaseVars, queueVars
<1>2. Pending(w)' = Pending(w)
  <2>1. CASE TakeTask(w)
    <3>1. /\ task' = [task EXCEPT ![w] = Head(todo[w])]
          /\ todo' = [todo EXCEPT ![w] = Tail(@)] /\ UNCHANGED completed
          /\ todo[w] # <<>> /\ wpc[w] = "poll"
      BY <2>1 DEF TakeTask
    <3>2. task[w] = NoTask
      BY <3>1 DEF CoreInv, WorkerInv
    <3>3. ToSet(todo[w]) = ToSet(todo'[w]) \cup {task'[w]} /\ task'[w] # NoTask
      <4>1. Head(todo[w]) \in Task
        BY <1>0, <3>1, TailType
      <4> QED
        BY <1>0, <3>1, <4>1, HeadAndTail, ConstantsAssumption
    <3> QED
      BY <3>1, <3>2, <3>3 DEF Pending
  <2>2. CASE HandBack(w)
    <3>1. /\ task' = [task EXCEPT ![w] = NoTask]
          /\ completed' = [completed EXCEPT ![w] = Append(@, task[w])] /\ UNCHANGED todo
          /\ wpc[w] = "signalled"
      BY <2>2 DEF HandBack
    <3>2. task[w] \in Task
      BY <1>0, <3>1 DEF CoreInv, WorkerInv
    <3>3. ToSet(completed'[w]) = ToSet(completed[w]) \cup {task[w]} /\ task'[w] = NoTask
      BY <1>0, <3>1, <3>2, AppendElements
    <3>4. task[w] # NoTask
      BY <3>2, ConstantsAssumption
    <3> QED
      BY <3>1, <3>3, <3>4 DEF Pending
  <2> QED
    BY <2>1, <2>2
<1>3. ASSUME NEW v \in PE, v # w PROVE Pending(v)' = Pending(v)
  <2>1. todo'[v] = todo[v] /\ task'[v] = task[v] /\ completed'[v] = completed[v]
    BY <1>0, <1>3 DEF TakeTask, HandBack
  <2> QED
    BY <2>1 DEF Pending
<1>4. pending' = pending /\ phase' = phase
  BY <1>1, <1>2, <1>3, PendingSame DEF phase
<1> QED
  BY <1>1, <1>4 DEF Round!roundVars, phase, pending

\* A null dereference ends the process, even in the middle of a round.
LEMMA CrashMaps ==
    ASSUME Up, mpc' = "crashed", UNCHANGED <<ready_queue, todo, task, completed>>
    PROVE  Round!End
<1>1. phase \in {"rest", "open"} /\ phase' = "over"
  BY PhaseIs, PhaseNext DEF Up
<1>2. (mpc = "schedule" /\ cnt > 0)' = FALSE
  OBVIOUS
<1>3. pending' = pending
  <2>1. \A w \in PE : Pending(w)' = Pending(w)
    BY DEF Pending
  <2> QED
    BY <2>1, PendingSame
<1> QED
  BY <1>1, <1>2, <1>3 DEF Round!End, phase, pending

\* Every step of the daemon is one of a round, or one the round does not see.
LEMMA RoundStep ==
    ASSUME CoreInv, EveryTaskInOnePlace, RoundInv, [Next]_vars
    PROVE  [Round!Next]_(Round!roundVars)
<1>1. CASE RoundStill
  <2>1. UNCHANGED <<ready_queue, todo, task, completed>>
    BY <1>1 DEF RoundStill
  <2>2. phase' = phase /\ (mpc = "schedule" /\ cnt > 0)' = (mpc = "schedule" /\ cnt > 0)
    <3>1. CASE UNCHANGED <<mpc, cnt>>
      BY <3>1 DEF phase
    <3>2. CASE {mpc, mpc'} \cap {"schedule", "dead", "crashed"} = {}
      BY <3>2, PhaseIs, PhaseNext
    <3> QED
      BY <1>1, <3>1, <3>2 DEF RoundStill
  <2>3. pending' = pending
    <3>1. \A w \in PE : Pending(w)' = Pending(w)
      BY <2>1 DEF Pending
    <3> QED
      BY <3>1, PendingSame
  <2> QED
    BY <2>1, <2>2, <2>3 DEF Round!roundVars, phase, pending
<1>2. CASE BeginScheduling
  BY <1>2, BeginMaps DEF Round!Next
<1>3. CASE EndScheduling
  BY <1>3, EndMaps DEF Round!Next
<1>4. ASSUME NEW i \in DOMAIN ready_queue, NEW w \in PE, AssignTask(i, w)
      PROVE  Round!Next
  BY <1>4, AssignMaps DEF Round!Next
<1>5. CASE PopCompleted
  BY <1>5, PopMaps DEF Round!Next
<1>6. ASSUME NEW a \in Apps, PushReady(a) PROVE Round!Next
  BY <1>6, PushMaps DEF Round!Next
<1>7. ASSUME NEW w \in PE, TakeTask(w) \/ HandBack(w) PROVE UNCHANGED Round!roundVars
  BY <1>7, WorkerMaps
<1>8. CASE ReadNullPill
  <2>1. /\ Up /\ mpc' = "crashed"
        /\ UNCHANGED <<ready_queue, todo, task, completed>>
    BY <1>8 DEF ReadNullPill, Up, otherThanPhase, queueVars, workerVars
  <2> QED
    BY <2>1, CrashMaps DEF Round!Next
<1>9. ASSUME NEW a \in Apps, NumberTask(a), a \notin app_thread_map PROVE Round!Next
  <2>1. /\ Up /\ mpc' = "crashed"
        /\ UNCHANGED <<ready_queue, todo, task, completed>>
    BY <1>9 DEF NumberTask, Up, queueVars, workerVars
  <2> QED
    BY <2>1, CrashMaps DEF Round!Next
<1> QED
  BY <1>1, <1>2, <1>3, <1>4, <1>5, <1>6, <1>7, <1>8, <1>9, WhoSchedules

\* RoundSpec: the API daemon keeps to the rounds its policies were shown to keep
\* to: it opens one only when there is work, adds and drains nothing while one is
\* open, finds a PE idle exactly if everything it gave to it is logged, and takes
\* for fatal only a round that gave nothing.
THEOREM DaemonKeepsToRounds == Spec => RoundSpec
<1>1. IInv /\ [Next]_vars => [Round!Next]_(Round!roundVars)
  BY RoundStep DEF IInv, CoreInv
<1> QED
  BY <1>1, RoundInit, DaemonInvariance, PTL DEF Spec, RoundSpec, Round!Spec

=============================================================================
