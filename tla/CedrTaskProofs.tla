--------------------------- MODULE CedrTaskProofs ---------------------------
(***************************************************************************)
(* CedrRuntime neither drops nor repeats a task; and the barrier of a      *)
(* kernel call outlives the signals it is owed, and gets each of them.     *)
(***************************************************************************)
EXTENDS CedrRuntimeProofs, FiniteSetTheorems

-----------------------------------------------------------------------------
(* EveryTaskInOnePlace.                                                    *)

taskVars == <<ready_queue, todo, task, completed, stream_log, task_count>>

\* The applications that numbered a task and did not push it yet.
Pushing == {b \in Apps : apc[b] = "push"}

\* The actions that number a task or move one.
LEMMA WhoMovesTasks ==
    ASSUME CoreInv, [Next]_vars
    PROVE  \/ UNCHANGED taskVars /\ Pushing' = Pushing
           \/ \E i \in DOMAIN ready_queue, w \in PE : AssignTask(i, w)
           \/ PopCompleted
           \/ \E w \in PE : TakeTask(w) \/ HandBack(w)
           \/ \E a \in Apps : NumberTask(a) /\ a \in app_thread_map
           \/ \E a \in Apps : PushReady(a)
<1> USE DEF taskVars, Pushing, vars, mainVars, logVars, workerVars, callVars,
   queueVars,
            otherThanPhase
<1> DEFINE Still == UNCHANGED taskVars /\ Pushing' = Pushing
<1>0. apc \in [Apps -> AppState]
  BY DEF CoreInv, TypeOK, CallTypeOK
<1>1. CASE Client
  BY <1>1 DEF Client, SubDag, KillDaemon
<1>2. CASE Main
  <2>1. ASSUME NEW a \in Apps, LaunchApp(a) PROVE Still
    <3>1. apc[a] = "unborn"
      BY <2>1 DEF LaunchApp, CoreInv, StartInv
    <3> QED
      BY <1>0, <2>1, <3>1 DEF LaunchApp
  <2>2. ASSUME NEW a \in Apps, RegisterApp(a) PROVE Still
    BY <2>2 DEF RegisterApp
  <2>3. \/ ReceiveApps \/ ReceiveNothing \/ BeginExit \/ ArriveApps \/ BeginScheduling
        \/ EndScheduling \/ CountCompleted \/ BeginSweep \/ KeepPill \/ ReapApp \/ EndSweep
        \/ ReadNullPill \/ QuiescePE \/ RetirePE \/ JoinPill \/ KickOutApps \/ JoinWorkers
        => Still
    BY DEF ReceiveApps, ReceiveNothing, BeginExit, ArriveApps, BeginScheduling,
      EndScheduling, CountCompleted, BeginSweep, KeepPill, ReapApp, EndSweep, ReadNullPill,
      QuiescePE, RetirePE, JoinPill, KickOutApps, JoinWorkers
  <2> HIDE DEF Still
  <2> QED
    BY <1>2, <2>1, <2>2, <2>3 DEF Main, Still
<1>3. ASSUME NEW w \in PE, Worker(w)
      PROVE  Still \/ TakeTask(w) \/ HandBack(w)
  <2>1. SignalBarrier(w) => Still
    BY <1>0 DEF SignalBarrier
  <2>2. StopWorker(w) => Still
    BY DEF StopWorker
  <2> QED
    BY <1>3, <2>1, <2>2 DEF Worker
<1>4. ASSUME NEW a \in Apps, BecomeDue(a) \/ AppThread(a) \/ WakeSpuriously(a)
      PROVE  Still \/ (NumberTask(a) /\ a \in app_thread_map) \/ PushReady(a)
  <2>1. BecomeDue(a) => Still
    BY DEF BecomeDue
  <2>2. WakeSpuriously(a) => Still
    BY <1>0 DEF WakeSpuriously
  <2>3. ASSUME NEW n \in 1..MaxBatch, OpenBarrier(a, n) PROVE Still
    BY <1>0, <2>3 DEF OpenBarrier, MayCall
  <2>4. NumberTask(a) => Still \/ a \in app_thread_map
    BY DEF NumberTask
  <2>5. CheckBarrier(a) => Still
    BY <1>0 DEF CheckBarrier
  <2>6. InjectPill(a) => Still
    BY <1>0 DEF InjectPill, MayCall
  <2>7. ExitThread(a) => Still
    BY <1>0 DEF ExitThread
  <2> QED
    BY <1>4, <2>1, <2>2, <2>3, <2>4, <2>5, <2>6, <2>7 DEF AppThread
<1>5. CASE Gone \/ UNCHANGED vars
  BY <1>5 DEF Gone
<1> QED
  BY <1>1, <1>2, <1>3, <1>4, <1>5 DEF Next

\* Each place, by its contents.
LEMMA ContentsAt ==
    /\ <<"draft", 0>> \in Place /\ <<"ready", 0>> \in Place /\ <<"logged", 0>> \in Place
    /\ Contents(<<"draft", 0>>) = {<<a, task_count[a] - 1>> : a \in Pushing}
    /\ Contents(<<"ready", 0>>) = ToSet(ready_queue)
    /\ Contents(<<"logged", 0>>) = stream_log
    /\ \A w \in PE :
          /\ <<"todo", w>> \in Place /\ <<"held", w>> \in Place /\ <<"handed", w>> \in Place
          /\ Contents(<<"todo", w>>) = ToSet(todo[w])
          /\ Contents(<<"held", w>>) = {task[w]} \ {NoTask}
          /\ Contents(<<"handed", w>>) = ToSet(completed[w])
BY DEF Contents, Place, Pushing

\* The same after a step.
LEMMA ContentsNext ==
    /\ Contents(<<"draft", 0>>)' = {<<a, task_count'[a] - 1>> : a \in Pushing'}
    /\ Contents(<<"ready", 0>>)' = ToSet(ready_queue')
    /\ Contents(<<"logged", 0>>)' = stream_log'
    /\ \A w \in PE :
          /\ Contents(<<"todo", w>>)' = ToSet(todo'[w])
          /\ Contents(<<"held", w>>)' = {task'[w]} \ {NoTask}
          /\ Contents(<<"handed", w>>)' = ToSet(completed'[w])
BY DEF Contents, Pushing

\* There is no other place.
LEMMA Places ==
    ASSUME NEW u \in Place
    PROVE  \/ u = <<"draft", 0>> \/ u = <<"ready", 0>> \/ u = <<"logged", 0>>
           \/ \E w \in PE : u = <<"todo", w>> \/ u = <<"held", w>> \/ u = <<"handed", w>>
<1>1. CASE u \in {"draft", "ready", "logged"} \X {0}
  BY <1>1
<1>2. CASE u \in {"todo", "held", "handed"} \X PE
  BY <1>2
<1> QED
  BY <1>1, <1>2 DEF Place

\* The tasks at the places are those that were numbered, each at one place.
Placed ==
    /\ UNION {Contents(p) : p \in Place} = UNION {Numbered(a) : a \in Apps}
    /\ \A p, q \in Place : p # q => Contents(p) \cap Contents(q) = {}

Distinct ==
    /\ IsInjective(ready_queue)
    /\ \A w \in PE : IsInjective(todo[w]) /\ IsInjective(completed[w])

\* The two halves of EveryTaskInOnePlace.
LEMMA PlacedDistinct == EveryTaskInOnePlace <=> Placed /\ Distinct
BY DEF EveryTaskInOnePlace, Placed, Distinct

\* A task goes from p to q.
LEMMA MoveTask ==
    ASSUME Placed, NEW p \in Place, NEW q \in Place, p # q, NEW t \in Contents(p),
           Contents(p)' = Contents(p) \ {t},
           Contents(q)' = Contents(q) \cup {t},
           \A u \in Place : u # p /\ u # q => Contents(u)' = Contents(u),
           UNCHANGED task_count
    PROVE  Placed'
<1> DEFINE C == [u \in Place |-> Contents(u)]
           D == [u \in Place |-> Contents(u)']
<1>1. \A u \in Place : C[u] = Contents(u) /\ D[u] = Contents(u)'
  OBVIOUS
<1>2. UNION {C[u] : u \in Place} = UNION {Contents(u) : u \in Place}
  BY <1>1
<1>3. UNION {D[u] : u \in Place} = UNION {Contents(u)' : u \in Place}
  BY <1>1
<1> HIDE DEF C, D
<1>4. /\ t \in C[p]
      /\ \A u, v \in Place : u # v => C[u] \cap C[v] = {}
      /\ D[p] = C[p] \ {t} /\ D[q] = C[q] \cup {t}
      /\ \A u \in Place \ {p, q} : D[u] = C[u]
  BY <1>1 DEF Placed
<1>5. /\ \A u, v \in Place : u # v => D[u] \cap D[v] = {}
      /\ UNION {D[u] : u \in Place} = UNION {C[u] : u \in Place}
  BY <1>4, Move
<1>6. Place' = Place
  BY DEF Place, PE
<1>7. \A a \in Apps : Numbered(a)' = Numbered(a)
  BY DEF Numbered
<1>8. \A u, v \in Place : u # v => Contents(u)' \cap Contents(v)' = {}
  BY <1>1, <1>5
<1>9. UNION {Contents(u)' : u \in Place} = UNION {Numbered(a)' : a \in Apps}
  <2>1. UNION {Numbered(a)' : a \in Apps} = UNION {Numbered(a) : a \in Apps}
    BY <1>7
  <2> QED
    BY <1>2, <1>3, <1>5, <2>1 DEF Placed
<1> QED
  BY <1>6, <1>8, <1>9 DEF Placed

\* Where no task comes or goes.
LEMMA Elsewhere ==
    ASSUME NEW p, NEW q,
           <<"draft", 0>> \in {p, q} \/ (UNCHANGED task_count /\ Pushing' = Pushing),
           <<"ready", 0>> \in {p, q} \/ UNCHANGED ready_queue,
           <<"logged", 0>> \in {p, q} \/ UNCHANGED stream_log,
           \A w \in PE :
              /\ <<"todo", w>> \in {p, q} \/ todo'[w] = todo[w]
              /\ <<"held", w>> \in {p, q} \/ task'[w] = task[w]
              /\ <<"handed", w>> \in {p, q} \/ completed'[w] = completed[w]
    PROVE  \A u \in Place : u # p /\ u # q => Contents(u)' = Contents(u)
<1> SUFFICES ASSUME NEW u \in Place, u # p, u # q
             PROVE  Contents(u)' = Contents(u)
  OBVIOUS
<1>1. CASE u = <<"draft", 0>>
  <2>1. task_count' = task_count /\ Pushing' = Pushing
    BY <1>1
  <2>2. {<<a, task_count'[a] - 1>> : a \in Pushing'} = {<<a, task_count[a] - 1>> : a \in Pushing}
    BY <2>1
  <2> QED
    BY <1>1, <2>2, ContentsAt, ContentsNext
<1>2. CASE u = <<"ready", 0>>
  BY <1>2, ContentsAt, ContentsNext
<1>3. CASE u = <<"logged", 0>>
  BY <1>3, ContentsAt, ContentsNext
<1>4. ASSUME NEW w \in PE, u = <<"todo", w>> PROVE Contents(u)' = Contents(u)
  BY <1>4, ContentsAt, ContentsNext
<1>5. ASSUME NEW w \in PE, u = <<"held", w>> PROVE Contents(u)' = Contents(u)
  BY <1>5, ContentsAt, ContentsNext
<1>6. ASSUME NEW w \in PE, u = <<"handed", w>> PROVE Contents(u)' = Contents(u)
  BY <1>6, ContentsAt, ContentsNext
<1> QED
  BY <1>1, <1>2, <1>3, <1>4, <1>5, <1>6, Places

\* The scheduler's push takes a task from ready_queue to the todo queue of a PE.
LEMMA AssignPlaced ==
    ASSUME CoreInv, Placed, Distinct,
           NEW i \in DOMAIN ready_queue, NEW w \in PE, AssignTask(i, w)
    PROVE  Placed' /\ Distinct'
<1> DEFINE t == ready_queue[i]
<1>1. /\ todo' = [todo EXCEPT ![w] = Append(@, t)]
      /\ ready_queue' = RemoveAt(ready_queue, i)
      /\ UNCHANGED <<task, completed, stream_log, task_count, apc>>
  BY DEF AssignTask, logVars, callVars
<1>2. /\ ready_queue \in Seq(Task) /\ todo \in [PE -> Seq(Task)]
      /\ t \in Task /\ todo[w] \in Seq(Task)
  BY ElementOfSeq, LenProperties DEF CoreInv, TypeOK, QueueTypeOK, WorkerTypeOK
<1>3. /\ t \in ToSet(ready_queue)
      /\ ToSet(ready_queue') = ToSet(ready_queue) \ {t}
      /\ IsInjective(ready_queue')
  BY <1>1, <1>2, RemoveAtSet DEF Distinct
<1>4. t \notin ToSet(todo[w])
  <2>1. Contents(<<"ready", 0>>) \cap Contents(<<"todo", w>>) = {}
    BY ContentsAt DEF Placed
  <2> QED
    BY <1>3, <2>1, ContentsAt
<1>5. /\ ToSet(Append(todo[w], t)) = ToSet(todo[w]) \cup {t}
      /\ IsInjective(Append(todo[w], t))
  BY <1>2, <1>4, AppendSet DEF Distinct
<1>6. \A v \in PE : todo'[v] = IF v = w THEN Append(todo[w], t) ELSE todo[v]
  BY <1>1, <1>2
<1>7. Distinct'
  BY <1>1, <1>3, <1>5, <1>6 DEF Distinct, PE
<1>8. Placed'
  <2> DEFINE p == <<"ready", 0>>
             q == <<"todo", w>>
  <2>1. p \in Place /\ q \in Place /\ p # q /\ t \in Contents(p)
    BY <1>3, ContentsAt
  <2>2. Contents(p)' = Contents(p) \ {t} /\ Contents(q)' = Contents(q) \cup {t}
    BY <1>3, <1>5, <1>6, ContentsAt, ContentsNext
  <2>3. \A u \in Place : u # p /\ u # q => Contents(u)' = Contents(u)
    <3>1. <<"draft", 0>> \in {p, q} \/ (UNCHANGED task_count /\ Pushing' = Pushing)
      BY <1>1 DEF Pushing
    <3>2. <<"ready", 0>> \in {p, q} \/ UNCHANGED ready_queue
      BY <1>1
    <3>3. <<"logged", 0>> \in {p, q} \/ UNCHANGED stream_log
      BY <1>1
    <3>4. \A v \in PE :
             /\ <<"todo", v>> \in {p, q} \/ todo'[v] = todo[v]
             /\ <<"held", v>> \in {p, q} \/ task'[v] = task[v]
             /\ <<"handed", v>> \in {p, q} \/ completed'[v] = completed[v]
      BY <1>1, <1>6
    <3> HIDE DEF p, q
    <3> QED
      BY <3>1, <3>2, <3>3, <3>4, Elsewhere
  <2> HIDE DEF p, q
  <2> QED
    BY <1>1, <2>1, <2>2, <2>3, MoveTask
<1> QED
  BY <1>7, <1>8

\* A worker's pop takes it from there into the worker's hands.
LEMMA TakePlaced ==
    ASSUME CoreInv, Placed, Distinct, NEW w \in PE, TakeTask(w)
    PROVE  Placed' /\ Distinct'
<1> DEFINE t == Head(todo[w])
<1>1. /\ todo' = [todo EXCEPT ![w] = Tail(@)]
      /\ task' = [task EXCEPT ![w] = t]
      /\ todo[w] # <<>> /\ wpc[w] = "poll"
      /\ UNCHANGED <<ready_queue, completed, stream_log, task_count, apc>>
  BY DEF TakeTask, mainVars, logVars, callVars, queueVars
<1>2. /\ todo \in [PE -> Seq(Task)] /\ todo[w] \in Seq(Task)
      /\ task \in [PE -> Task \cup {NoTask}] /\ task[w] = NoTask
  BY <1>1 DEF CoreInv, TypeOK, WorkerTypeOK, WorkerInv
<1>3. /\ t \in ToSet(todo[w]) /\ t \in Task /\ t # NoTask
      /\ ToSet(Tail(todo[w])) = ToSet(todo[w]) \ {t}
      /\ IsInjective(Tail(todo[w]))
  BY <1>1, <1>2, TailSet, TailType, ConstantsAssumption DEF Distinct
<1>4. \A v \in PE : /\ todo'[v] = IF v = w THEN Tail(todo[w]) ELSE todo[v]
                    /\ task'[v] = IF v = w THEN t ELSE task[v]
  BY <1>1, <1>2
<1>5. Distinct'
  BY <1>1, <1>3, <1>4 DEF Distinct, PE
<1>6. Placed'
  <2> DEFINE p == <<"todo", w>>
             q == <<"held", w>>
  <2>1. p \in Place /\ q \in Place /\ p # q /\ t \in Contents(p)
    BY <1>3, ContentsAt
  <2>2. /\ Contents(p)' = Contents(p) \ {t}
        /\ Contents(q)' = Contents(q) \cup {t}
    <3>1. todo'[w] = Tail(todo[w]) /\ task'[w] = t
      BY <1>4
    <3>2. Contents(p) = ToSet(todo[w]) /\ Contents(p)' = ToSet(todo'[w])
      BY ContentsAt, ContentsNext
    <3>3. Contents(q) = {} /\ Contents(q)' = {t}
      BY <1>2, <1>3, <3>1, ContentsAt, ContentsNext
    <3> QED
      BY <1>3, <3>1, <3>2, <3>3
  <2>3. \A u \in Place : u # p /\ u # q => Contents(u)' = Contents(u)
    <3>1. <<"draft", 0>> \in {p, q} \/ (UNCHANGED task_count /\ Pushing' = Pushing)
      BY <1>1 DEF Pushing
    <3>2. <<"ready", 0>> \in {p, q} \/ UNCHANGED ready_queue
      BY <1>1
    <3>3. <<"logged", 0>> \in {p, q} \/ UNCHANGED stream_log
      BY <1>1
    <3>4. \A v \in PE :
             /\ <<"todo", v>> \in {p, q} \/ todo'[v] = todo[v]
             /\ <<"held", v>> \in {p, q} \/ task'[v] = task[v]
             /\ <<"handed", v>> \in {p, q} \/ completed'[v] = completed[v]
      BY <1>1, <1>4
    <3> HIDE DEF p, q
    <3> QED
      BY <3>1, <3>2, <3>3, <3>4, Elsewhere
  <2> HIDE DEF p, q
  <2> QED
    BY <1>1, <2>1, <2>2, <2>3, MoveTask
<1> QED
  BY <1>5, <1>6

\* The worker puts it into its completed queue.
LEMMA HandBackPlaced ==
    ASSUME CoreInv, Placed, Distinct, NEW w \in PE, HandBack(w)
    PROVE  Placed' /\ Distinct'
<1> DEFINE t == task[w]
<1>1. /\ completed' = [completed EXCEPT ![w] = Append(@, t)]
      /\ task' = [task EXCEPT ![w] = NoTask]
      /\ wpc[w] = "signalled"
      /\ UNCHANGED <<ready_queue, todo, stream_log, task_count, apc>>
  BY DEF HandBack, mainVars, logVars, callVars, queueVars
<1>2. /\ completed \in [PE -> Seq(Task)] /\ completed[w] \in Seq(Task)
      /\ task \in [PE -> Task \cup {NoTask}] /\ t \in Task /\ t # NoTask
  BY <1>1 DEF CoreInv, TypeOK, WorkerTypeOK, WorkerInv
<1>3. t \notin ToSet(completed[w])
  <2>1. Contents(<<"held", w>>) \cap Contents(<<"handed", w>>) = {}
    BY ContentsAt DEF Placed
  <2> QED
    BY <1>2, <2>1, ContentsAt
<1>4. /\ ToSet(Append(completed[w], t)) = ToSet(completed[w]) \cup {t}
      /\ IsInjective(Append(completed[w], t))
  BY <1>2, <1>3, AppendSet DEF Distinct
<1>5. \A v \in PE : /\ completed'[v] = IF v = w THEN Append(completed[w], t) ELSE completed[v]
                    /\ task'[v] = IF v = w THEN NoTask ELSE task[v]
  BY <1>1, <1>2
<1>6. Distinct'
  BY <1>1, <1>4, <1>5 DEF Distinct, PE
<1>7. Placed'
  <2> DEFINE p == <<"held", w>>
             q == <<"handed", w>>
  <2>1. p \in Place /\ q \in Place /\ p # q /\ t \in Contents(p)
    BY <1>2, ContentsAt
  <2>2. Contents(p)' = Contents(p) \ {t} /\ Contents(q)' = Contents(q) \cup {t}
    BY <1>4, <1>5, ContentsAt, ContentsNext
  <2>3. \A u \in Place : u # p /\ u # q => Contents(u)' = Contents(u)
    <3>1. <<"draft", 0>> \in {p, q} \/ (UNCHANGED task_count /\ Pushing' = Pushing)
      BY <1>1 DEF Pushing
    <3>2. <<"ready", 0>> \in {p, q} \/ UNCHANGED ready_queue
      BY <1>1
    <3>3. <<"logged", 0>> \in {p, q} \/ UNCHANGED stream_log
      BY <1>1
    <3>4. \A v \in PE :
             /\ <<"todo", v>> \in {p, q} \/ todo'[v] = todo[v]
             /\ <<"held", v>> \in {p, q} \/ task'[v] = task[v]
             /\ <<"handed", v>> \in {p, q} \/ completed'[v] = completed[v]
      BY <1>1, <1>5
    <3> HIDE DEF p, q
    <3> QED
      BY <3>1, <3>2, <3>3, <3>4, Elsewhere
  <2> HIDE DEF p, q
  <2> QED
    BY <1>1, <2>1, <2>2, <2>3, MoveTask
<1> QED
  BY <1>6, <1>7

\* The main thread's pop takes it to the log.
LEMMA PopPlaced ==
    ASSUME CoreInv, Placed, Distinct, PopCompleted
    PROVE  Placed' /\ Distinct'
<1>0. PICK w \in PE : w = idx
  BY DEF PopCompleted, CoreInv, LoopInv
<1> DEFINE t == Head(completed[w])
<1>1. /\ completed' = [completed EXCEPT ![w] = Tail(@)]
      /\ stream_log' = stream_log \cup {t}
      /\ UNCHANGED <<ready_queue, todo, task, task_count, apc>>
  BY <1>0 DEF PopCompleted, callVars, queueVars
<1>2. /\ completed \in [PE -> Seq(Task)] /\ completed[w] \in Seq(Task)
      /\ completed[w] # <<>>
  BY <1>0 DEF PopCompleted, CoreInv, TypeOK, WorkerTypeOK, LoopInv
<1>3. /\ t \in ToSet(completed[w])
      /\ ToSet(Tail(completed[w])) = ToSet(completed[w]) \ {t}
      /\ IsInjective(Tail(completed[w]))
  BY <1>2, TailSet DEF Distinct
<1>4. \A v \in PE : completed'[v] = IF v = w THEN Tail(completed[w]) ELSE completed[v]
  BY <1>1, <1>2
<1>5. Distinct'
  BY <1>1, <1>3, <1>4 DEF Distinct, PE
<1>6. Placed'
  <2> DEFINE p == <<"handed", w>>
             q == <<"logged", 0>>
  <2>1. p \in Place /\ q \in Place /\ p # q /\ t \in Contents(p)
    BY <1>2, <1>3, ContentsAt
  <2>2. Contents(p)' = Contents(p) \ {t} /\ Contents(q)' = Contents(q) \cup {t}
    BY <1>1, <1>2, <1>3, <1>4, ContentsAt, ContentsNext
  <2>3. \A u \in Place : u # p /\ u # q => Contents(u)' = Contents(u)
    <3>1. <<"draft", 0>> \in {p, q} \/ (UNCHANGED task_count /\ Pushing' = Pushing)
      BY <1>1 DEF Pushing
    <3>2. <<"ready", 0>> \in {p, q} \/ UNCHANGED ready_queue
      BY <1>1
    <3>3. <<"logged", 0>> \in {p, q} \/ UNCHANGED stream_log
      BY <1>1
    <3>4. \A v \in PE :
             /\ <<"todo", v>> \in {p, q} \/ todo'[v] = todo[v]
             /\ <<"held", v>> \in {p, q} \/ task'[v] = task[v]
             /\ <<"handed", v>> \in {p, q} \/ completed'[v] = completed[v]
      BY <1>1, <1>4
    <3> HIDE DEF p, q
    <3> QED
      BY <3>1, <3>2, <3>3, <3>4, Elsewhere
  <2> HIDE DEF p, q
  <2> QED
    BY <1>1, <2>1, <2>2, <2>3, MoveTask
<1> QED
  BY <1>5, <1>6

\* enqueue_kernel's push takes a numbered task to ready_queue.
LEMMA PushPlaced ==
    ASSUME CoreInv, Placed, Distinct, NEW a \in Apps, PushReady(a)
    PROVE  Placed' /\ Distinct'
<1> DEFINE t == <<a, task_count[a] - 1>>
<1>1. /\ ready_queue' = Append(ready_queue, t)
      /\ apc' = [apc EXCEPT ![a] = IF left[a] = 0 THEN "check" ELSE "call"]
      /\ apc[a] = "push"
      /\ UNCHANGED <<todo, task, completed, stream_log, task_count>>
  BY DEF PushReady, mainVars, logVars, workerVars
<1>2. /\ ready_queue \in Seq(Task) /\ apc \in [Apps -> AppState]
      /\ task_count \in [Apps -> Nat] /\ task_count[a] > 0
  <2>1. /\ ready_queue \in Seq(Task) /\ apc \in [Apps -> AppState]
        /\ task_count \in [Apps -> Nat] /\ first \in [Apps -> Nat]
    BY DEF CoreInv, TypeOK, QueueTypeOK, CallTypeOK
  <2>2. task_count[a] > first[a]
    BY <1>1 DEF CoreInv, BatchInv
  <2> QED
    BY <2>1, <2>2
<1>3. t \in Task
  BY <1>2 DEF Task
<1>4. a \in Pushing /\ Pushing' = Pushing \ {a}
  BY <1>1, <1>2 DEF Pushing
<1>5. t \in Contents(<<"draft", 0>>) /\ t \notin ToSet(ready_queue)
  BY <1>4, ContentsAt DEF Placed
<1>6. /\ ToSet(ready_queue') = ToSet(ready_queue) \cup {t}
      /\ IsInjective(ready_queue')
  BY <1>1, <1>2, <1>3, <1>5, AppendSet DEF Distinct
<1>7. Distinct'
  BY <1>1, <1>6 DEF Distinct, PE
<1>8. Placed'
  <2> DEFINE p == <<"draft", 0>>
             q == <<"ready", 0>>
  <2>1. p \in Place /\ q \in Place /\ p # q /\ t \in Contents(p)
    BY <1>5, ContentsAt
  <2>2. Contents(p)' = Contents(p) \ {t}
    BY <1>1, <1>4, ContentsAt, ContentsNext
  <2>3. Contents(q)' = Contents(q) \cup {t}
    BY <1>6, ContentsAt, ContentsNext
  <2>4. \A u \in Place : u # p /\ u # q => Contents(u)' = Contents(u)
    BY <1>1, Elsewhere
  <2> HIDE DEF p, q
  <2> QED
    BY <1>1, <2>1, <2>2, <2>3, <2>4, MoveTask
<1> QED
  BY <1>7, <1>8

\* A new element at one place of a family.
LEMMA Grow ==
    ASSUME NEW P, NEW C, NEW D, NEW p \in P, NEW t,
           D[p] = C[p] \cup {t},
           \A u \in P \ {p} : D[u] = C[u]
    PROVE  UNION {D[u] : u \in P} = (UNION {C[u] : u \in P}) \cup {t}
<1>1. ASSUME NEW x
      PROVE  (\E u \in P : x \in D[u]) <=> (\E u \in P : x \in C[u]) \/ x = t
  OBVIOUS
<1> QED
  BY <1>1

\* enqueue_kernel numbers a task that was nowhere before.
LEMMA NumberPlaced ==
    ASSUME CoreInv, Placed, Distinct, NEW a \in Apps, NumberTask(a), a \in app_thread_map
    PROVE  Placed' /\ Distinct'
<1> DEFINE t == <<a, task_count[a]>>
           p == <<"draft", 0>>
<1>1. /\ task_count' = [task_count EXCEPT ![a] = @ + 1]
      /\ apc' = [apc EXCEPT ![a] = "push"]
      /\ apc[a] = "call"
      /\ UNCHANGED <<ready_queue, todo, task, completed, stream_log>>
  BY DEF NumberTask, logVars, workerVars, queueVars
<1>2. apc \in [Apps -> AppState] /\ task_count \in [Apps -> Nat]
  BY DEF CoreInv, TypeOK, CallTypeOK
<1>3. /\ \A b \in Apps : task_count'[b] = IF b = a THEN task_count[a] + 1 ELSE task_count[b]
      /\ Pushing' = Pushing \cup {a} /\ a \notin Pushing
  BY <1>1, <1>2 DEF Pushing
<1>4. Distinct'
  BY <1>1 DEF Distinct, PE
<1>5. Contents(p)' = Contents(p) \cup {t}
  <2>1. \A b \in Pushing : task_count'[b] - 1 = task_count[b] - 1
    BY <1>3 DEF Pushing
  <2>2. task_count'[a] - 1 = task_count[a]
    BY <1>2, <1>3
  <2>3. {<<b, task_count'[b] - 1>> : b \in Pushing'}
          = {<<b, task_count[b] - 1>> : b \in Pushing} \cup {t}
    BY <1>3, <2>1, <2>2
  <2> QED
    BY <2>3, ContentsAt, ContentsNext
<1>6. \A u \in Place : u # p => Contents(u)' = Contents(u)
  <2>1. \A u \in Place : u # p /\ u # p => Contents(u)' = Contents(u)
    BY <1>1, Elsewhere
  <2> QED
    BY <2>1
<1>7. /\ Numbered(a)' = Numbered(a) \cup {t} /\ t \notin Numbered(a)
      /\ \A b \in Apps : b # a => Numbered(b)' = Numbered(b) /\ t \notin Numbered(b)
  <2>1. 0..(task_count'[a] - 1) = 0..(task_count[a] - 1) \cup {task_count[a]}
    BY <1>2, <1>3
  <2>2. task_count[a] \notin 0..(task_count[a] - 1)
    BY <1>2
  <2> QED
    BY <1>3, <2>1, <2>2 DEF Numbered
<1>8. \A u \in Place : t \notin Contents(u)
  BY <1>7 DEF Placed
<1>9. Place' = Place /\ p \in Place
  BY ContentsAt DEF Place, PE
<1>10. \A u, v \in Place : u # v => Contents(u)' \cap Contents(v)' = {}
  BY <1>5, <1>6, <1>8 DEF Placed
<1>11. UNION {Contents(u)' : u \in Place} = UNION {Numbered(b)' : b \in Apps}
  <2> DEFINE C == [u \in Place |-> Contents(u)]
             D == [u \in Place |-> Contents(u)']
             N == [b \in Apps |-> Numbered(b)]
             M == [b \in Apps |-> Numbered(b)']
  <2>1. \A u \in Place : C[u] = Contents(u) /\ D[u] = Contents(u)'
    OBVIOUS
  <2>2. \A b \in Apps : N[b] = Numbered(b) /\ M[b] = Numbered(b)'
    OBVIOUS
  <2>3. /\ UNION {C[u] : u \in Place} = UNION {Contents(u) : u \in Place}
        /\ UNION {D[u] : u \in Place} = UNION {Contents(u)' : u \in Place}
        /\ UNION {N[b] : b \in Apps} = UNION {Numbered(b) : b \in Apps}
        /\ UNION {M[b] : b \in Apps} = UNION {Numbered(b)' : b \in Apps}
    BY <2>1, <2>2
  <2> HIDE DEF C, D, N, M, p, t
  <2>4. UNION {D[u] : u \in Place} = (UNION {C[u] : u \in Place}) \cup {t}
    <3>1. D[p] = C[p] \cup {t} /\ \A u \in Place \ {p} : D[u] = C[u]
      BY <1>5, <1>6, <1>9, <2>1
    <3> QED
      BY <1>9, <3>1, Grow
  <2>5. UNION {M[b] : b \in Apps} = (UNION {N[b] : b \in Apps}) \cup {t}
    <3>1. M[a] = N[a] \cup {t} /\ \A b \in Apps \ {a} : M[b] = N[b]
      BY <1>7, <2>2
    <3> QED
      BY <3>1, Grow
  <2> QED
    BY <2>3, <2>4, <2>5 DEF Placed
<1> QED
  BY <1>4, <1>9, <1>10, <1>11 DEF Placed

\* Every other step leaves the tasks where they are.
LEMMA StillPlaced ==
    ASSUME Placed, Distinct, UNCHANGED taskVars, Pushing' = Pushing
    PROVE  Placed' /\ Distinct'
<1> DEFINE p == <<"nowhere", 0>>
<1>1. UNCHANGED <<ready_queue, todo, task, completed, stream_log, task_count>>
  BY DEF taskVars
<1>2. Distinct'
  BY <1>1 DEF Distinct, PE
<1>3. \A u \in Place : u # p /\ u # p => Contents(u)' = Contents(u)
  BY <1>1, Elsewhere
<1>4. \A u \in Place : Contents(u)' = Contents(u)
  <2>1. p \notin Place
    BY DEF Place
  <2> QED
    BY <1>3, <2>1
<1>5. Place' = Place
  BY DEF Place, PE
<1>6. \A a \in Apps : Numbered(a)' = Numbered(a)
  BY <1>1 DEF Numbered
<1>7. UNION {Contents(u)' : u \in Place} = UNION {Contents(u) : u \in Place}
  BY <1>4
<1>8. UNION {Numbered(a)' : a \in Apps} = UNION {Numbered(a) : a \in Apps}
  BY <1>6
<1> QED
  BY <1>2, <1>4, <1>5, <1>7, <1>8 DEF Placed

\* No step of any thread loses, repeats or invents a task.
LEMMA TaskStep ==
    ASSUME CoreInv, EveryTaskInOnePlace, [Next]_vars
    PROVE  EveryTaskInOnePlace'
<1>1. Placed /\ Distinct
  BY PlacedDistinct
<1>2. Placed' /\ Distinct'
  BY <1>1, WhoMovesTasks, StillPlaced, AssignPlaced, PopPlaced, TakePlaced,
     HandBackPlaced,
     NumberPlaced, PushPlaced
<1> QED
  BY <1>2 DEF EveryTaskInOnePlace, Placed, Distinct

\* At first there is no task.
LEMMA TaskInit == Init => EveryTaskInOnePlace
<1> SUFFICES ASSUME Init PROVE Placed /\ Distinct
  BY PlacedDistinct
<1> USE DEF Init
<1>1. Pushing = {}
  BY DEF Pushing
<1>2. \A u \in Place : Contents(u) = {}
  <2>0. ToSet(<<>>) = {}
    BY DEF ToSet
  <2>1. /\ Contents(<<"draft", 0>>) = {}
        /\ Contents(<<"ready", 0>>) = {}
        /\ Contents(<<"logged", 0>>) = {}
    BY <1>1, <2>0, ContentsAt
  <2>2. ASSUME NEW w \in PE
        PROVE  /\ Contents(<<"todo", w>>) = {}
               /\ Contents(<<"held", w>>) = {}
               /\ Contents(<<"handed", w>>) = {}
    <3>1. task[w] = NoTask /\ todo[w] = <<>> /\ completed[w] = <<>>
      OBVIOUS
    <3> QED
      BY <2>0, <3>1, ContentsAt
  <2> QED
    BY <2>1, <2>2, Places
<1>3. \A a \in Apps : Numbered(a) = {}
  BY DEF Numbered
<1>4. Placed
  BY <1>2, <1>3 DEF Placed
<1>5. Distinct
  BY DEF Distinct, IsInjective
<1> QED
  BY <1>4, <1>5

\* EveryTaskInOnePlace: for any number of PEs, applications and calls, the
\* queues of the daemon neither drop nor repeat a task.
THEOREM TasksAreConserved == Spec => []EveryTaskInOnePlace
<1>1. CoreInv /\ EveryTaskInOnePlace /\ [Next]_vars => EveryTaskInOnePlace'
  BY TaskStep
<1> QED
  BY <1>1, TaskInit, CoreInvariance, PTL DEF Spec

-----------------------------------------------------------------------------
(* BarrierAlive and SleeperIsOwed.                                         *)

\* What it is to be signalled, element by element.
LEMMA SignalledIs ==
    \A x : x \in Signalled <=>
              \/ \E w \in PE : wpc[w] = "signalled" /\ x = task[w]
              \/ \E w \in PE : x \in ToSet(completed[w])
              \/ x \in stream_log
BY DEF Signalled

\* The same after a step.
LEMMA SignalledNext ==
    \A x : x \in Signalled' <=>
              \/ \E w \in PE : wpc'[w] = "signalled" /\ x = task'[w]
              \/ \E w \in PE : x \in ToSet(completed'[w])
              \/ x \in stream_log'
BY DEF Signalled, PE

\* The tasks numbered by enqueue_kernel for a have a and a task_id below its
\* task_count.
LEMMA NumberedIs ==
    ASSUME NEW a \in Apps, NEW t \in Numbered(a)
    PROVE  t[1] = a /\ t[2] \in 0..(task_count[a] - 1) /\ t = <<t[1], t[2]>>
BY DEF Numbered

\* Only numbered tasks are signalled.
LEMMA SignalledNumbered ==
    ASSUME CoreInv, EveryTaskInOnePlace, NEW t \in Signalled
    PROVE  t[1] \in Apps /\ t \in Numbered(t[1])
<1>1. \E p \in Place : t \in Contents(p)
  <2>1. ASSUME NEW w \in PE, wpc[w] = "signalled", t = task[w]
        PROVE  t \in Contents(<<"held", w>>)
    <3>1. task[w] # NoTask
      BY <2>1 DEF CoreInv, WorkerInv
    <3> QED
      BY <2>1, <3>1, ContentsAt
  <2>2. ASSUME NEW w \in PE, t \in ToSet(completed[w])
        PROVE  t \in Contents(<<"handed", w>>)
    BY <2>2, ContentsAt
  <2>3. t \in stream_log => t \in Contents(<<"logged", 0>>)
    BY ContentsAt
  <2>4. /\ <<"logged", 0>> \in Place
        /\ \A w \in PE : <<"held", w>> \in Place /\ <<"handed", w>> \in Place
    BY ContentsAt
  <2> QED
    BY <2>1, <2>2, <2>3, <2>4, SignalledIs
<1>2. \E a \in Apps : t \in Numbered(a)
  <2>1. t \in UNION {Contents(p) : p \in Place}
    BY <1>1
  <2>2. UNION {Contents(p) : p \in Place} = UNION {Numbered(a) : a \in Apps}
    BY DEF EveryTaskInOnePlace
  <2>3. t \in UNION {Numbered(a) : a \in Apps}
    BY <2>1, <2>2, Zenon
  <2> QED
    BY <2>3
<1> QED
  BY <1>2, NumberedIs

\* A task whose kernel still runs is numbered and not signalled.
LEMMA RunningUnsignalled ==
    ASSUME CoreInv, EveryTaskInOnePlace, NEW w \in PE, wpc[w] = "run"
    PROVE  task[w][1] \in Apps /\ task[w] \in Numbered(task[w][1]) /\ task[w] \notin Signalled
<1> DEFINE t == task[w]
<1>1. t \in Contents(<<"held", w>>)
  BY ContentsAt DEF CoreInv, WorkerInv
<1>2. \E a \in Apps : t \in Numbered(a)
  <2>1. t \in UNION {Contents(p) : p \in Place}
    BY <1>1, ContentsAt
  <2> QED
    BY <2>1 DEF EveryTaskInOnePlace
<1>3. \A p \in Place : p # <<"held", w>> => t \notin Contents(p)
  BY <1>1, ContentsAt DEF EveryTaskInOnePlace
<1>4. t \notin Signalled
  <2>1. ASSUME NEW v \in PE, wpc[v] = "signalled" PROVE t # task[v]
    <3>1. v # w /\ <<"held", v>> # <<"held", w>>
      BY <2>1
    <3>2. task[v] \in Contents(<<"held", v>>)
      BY <2>1, ContentsAt DEF CoreInv, WorkerInv
    <3> QED
      BY <1>3, <3>1, <3>2, ContentsAt
  <2>2. ASSUME NEW v \in PE PROVE t \notin ToSet(completed[v])
    <3>1. <<"handed", v>> \in Place /\ <<"handed", v>> # <<"held", w>>
      BY ContentsAt
    <3> QED
      BY <1>3, <3>1, ContentsAt
  <2>3. t \notin stream_log
    BY <1>3, ContentsAt
  <2> QED
    BY <2>1, <2>2, <2>3, SignalledIs
<1> QED
  BY <1>2, <1>4, NumberedIs

\* The tasks of the open batch of a, which its barrier counts.
Batch(a) == {a} \X (first[a]..(task_count[a] - 1))

\* The open batch has as many tasks as were numbered since it began.
LEMMA BatchSize ==
    ASSUME CoreInv, NEW a \in Apps, CallOpen(a)
    PROVE  IsFiniteSet(Batch(a)) /\ Cardinality(Batch(a)) = task_count[a] - first[a]
<1>1. first[a] \in Nat /\ task_count[a] \in Nat /\ task_count[a] >= first[a]
  BY DEF CoreInv, TypeOK, CallTypeOK, BatchInv
<1> DEFINE I == first[a]..(task_count[a] - 1)
<1>2. IsFiniteSet(I) /\ Cardinality(I) = task_count[a] - first[a]
  <2>1. first[a] \in Int /\ task_count[a] - 1 \in Int
    BY <1>1
  <2>2. /\ IsFiniteSet(I)
        /\ Cardinality(I) = IF first[a] > task_count[a] - 1 THEN 0
                            ELSE (task_count[a] - 1) - first[a] + 1
    BY <2>1, FS_Interval
  <2> QED
    BY <1>1, <2>2
<1>3. IsFiniteSet({a}) /\ Cardinality({a}) = 1
  BY FS_Singleton
<1>4. IsFiniteSet({a} \X I) /\ Cardinality({a} \X I) = Cardinality({a}) * Cardinality(I)
  BY <1>2, <1>3, FS_Product
<1> QED
  BY <1>1, <1>2, <1>3, <1>4 DEF Batch

\* What the barrier of a counts belongs to its batch.
LEMMA SignalledInBatch ==
    ASSUME CoreInv, EveryTaskInOnePlace, NEW a \in Apps
    PROVE  SignalledOf(a) \subseteq Batch(a)
<1> SUFFICES ASSUME NEW t \in SignalledOf(a) PROVE t \in Batch(a)
  OBVIOUS
<1>1. t \in Signalled /\ t[1] = a /\ t[2] >= first[a]
  BY DEF SignalledOf
<1>2. t[2] \in 0..(task_count[a] - 1) /\ t = <<t[1], t[2]>>
  BY <1>1, SignalledNumbered, NumberedIs
<1>3. first[a] \in Nat /\ task_count[a] \in Nat
  BY DEF CoreInv, TypeOK, CallTypeOK
<1> QED
  BY <1>1, <1>2, <1>3 DEF Batch

\* A barrier that counted as many signals as it has calls got them all.
LEMMA FullBarrier ==
    ASSUME CoreInv, EveryTaskInOnePlace, BarrierInv, NEW a \in Apps, CallOpen(a), left[a] = 0
    PROVE  BatchDone(a) <=> Batch(a) \subseteq Signalled
<1>1. IsFiniteSet(Batch(a)) /\ Cardinality(Batch(a)) = size[a]
  <2>1. task_count[a] + left[a] = first[a] + size[a]
    BY DEF CoreInv, BatchInv
  <2>2. {first[a], size[a], task_count[a]} \subseteq Nat
    BY DEF CoreInv, TypeOK, CallTypeOK
  <2> QED
    BY <2>1, <2>2, BatchSize
<1>2. SignalledOf(a) \subseteq Batch(a)
  BY SignalledInBatch
<1>3. Cardinality(SignalledOf(a)) = Cardinality(Batch(a)) <=> SignalledOf(a) = Batch(a)
  BY <1>1, <1>2, FS_Subset
<1>4. BatchDone(a) <=> SignalledOf(a) = Batch(a)
  BY <1>1, <1>3 DEF BarrierInv, BatchDone
<1>5. SignalledOf(a) = Batch(a) <=> Batch(a) \subseteq Signalled
  <2>1. \A t \in Batch(a) : t[1] = a /\ t[2] >= first[a]
    BY DEF Batch, CoreInv, TypeOK, CallTypeOK
  <2> QED
    BY <1>2, <2>1 DEF SignalledOf
<1> QED
  BY <1>4, <1>5

\* The actions that change the set of signalled tasks, or move one of them.
LEMMA WhoSignals ==
    ASSUME [Next]_vars
    PROVE  \/ UNCHANGED <<wpc, task, completed, stream_log>>
           \/ PopCompleted
           \/ \E w \in PE : TakeTask(w) \/ SignalBarrier(w) \/ HandBack(w) \/ StopWorker(w)
<1> USE DEF vars, mainVars, logVars, workerVars, callVars, queueVars,
   otherThanPhase
<1>1. CASE Client
  BY <1>1 DEF Client, SubDag, KillDaemon
<1>2. CASE Main
  BY <1>2 DEF Main, ReceiveApps, ReceiveNothing, BeginExit, ArriveApps,
     LaunchApp,
      RegisterApp, BeginScheduling, AssignTask, EndScheduling, CountCompleted,
      BeginSweep, KeepPill, ReapApp, EndSweep, ReadNullPill, QuiescePE, RetirePE, JoinPill,
      KickOutApps, JoinWorkers
<1>3. ASSUME NEW a \in Apps, BecomeDue(a) \/ AppThread(a) \/ WakeSpuriously(a)
      PROVE  UNCHANGED <<wpc, task, completed, stream_log>>
  BY <1>3 DEF BecomeDue, AppThread, WakeSpuriously, OpenBarrier, NumberTask,
     PushReady,
      CheckBarrier, InjectPill, ExitThread
<1>4. CASE Gone \/ UNCHANGED vars
  BY <1>4 DEF Gone
<1> QED
  BY <1>1, <1>2, <1>3, <1>4 DEF Next, Worker

\* A signalled task stays signalled, wherever it goes.
LEMMA SignalledStep ==
    ASSUME CoreInv, [Next]_vars
    PROVE  \/ Signalled' = Signalled
           \/ \E w \in PE : SignalBarrier(w) /\ Signalled' = Signalled \cup {task[w]}
<1> USE DEF CoreInv, TypeOK, WorkerTypeOK
<1>1. CASE UNCHANGED <<wpc, task, completed, stream_log>>
  BY <1>1 DEF Signalled, PE
<1>2. CASE PopCompleted
  <2>1. PICK w \in PE : w = idx
    BY <1>2 DEF PopCompleted, LoopInv
  <2> DEFINE t == Head(completed[w])
  <2>2. /\ completed' = [completed EXCEPT ![w] = Tail(@)]
        /\ stream_log' = stream_log \cup {t}
        /\ UNCHANGED <<wpc, task>>
        /\ completed[w] \in Seq(Task) /\ completed[w] # <<>>
    BY <1>2, <2>1 DEF PopCompleted, LoopInv
  <2>3. ToSet(completed[w]) = ToSet(Tail(completed[w])) \cup {t}
    BY <2>2, HeadAndTail
  <2>4. \A v \in PE : completed'[v] = IF v = w THEN Tail(completed[w]) ELSE completed[v]
    BY <2>2
  <2>5. \A x : (\E v \in PE : x \in ToSet(completed'[v])) \/ x = t
                 <=> (\E v \in PE : x \in ToSet(completed[v])) \/ x = t
    BY <2>3, <2>4
  <2>6. \E v \in PE : t \in ToSet(completed[v])
    BY <2>3
  <2>7. ASSUME NEW x PROVE x \in Signalled' <=> x \in Signalled
    BY <2>2, <2>5, <2>6, SignalledIs, SignalledNext
  <2> QED
    BY <2>7
<1>3. ASSUME NEW w \in PE, TakeTask(w) PROVE Signalled' = Signalled
  <2>1. /\ wpc' = [wpc EXCEPT ![w] = "run"] /\ wpc[w] = "poll"
        /\ task' = [task EXCEPT ![w] = Head(todo[w])]
        /\ UNCHANGED <<completed, stream_log>>
    BY <1>3 DEF TakeTask, mainVars, logVars
  <2>2. \A v \in PE : /\ wpc'[v] = "signalled" <=> wpc[v] = "signalled"
                      /\ wpc[v] = "signalled" => task'[v] = task[v]
    BY <2>1
  <2>3. ASSUME NEW x PROVE x \in Signalled' <=> x \in Signalled
    BY <2>1, <2>2, SignalledIs, SignalledNext
  <2> QED
    BY <2>3
<1>4. ASSUME NEW w \in PE, StopWorker(w) PROVE Signalled' = Signalled
  <2>1. /\ wpc' = [wpc EXCEPT ![w] = "exited"] /\ wpc[w] = "poll"
        /\ UNCHANGED <<task, completed, stream_log>>
    BY <1>4 DEF StopWorker, mainVars, logVars
  <2>2. \A v \in PE : wpc'[v] = "signalled" <=> wpc[v] = "signalled"
    BY <2>1
  <2>3. ASSUME NEW x PROVE x \in Signalled' <=> x \in Signalled
    BY <2>1, <2>2, SignalledIs, SignalledNext
  <2> QED
    BY <2>3
<1>5. ASSUME NEW w \in PE, HandBack(w) PROVE Signalled' = Signalled
  <2>1. /\ wpc' = [wpc EXCEPT ![w] = "poll"] /\ wpc[w] = "signalled"
        /\ task' = [task EXCEPT ![w] = NoTask]
        /\ completed' = [completed EXCEPT ![w] = Append(@, task[w])]
        /\ UNCHANGED stream_log
    BY <1>5 DEF HandBack, mainVars, logVars
  <2>2. completed[w] \in Seq(Task) /\ task[w] \in Task
    BY <2>1 DEF WorkerInv
  <2>3. ToSet(Append(completed[w], task[w])) = ToSet(completed[w]) \cup {task[w]}
    BY <2>2, AppendElements
  <2>4. \A v \in PE :
          /\ wpc'[v] = "signalled" <=> wpc[v] = "signalled" /\ v # w
          /\ v # w => task'[v] = task[v] /\ completed'[v] = completed[v]
          /\ v = w => completed'[v] = Append(completed[w], task[w])
    BY <2>1
  <2>5. ASSUME NEW x, x \in Signalled PROVE x \in Signalled'
    BY <2>1, <2>3, <2>4, <2>5, SignalledIs, SignalledNext
  <2>6. ASSUME NEW x, x \in Signalled' PROVE x \in Signalled
    BY <2>1, <2>3, <2>4, <2>6, SignalledIs, SignalledNext
  <2> QED
    BY <2>5, <2>6
<1>6. ASSUME NEW w \in PE, SignalBarrier(w) PROVE Signalled' = Signalled \cup {task[w]}
  <2>1. /\ wpc' = [wpc EXCEPT ![w] = "signalled"]
        /\ UNCHANGED <<task, completed, stream_log>>
    BY <1>6 DEF SignalBarrier, mainVars, logVars
  <2>2. \A v \in PE : wpc'[v] = "signalled" <=> wpc[v] = "signalled" \/ v = w
    BY <2>1
  <2>3. ASSUME NEW x PROVE x \in Signalled' <=> x \in Signalled \/ x = task[w]
    BY <2>1, <2>2, SignalledIs, SignalledNext
  <2> QED
    BY <2>3
<1> QED
  BY <1>1, <1>2, <1>3, <1>4, <1>5, <1>6, WhoSignals

\* What every action leaves alone but those that open, fill, count or leave a
\* barrier.
BarrierStill ==
    /\ UNCHANGED <<ctr, first, size, task_count>>
    /\ \A a \in Apps : /\ CallOpen(a)' <=> CallOpen(a)
                       /\ apc'[a] = "asleep" => apc[a] = "asleep"

\* Only four kinds of steps change a barrier: the worker's signal, and the
\* caller's opening, filling and leaving of it.
LEMMA WhoTouchesBarriers ==
    ASSUME CoreInv, [Next]_vars
    PROVE  \/ BarrierStill
           \/ \E w \in PE : SignalBarrier(w)
           \/ \E a \in Apps : \/ \E n \in 1..MaxBatch : OpenBarrier(a, n)
                              \/ NumberTask(a) /\ a \in app_thread_map
                              \/ CheckBarrier(a)
<1> USE DEF BarrierStill, CallOpen, vars, mainVars, workerVars, callVars,
   queueVars,
            otherThanPhase
<1>0. apc \in [Apps -> AppState]
  BY DEF CoreInv, TypeOK, CallTypeOK
<1>1. CASE Client
  BY <1>1 DEF Client, SubDag, KillDaemon
<1>2. CASE Main
  <2>1. ASSUME NEW a \in Apps, LaunchApp(a) PROVE BarrierStill
    <3>1. apc[a] = "unborn" /\ apc' = [apc EXCEPT ![a] = "main"]
      BY <2>1 DEF LaunchApp, CoreInv, StartInv
    <3>2. UNCHANGED <<ctr, first, size, task_count>>
      BY <2>1 DEF LaunchApp
    <3> QED
      BY <1>0, <3>1, <3>2
  <2>2. ASSUME NEW a \in Apps, RegisterApp(a) PROVE BarrierStill
    BY <2>2 DEF RegisterApp
  <2>3. ASSUME NEW i \in DOMAIN ready_queue, NEW w \in PE, AssignTask(i, w) PROVE BarrierStill
    BY <2>3 DEF AssignTask
  <2>4. \/ ReceiveApps \/ ReceiveNothing \/ BeginExit \/ ArriveApps \/ BeginScheduling
        \/ EndScheduling \/ CountCompleted \/ PopCompleted \/ BeginSweep \/ KeepPill \/ ReapApp
        \/ EndSweep \/ ReadNullPill \/ QuiescePE \/ RetirePE \/ JoinPill \/ KickOutApps
        \/ JoinWorkers
        => UNCHANGED callVars
    BY DEF ReceiveApps, ReceiveNothing, BeginExit, ArriveApps, BeginScheduling,
      EndScheduling, CountCompleted, PopCompleted, BeginSweep, KeepPill, ReapApp, EndSweep,
      ReadNullPill, QuiescePE, RetirePE, JoinPill, KickOutApps, JoinWorkers
  <2>5. UNCHANGED callVars => BarrierStill
    OBVIOUS
  <2> HIDE DEF BarrierStill, callVars
  <2> QED
    BY <1>2, <2>1, <2>2, <2>3, <2>4, <2>5 DEF Main
<1>3. ASSUME NEW w \in PE, Worker(w)
      PROVE  BarrierStill \/ SignalBarrier(w)
  BY <1>3 DEF Worker, TakeTask, HandBack, StopWorker
<1>4. ASSUME NEW a \in Apps, BecomeDue(a) \/ AppThread(a) \/ WakeSpuriously(a)
      PROVE  \/ BarrierStill
             \/ \E n \in 1..MaxBatch : OpenBarrier(a, n)
             \/ NumberTask(a) /\ a \in app_thread_map
             \/ CheckBarrier(a)
  <2>1. BecomeDue(a) => BarrierStill
    BY DEF BecomeDue
  <2>2. WakeSpuriously(a) => BarrierStill
    BY <1>0 DEF WakeSpuriously
  <2>3. NumberTask(a) => BarrierStill \/ a \in app_thread_map
    BY DEF NumberTask
  <2>4. PushReady(a) => BarrierStill
    BY <1>0 DEF PushReady
  <2>5. InjectPill(a) => BarrierStill
    BY <1>0 DEF InjectPill, MayCall
  <2>6. ExitThread(a) => BarrierStill
    BY <1>0 DEF ExitThread
  <2> QED
    BY <1>4, <2>1, <2>2, <2>3, <2>4, <2>5, <2>6 DEF AppThread
<1>5. CASE Gone \/ UNCHANGED vars
  BY <1>5 DEF Gone
<1> QED
  BY <1>1, <1>2, <1>3, <1>4, <1>5 DEF Next

\* BarrierInv of one application.
BarrierOf(a) ==
    /\ CallOpen(a) => ctr[a] = Cardinality(SignalledOf(a))
    /\ \A t \in Numbered(a) \ Signalled : CallOpen(a) /\ t[2] >= first[a]
    /\ apc[a] = "asleep" => ~BatchDone(a)

\* BarrierInv, application by application.
LEMMA BarrierByApp == BarrierInv <=> \A a \in Apps : BarrierOf(a)
BY DEF BarrierInv, BarrierOf

\* Nothing that concerns the barrier of a changed.
LEMMA BarrierFrame ==
    ASSUME NEW a \in Apps, BarrierOf(a),
           ctr'[a] = ctr[a], first'[a] = first[a], size'[a] = size[a],
           task_count'[a] = task_count[a],
           CallOpen(a)' <=> CallOpen(a),
           apc'[a] = "asleep" => apc[a] = "asleep",
           SignalledOf(a)' = SignalledOf(a),
           Signalled \subseteq Signalled'
    PROVE  BarrierOf(a)'
<1>1. Numbered(a)' = Numbered(a)
  BY DEF Numbered
<1> QED
  BY <1>1 DEF BarrierOf, BatchDone

\* Every step keeps each barrier's counter equal to its signalled tasks: a
\* worker's signal adds a task that was not signalled, and a call returns only
\* when none is missing.
LEMMA BarrierStep ==
    ASSUME CoreInv, EveryTaskInOnePlace, BarrierInv, [Next]_vars
    PROVE  BarrierInv'
<1> SUFFICES ASSUME NEW a \in Apps PROVE BarrierOf(a)'
  BY DEF BarrierInv, BarrierOf
<1>0. /\ apc \in [Apps -> AppState] /\ ctr \in [Apps -> Nat]
      /\ first \in [Apps -> Nat] /\ size \in [Apps -> Nat] /\ task_count \in [Apps -> Nat]
      /\ left \in [Apps -> Nat]
      /\ BarrierOf(a)
  BY BarrierByApp DEF CoreInv, TypeOK, CallTypeOK
<1>1. ASSUME BarrierStill, Signalled' = Signalled PROVE BarrierOf(a)'
  <2>1. SignalledOf(a)' = SignalledOf(a)
    BY <1>1 DEF SignalledOf, BarrierStill
  <2> QED
    BY <1>0, <1>1, <2>1, BarrierFrame DEF BarrierStill
<1>2. ASSUME NEW w \in PE, SignalBarrier(w), Signalled' = Signalled \cup {task[w]}
      PROVE  BarrierOf(a)'
  <2> DEFINE t == task[w]
             b == t[1]
  <2>1. b \in Apps /\ t \in Numbered(b) /\ t \notin Signalled
    BY <1>2, RunningUnsignalled DEF SignalBarrier
  <2>2. /\ ctr' = [ctr EXCEPT ![b] = @ + 1]
        /\ apc' = [apc EXCEPT ![b] = IF @ = "asleep" THEN "woken" ELSE @]
        /\ UNCHANGED <<size, first, task_count>>
    BY <1>2 DEF SignalBarrier
  <2>3. CASE a = b
    <3>1. CallOpen(a) /\ t[2] >= first[a]
      BY <1>0, <2>1, <2>3 DEF BarrierOf
    <3>2. SignalledOf(a)' = SignalledOf(a) \cup {t} /\ t \notin SignalledOf(a)
      BY <1>2, <2>1, <2>2, <2>3, <3>1 DEF SignalledOf
    <3>3. IsFiniteSet(SignalledOf(a))
      BY <3>1, BatchSize, SignalledInBatch, FS_Subset
    <3>4. Cardinality(SignalledOf(a)') = Cardinality(SignalledOf(a)) + 1
      BY <3>2, <3>3, FS_AddElement
    <3>5. ctr'[a] = ctr[a] + 1 /\ apc'[a] # "asleep"
      BY <1>0, <2>2, <2>3
    <3>6. CallOpen(a)'
      BY <1>0, <2>2, <2>3, <3>1 DEF CallOpen
    <3>7. Numbered(a)' = Numbered(a) /\ first'[a] = first[a]
      BY <2>2 DEF Numbered
    <3> QED
      BY <1>0, <1>2, <3>1, <3>4, <3>5, <3>6, <3>7 DEF BarrierOf
  <2>4. CASE a # b
    <3>1. SignalledOf(a)' = SignalledOf(a)
      BY <1>2, <2>2, <2>4 DEF SignalledOf
    <3>2. ctr'[a] = ctr[a] /\ apc'[a] = apc[a]
      BY <1>0, <2>2, <2>4
    <3>3. CallOpen(a)' <=> CallOpen(a)
      BY <3>2 DEF CallOpen
    <3> QED
      BY <1>0, <1>2, <2>2, <3>1, <3>2, <3>3, BarrierFrame
  <2> QED
    BY <2>3, <2>4
<1>3. ASSUME NEW b \in Apps, NEW n \in 1..MaxBatch, OpenBarrier(b, n), Signalled' = Signalled
      PROVE  BarrierOf(a)'
  <2>1. /\ apc[b] = "main"
        /\ apc' = [apc EXCEPT ![b] = "call"]
        /\ size' = [size EXCEPT ![b] = n]
        /\ first' = [first EXCEPT ![b] = task_count[b]]
        /\ ctr' = [ctr EXCEPT ![b] = 0]
        /\ UNCHANGED task_count
    BY <1>3 DEF OpenBarrier, MayCall
  <2>2. CASE a = b
    <3>1. Numbered(a) \subseteq Signalled
      BY <1>0, <2>1, <2>2 DEF BarrierOf, CallOpen
    <3>2. Numbered(a)' = Numbered(a)
      BY <2>1 DEF Numbered
    <3>3. SignalledOf(a)' = {}
      <4>1. ASSUME NEW t \in Signalled, t[1] = a PROVE ~(t[2] >= task_count[a])
        BY <1>0, <4>1, SignalledNumbered, NumberedIs
      <4>2. first'[a] = task_count[a]
        BY <1>0, <2>1, <2>2
      <4> QED
        BY <1>3, <4>1, <4>2 DEF SignalledOf
    <3>4. ctr'[a] = 0 /\ apc'[a] = "call"
      BY <1>0, <2>1, <2>2
    <3> QED
      BY <1>3, <3>1, <3>2, <3>3, <3>4, FS_EmptySet DEF BarrierOf
  <2>3. CASE a # b
    <3>1. /\ ctr'[a] = ctr[a] /\ apc'[a] = apc[a] /\ size'[a] = size[a]
          /\ first'[a] = first[a] /\ task_count'[a] = task_count[a]
      BY <1>0, <2>1, <2>3
    <3>2. SignalledOf(a)' = SignalledOf(a) /\ (CallOpen(a)' <=> CallOpen(a))
      BY <1>3, <3>1 DEF SignalledOf, CallOpen
    <3> QED
      BY <1>0, <1>3, <3>1, <3>2, BarrierFrame
  <2> QED
    BY <2>2, <2>3
<1>4. ASSUME NEW b \in Apps, NumberTask(b), b \in app_thread_map, Signalled' = Signalled
      PROVE  BarrierOf(a)'
  <2>1. /\ apc[b] = "call"
        /\ apc' = [apc EXCEPT ![b] = "push"]
        /\ task_count' = [task_count EXCEPT ![b] = @ + 1]
        /\ UNCHANGED <<size, first, ctr>>
    BY <1>4 DEF NumberTask
  <2>2. SignalledOf(a)' = SignalledOf(a)
    BY <1>4, <2>1 DEF SignalledOf
  <2>3. CASE a = b
    <3>1. apc'[a] = "push" /\ task_count'[a] = task_count[a] + 1
      BY <1>0, <2>1, <2>3
    <3>2. CallOpen(a) /\ CallOpen(a)'
      BY <2>1, <2>3, <3>1 DEF CallOpen
    <3>3. task_count[a] >= first[a]
      BY <3>2 DEF CoreInv, BatchInv
    <3>4. \A t \in Numbered(a)' : t \in Numbered(a) \/ t[2] = task_count[a]
      <4>1. 0..(task_count'[a] - 1) = 0..(task_count[a] - 1) \cup {task_count[a]}
        BY <1>0, <3>1
      <4> QED
        BY <4>1 DEF Numbered
    <3>5. \A t \in Numbered(a)' \ Signalled' : t[2] >= first'[a]
      BY <1>0, <1>4, <2>1, <3>3, <3>4 DEF BarrierOf
    <3> QED
      BY <1>0, <2>1, <2>2, <3>1, <3>2, <3>5 DEF BarrierOf
  <2>4. CASE a # b
    <3>1. apc'[a] = apc[a] /\ task_count'[a] = task_count[a]
      BY <1>0, <2>1, <2>4
    <3>2. CallOpen(a)' <=> CallOpen(a)
      BY <3>1 DEF CallOpen
    <3> QED
      BY <1>0, <1>4, <2>1, <2>2, <3>1, <3>2, BarrierFrame
  <2> QED
    BY <2>3, <2>4
<1>5. ASSUME NEW b \in Apps, CheckBarrier(b), Signalled' = Signalled
      PROVE  BarrierOf(a)'
  <2>1. apc[b] \in {"check", "woken"} /\ UNCHANGED task_count
    BY <1>5 DEF CheckBarrier
  <2>2. CASE a # b
    <3>1. /\ ctr'[a] = ctr[a] /\ apc'[a] = apc[a] /\ size'[a] = size[a]
          /\ first'[a] = first[a]
      BY <1>0, <1>5, <2>2 DEF CheckBarrier
    <3>2. SignalledOf(a)' = SignalledOf(a) /\ (CallOpen(a)' <=> CallOpen(a))
      BY <1>5, <3>1 DEF SignalledOf, CallOpen
    <3> QED
      BY <1>0, <1>5, <2>1, <3>1, <3>2, BarrierFrame
  <2>3. CASE a = b /\ BatchDone(b)
    <3>1. apc'[a] = "main"
      BY <1>0, <1>5, <2>3 DEF CheckBarrier
    <3>2. CallOpen(a) /\ left[a] = 0
      BY <2>1, <2>3 DEF CallOpen, CoreInv, BatchInv
    <3>3. Batch(a) \subseteq Signalled
      BY <2>3, <3>2, FullBarrier
    <3>4. \A t \in Numbered(a) : t[2] >= first[a] => t \in Batch(a)
      BY <1>0 DEF Numbered, Batch
    <3>5. Numbered(a) \subseteq Signalled
      BY <1>0, <3>3, <3>4 DEF BarrierOf
    <3>6. Numbered(a)' = Numbered(a)
      BY <2>1 DEF Numbered
    <3> QED
      BY <1>5, <3>1, <3>5, <3>6 DEF BarrierOf, CallOpen
  <2>4. CASE a = b /\ ~BatchDone(b)
    <3>1. apc'[a] = "asleep" /\ UNCHANGED <<size, first, ctr>>
      BY <1>0, <1>5, <2>4 DEF CheckBarrier
    <3>2. CallOpen(a) /\ CallOpen(a)' /\ ~BatchDone(a)'
      BY <2>1, <2>4, <3>1 DEF CallOpen, BatchDone
    <3>3. SignalledOf(a)' = SignalledOf(a) /\ Numbered(a)' = Numbered(a)
      BY <1>5, <2>1, <3>1 DEF SignalledOf, Numbered
    <3> QED
      BY <1>0, <1>5, <3>1, <3>2, <3>3 DEF BarrierOf
  <2> QED
    BY <2>2, <2>3, <2>4
<1>6. Signalled' = Signalled \/ \E w \in PE : SignalBarrier(w) /\ Signalled' = Signalled \cup {task[w]}
  BY SignalledStep
<1>7. ASSUME NEW w \in PE, SignalBarrier(w) PROVE Signalled' # Signalled
  <2>1. task[w] \notin Signalled
    BY <1>7, RunningUnsignalled DEF SignalBarrier
  <2>2. task[w] \in Signalled'
    <3>1. wpc'[w] = "signalled" /\ task'[w] = task[w]
      BY <1>7 DEF SignalBarrier, CoreInv, TypeOK, WorkerTypeOK
    <3> QED
      BY <3>1, SignalledNext
  <2> QED
    BY <2>1, <2>2
<1> QED
  BY <1>1, <1>2, <1>3, <1>4, <1>5, <1>6, <1>7, WhoTouchesBarriers

\* At first nothing is numbered and no call is open.
LEMMA BarrierInit == Init => BarrierInv
<1> SUFFICES ASSUME Init, NEW a \in Apps PROVE BarrierOf(a)
  BY BarrierByApp
<1>1. apc[a] = "unborn" /\ task_count[a] = 0
  BY DEF Init
<1>2. Numbered(a) = {}
  BY <1>1 DEF Numbered
<1> QED
  BY <1>1, <1>2 DEF BarrierOf, CallOpen

\* Where tasks and barriers stand.
BarrierCore == CoreInv /\ EveryTaskInOnePlace /\ BarrierInv

\* BarrierCore holds in every reachable state: the counter of an open barrier is
\* the number of its tasks whose workers took its mutex.
THEOREM BarrierInvariance == Spec => []BarrierCore
<1>1. Init => BarrierCore
  BY CoreInit, TaskInit, BarrierInit DEF BarrierCore
<1>2. BarrierCore /\ [Next]_vars => BarrierCore'
  BY CoreInductive, TaskStep, BarrierStep DEF BarrierCore
<1> QED
  BY <1>1, <1>2, PTL DEF Spec

\* BarrierAlive: a worker never signals a barrier whose call has returned, for
\* any number of calls that share it.
THEOREM BarriersOutliveSignals == Spec => []BarrierAlive
<1>1. ASSUME BarrierCore, NEW w \in PE, wpc[w] = "run"
      PROVE  CallOpen(task[w][1]) /\ task[w][2] >= first[task[w][1]]
  BY <1>1, RunningUnsignalled DEF BarrierCore, BarrierInv
<1>2. BarrierCore => BarrierAlive
  BY <1>1 DEF BarrierAlive
<1> QED
  BY <1>2, BarrierInvariance, PTL

\* A task that was not signalled and is not about to be queued is on its way to a
\* signal: a worker that left its loop has nothing in its queue.
LEMMA UnsignalledIsOnItsWay ==
    ASSUME CoreInv, EveryTaskInOnePlace, NEW a \in Apps, apc[a] # "push",
           NEW t \in Numbered(a), t \notin Signalled
    PROVE  ToBeSignalled(t)
<1>1. PICK p \in Place : t \in Contents(p)
  BY DEF EveryTaskInOnePlace
<1>2. \/ p \in {<<"draft", 0>>, <<"ready", 0>>, <<"logged", 0>>}
      \/ \E w \in PE : p \in {<<"todo", w>>, <<"held", w>>, <<"handed", w>>}
  BY <1>1 DEF Place
<1>3. p # <<"draft", 0>>
  <2> SUFFICES ASSUME p = <<"draft", 0>> PROVE FALSE
    OBVIOUS
  <2>1. PICK b \in Pushing : t = <<b, task_count[b] - 1>>
    BY <1>1, ContentsAt
  <2>2. t[1] = a
    BY DEF Numbered
  <2> QED
    BY <2>1, <2>2 DEF Pushing
<1>4. p # <<"logged", 0>> /\ \A w \in PE : p # <<"handed", w>>
  <2>1. stream_log \subseteq Signalled /\ \A w \in PE : ToSet(completed[w]) \subseteq Signalled
    BY DEF Signalled
  <2> QED
    BY <1>1, <2>1, ContentsAt
<1>5. CASE p = <<"ready", 0>>
  BY <1>1, <1>5, ContentsAt DEF ToBeSignalled
<1>6. ASSUME NEW w \in PE, p = <<"todo", w>> PROVE ToBeSignalled(t)
  <2>1. t \in ToSet(todo[w])
    BY <1>1, <1>6, ContentsAt
  <2>2. todo[w] # <<>>
    BY <2>1 DEF ToSet
  <2>3. wpc[w] # "exited"
    BY <2>2 DEF CoreInv, WorkerInv
  <2> QED
    BY <2>1, <2>3 DEF ToBeSignalled
<1>7. ASSUME NEW w \in PE, p = <<"held", w>> PROVE ToBeSignalled(t)
  <2>1. t = task[w] /\ task[w] # NoTask
    BY <1>1, <1>7, ContentsAt
  <2>2. wpc[w] \in {"run", "signalled"}
    BY <2>1 DEF CoreInv, WorkerInv
  <2>3. wpc[w] # "signalled"
    BY <2>1 DEF Signalled
  <2> QED
    BY <2>1, <2>2, <2>3 DEF ToBeSignalled
<1> QED
  BY <1>2, <1>3, <1>4, <1>5, <1>6, <1>7

\* SleeperIsOwed: no wakeup is lost, however signals and waits interleave, and no
\* worker leaves with a task that somebody waits for.
THEOREM SleepersAreOwed == Spec => []SleeperIsOwed
<1>1. ASSUME BarrierCore, NEW a \in Apps, apc[a] = "asleep"
      PROVE  \E t \in Numbered(a) \ Signalled : t[2] >= first[a] /\ ToBeSignalled(t)
  <2>1. CoreInv /\ EveryTaskInOnePlace /\ BarrierInv
    BY <1>1 DEF BarrierCore
  <2>2. CallOpen(a) /\ left[a] = 0
    BY <1>1, <2>1 DEF CallOpen, CoreInv, BatchInv
  <2>3. ~BatchDone(a)
    BY <1>1, <2>1 DEF BarrierInv
  <2>4. PICK t \in Batch(a) : t \notin Signalled
    BY <2>1, <2>2, <2>3, FullBarrier
  <2>5. t \in Numbered(a) /\ t[2] >= first[a]
    BY <2>1 DEF Batch, Numbered, CoreInv, TypeOK, CallTypeOK
  <2>6. ToBeSignalled(t)
    BY <1>1, <2>1, <2>4, <2>5, UnsignalledIsOnItsWay
  <2> QED
    BY <2>4, <2>5, <2>6
<1>2. BarrierCore => SleeperIsOwed
  BY <1>1 DEF SleeperIsOwed
<1> QED
  BY <1>2, BarrierInvariance, PTL

=============================================================================
