---------------------------- MODULE CedrRuntime ----------------------------
(***************************************************************************)
(* The API-based CEDR daemon (src-api): one main thread, one worker thread *)
(* per processing element (PE), and one thread per running application.    *)
(*                                                                         *)
(* An application calls a DASH kernel; enqueue_kernel appends a task to    *)
(* ready_queue; the main thread schedules ready tasks onto the             *)
(* todo_task_dequeue of a PE; the worker runs the kernel, releases the     *)
(* caller through the call's barrier and hands the task back in            *)
(* completed_task_dequeue; the main thread logs and frees it.  When the    *)
(* application's main function returns, its thread leaves a poison pill    *)
(* from which the main thread joins it and frees the application.          *)
(*                                                                         *)
(* Each step is one critical section, or one stretch of code that touches  *)
(* no state another thread reads.                                          *)
(***************************************************************************)
EXTENDS Integers, FiniteSets, SequencesExt

CONSTANTS
    Apps,          \* the application instances that may ever be submitted
    NumPEs,        \* cedr_config.getTotalResources()
    CanRun,        \* CanRun[a]: the PEs that implement the kernels a calls
    MaxCalls,      \* MaxCalls[a]: bound on the kernel calls a makes
    MaxBatch,      \* bound on the calls that share one barrier
    Queueing,      \* config "Enable Queueing"
    ExitWhenIdle,  \* config "Exit When Idle"
    LateStart,     \* a new thread reaches its first call after main registered it
    NoTask,        \* the null task_nodes*
    NoApp          \* the null cedr_app*

PE == 1..NumPEs

\* A task_nodes is identified by its application and its task_id.
Task == Apps \X Nat

\* A poison pill names the thread that left it and that thread's application.
Pill == [thread : Apps, app : Apps \cup {NoApp}]

ASSUME ConstantsAssumption ==
    /\ NumPEs \in Nat \ {0}
    /\ CanRun \in [Apps -> SUBSET PE]
    /\ \A a \in Apps : CanRun[a] # {}
    /\ MaxCalls \in [Apps -> Nat]
    /\ MaxBatch \in Nat
    /\ {Queueing, ExitWhenIdle, LateStart} \subseteq BOOLEAN
    /\ NoTask \notin Task
    /\ NoApp \notin Apps
    /\ IsFiniteSet(Apps)

VARIABLES
    \* The submission slot, as the main thread will find it.
    cmd,           \* "NOPE", "SH_OBJ", "TERMINATE", or "CLOSED" once removed
    payload,       \* the instances an "SH_OBJ" command asks for
    \* The main thread.
    mpc,           \* where launchDaemonRuntime stands
    idx,           \* the index of its innermost loop
    cnt,           \* tasks_scheduled, completed_task_queue_length or pill count
    received,      \* receivedFirstSubDag
    unarrived,     \* unarrived_apps
    due,           \* those of them whose arrival_time has passed
    arrived,       \* arrived_nonstreaming_apps
    is_running,    \* the instances with is_running set
    app_thread_map,\* the instances whose thread has an entry
    cancelled,     \* the instances given to pthread_cancel
    freed,         \* the instances whose cedr_app was freed
    stream_log,    \* stream_timing_log, as the set of tasks it records
    \* Shared queues and counters.
    ready_queue,
    poison_queue,
    task_count,
    completed_count, \* completed_task_count
    \* Workers.
    wpc,
    task,          \* the task a worker runs
    resource_state,
    todo,          \* todo_task_dequeue
    completed,     \* completed_task_dequeue
    \* Application threads and the barrier of their open call.
    apc,
    left,          \* calls still to issue before waiting
    size,          \* calls that share the barrier
    first,         \* task_id of the first of them
    ctr            \* *completion_ctr

slotVars   == <<cmd, payload>>
phaseVars  == <<mpc, idx, cnt>>
arriveVars == <<received, unarrived, due, arrived>>
threadVars == <<is_running, app_thread_map, cancelled, freed>>
logVars    == <<completed_count, stream_log>>
workerVars == <<wpc, task, resource_state, todo, completed>>
callVars   == <<apc, left, size, first, ctr, task_count>>
queueVars  == <<ready_queue, poison_queue>>
\* What only clients and the main thread write.
mainVars == <<slotVars, phaseVars, arriveVars, threadVars, logVars>>
otherThanPhase == <<slotVars, arriveVars, threadVars, logVars, queueVars,
                    workerVars, callVars>>
vars == <<mainVars, queueVars, workerVars, callVars>>

-----------------------------------------------------------------------------
(* Slips: definitions of this module as a plausible bug would have them.   *)
(* The specification uses none of them.  Model checked in the place of     *)
(* the definitions they resemble, they show what each property notices.    *)

\* BatchDone, when the first signal is taken for the last.
AnySignal(a) == ctr[a] > 0

\* Idle, when a task that was not drained yet is overlooked.
IdleUndrained(w) == resource_state[w] = 0 /\ todo[w] = <<>>

\* Quiet, when a running task is overlooked, or a drain awaited.
NothingQueued(w) == todo[w] = <<>>
QuietDrained(w) == resource_state[w] = 0 /\ todo[w] = <<>> /\ completed[w] = <<>>

\* AllLogged, when the pill is believed, or the pill is counted as a task.
PillBelieved(a) == apc[a] # "unborn"
PillCounted(a) == completed_count[a] = task_count[a] + 1

\* KickOutCondition, when it is put right, but a cancelled thread goes on until it
\* notices.
KickOutRunning == arrived # {}

\* ShouldExitEarly, when running applications are overlooked.
NoneAwaited == ExitWhenIdle /\ received /\ unarrived = {}

\* TakeTask, when the task is read but not popped.
ReadTask(w) ==
    /\ mpc \notin {"done", "dead", "crashed"} /\ wpc[w] = "poll" /\ todo[w] # <<>>
    /\ task' = [task EXCEPT ![w] = Head(todo[w])]
    /\ resource_state' = [resource_state EXCEPT ![w] = 1]
    /\ wpc' = [wpc EXCEPT ![w] = "run"]
    /\ UNCHANGED <<mainVars, queueVars, todo, completed, callVars>>

\* PushReady, when it does not take ready_queue_mutex.
PushUnlocked(a) ==
    /\ mpc \notin {"done", "dead", "crashed"} /\ apc[a] = "push"
    /\ ready_queue' = Append(ready_queue, <<a, task_count[a] - 1>>)
    /\ apc' = [apc EXCEPT ![a] = IF left[a] = 0 THEN "check" ELSE "call"]
    /\ UNCHANGED <<mainVars, poison_queue, workerVars, left, size, first, ctr,
                   task_count>>

\* SignalBarrier, when the call is counted and its caller not woken.
CountSilently(w) ==
    /\ mpc \notin {"done", "dead", "crashed"} /\ wpc[w] = "run"
    /\ apc[task[w][1]] \notin {"call", "push", "check"}
    /\ ctr' = [ctr EXCEPT ![task[w][1]] = @ + 1]
    /\ wpc' = [wpc EXCEPT ![w] = "signalled"]
    /\ UNCHANGED <<mainVars, queueVars, task, resource_state, todo, completed,
                   apc, left, size, first, task_count>>

-----------------------------------------------------------------------------
(* Predicates on the state that several actions share.                     *)

\* The process exists: it neither returned from main nor ended by the exit(1)
\* of performScheduling or a null dereference.
Up == mpc \notin {"done", "dead", "crashed"}

\* The daemon has left its main loop.
Exiting == mpc \in {"quiesce", "retire", "joinpills", "joinworkers", "done"}

\* The thread of a owns the mutex of its barrier: from the lock before the
\* first call of the batch to the first pthread_cond_wait.
HoldsBarrier(a) == apc[a] \in {"call", "push", "check"}

\* The batch of a has returned to the application once no call is open.
CallOpen(a) == apc[a] \in {"call", "push", "check", "asleep", "woken"}

\* The barrier's counter has reached the number of calls it stands for.
BatchDone(a) == ctr[a] = size[a]

\* A PE that may be given a task without queueing.
Idle(w) == resource_state[w] = 0 /\ todo[w] = <<>> /\ completed[w] = <<>>

\* A PE whose worker may be told to stop.
Quiet(w) == todo[w] = <<>> /\ resource_state[w] = 0

\* All the tasks of an application have been logged.
AllLogged(a) == completed_count[a] = task_count[a]

ShouldExitEarly == ExitWhenIdle /\ received /\ unarrived = {} /\ arrived = {}

-----------------------------------------------------------------------------
Init ==
    /\ cmd = "NOPE" /\ payload = {}
    /\ mpc = "ipc" /\ idx = 1 /\ cnt = 0
    /\ received = FALSE
    /\ unarrived = {} /\ due = {} /\ arrived = {} /\ is_running = {}
    /\ app_thread_map = {} /\ cancelled = {} /\ freed = {}
    /\ stream_log = {}
    /\ ready_queue = <<>> /\ poison_queue = <<>>
    /\ task_count = [a \in Apps |-> 0]
    /\ completed_count = [a \in Apps |-> 0]
    /\ wpc = [w \in PE |-> "poll"]
    /\ task = [w \in PE |-> NoTask]
    /\ resource_state = [w \in PE |-> 0]
    /\ todo = [w \in PE |-> <<>>]
    /\ completed = [w \in PE |-> <<>>]
    /\ apc = [a \in Apps |-> "unborn"]
    /\ left = [a \in Apps |-> 0]
    /\ size = [a \in Apps |-> 0]
    /\ first = [a \in Apps |-> 0]
    /\ ctr = [a \in Apps |-> 0]

-----------------------------------------------------------------------------
(* Clients and the clock.                                                  *)

\* An instance that nobody asked for yet.
Fresh(a) == /\ a \notin payload \cup unarrived \cup arrived
            /\ apc[a] = "unborn"

\* sub_dag leaves a command in the free slot.  It may ask for nothing that can be
\* instantiated.
SubDag ==
    /\ Up /\ cmd = "NOPE"
    /\ payload' \in SUBSET {a \in Apps : Fresh(a)}
    /\ cmd' = "SH_OBJ"
    /\ UNCHANGED <<phaseVars, arriveVars, threadVars, logVars, queueVars,
                   workerVars, callVars>>

\* kill_daemon leaves a command in the free slot.
KillDaemon ==
    /\ Up /\ cmd = "NOPE"
    /\ cmd' = "TERMINATE"
    /\ UNCHANGED <<payload, phaseVars, arriveVars, threadVars, logVars,
                   queueVars, workerVars, callVars>>

\* The clock passes the arrival_time of an instance.
BecomeDue(a) ==
    /\ Up
    /\ a \in unarrived \ due
    /\ due' = due \cup {a}
    /\ UNCHANGED <<slotVars, phaseVars, received, unarrived, arrived,
                   threadVars, logVars, queueVars, workerVars, callVars>>

-----------------------------------------------------------------------------
(* The main thread: one pass of the loop of launchDaemonRuntime.           *)

\* An SH_OBJ command: every requested instance gets its cedr_app.
ReceiveApps ==
    /\ mpc = "ipc" /\ cmd = "SH_OBJ"
    /\ unarrived' = unarrived \cup payload
    /\ cmd' = "NOPE" /\ payload' = {}
    /\ received' = TRUE
    /\ mpc' = "arrive"
    /\ UNCHANGED <<idx, cnt, due, arrived, threadVars, logVars, queueVars,
                   workerVars, callVars>>

\* Neither a command nor a reason to exit.
ReceiveNothing ==
    /\ mpc = "ipc" /\ cmd = "NOPE" /\ ~ShouldExitEarly
    /\ mpc' = "arrive"
    /\ UNCHANGED <<idx, cnt, otherThanPhase>>

\* A TERMINATE command, whose reader also removes the slot, or an idle daemon
\* that was configured to exit.
BeginExit ==
    /\ mpc = "ipc"
    /\ \/ cmd = "TERMINATE" /\ cmd' = "CLOSED"
       \/ cmd = "NOPE" /\ ShouldExitEarly /\ cmd' = cmd
    /\ mpc' = "quiesce" /\ idx' = 1
    /\ UNCHANGED <<payload, cnt, arriveVars, threadVars, logVars, queueVars,
                   workerVars, callVars>>

\* Every instance whose arrival_time has passed arrives.
ArriveApps ==
    /\ mpc = "arrive"
    /\ unarrived' = unarrived \ due
    /\ arrived' = arrived \cup due
    /\ due' = {}
    /\ mpc' = "launch"
    /\ UNCHANGED <<slotVars, idx, cnt, received, threadVars, logVars,
                   queueVars, workerVars, callVars>>

\* pthread_create for an arrived instance: its thread runs from here on.
LaunchApp(a) ==
    /\ mpc = "launch"
    /\ a \in arrived \ is_running
    /\ is_running' = is_running \cup {a}
    /\ apc' = [apc EXCEPT ![a] = "main"]
    /\ mpc' = "register"
    /\ UNCHANGED <<slotVars, idx, cnt, arriveVars, app_thread_map, cancelled,
                   freed, logVars, queueVars, workerVars, left, size, first,
                   ctr, task_count>>

\* Only now does app_thread_map learn which application the thread belongs to.
RegisterApp(a) ==
    /\ mpc = "register"
    /\ a \in is_running \ (app_thread_map \cup freed)
    /\ app_thread_map' = app_thread_map \cup {a}
    /\ mpc' = "launch"
    /\ UNCHANGED <<slotVars, idx, cnt, arriveVars, is_running, cancelled,
                   freed, logVars, queueVars, workerVars, callVars>>

\* The main thread takes ready_queue_mutex, and keeps it if there is work.
BeginScheduling ==
    /\ mpc = "launch"
    /\ arrived \subseteq is_running
    /\ mpc' = IF ready_queue = <<>> THEN "drain" ELSE "schedule"
    /\ idx' = 1
    /\ cnt' = 0
    /\ UNCHANGED otherThanPhase

\* attemptToAssignTaskToPE succeeds for the i-th ready task and PE w.  Which
\* task goes next, and to which PE, is the policy's choice: every policy
\* assigns some ready task to some PE that implements its kernel, and without
\* queueing only to a PE that is idle and has nothing left to drain.
AssignTask(i, w) ==
    /\ mpc = "schedule"
    /\ w \in CanRun[ready_queue[i][1]]
    /\ Queueing \/ Idle(w)
    /\ todo' = [todo EXCEPT ![w] = Append(@, ready_queue[i])]
    /\ ready_queue' = RemoveAt(ready_queue, i)
    /\ cnt' = cnt + 1
    /\ UNCHANGED <<slotVars, mpc, idx, arriveVars, threadVars, logVars,
                   poison_queue, wpc, task, resource_state, completed,
                   callVars>>

\* No task was assigned: the PE chosen for one of them was taken.  (Some policies
\* try the others too, some do not.)
NothingAssigned ==
    /\ cnt = 0
    /\ ~Queueing
    /\ \E i \in DOMAIN ready_queue : \E w \in CanRun[ready_queue[i][1]] : ~Idle(w)

\* The policy returns.  With queueing it leaves no ready task behind; without,
\* it may, and performScheduling ends the process if it assigned none at all.
EndScheduling ==
    /\ mpc = "schedule"
    /\ \/ ready_queue = <<>> /\ mpc' = "drain"
       \/ ready_queue # <<>> /\ ~Queueing /\ cnt > 0 /\ mpc' = "drain"
       \/ ready_queue # <<>> /\ NothingAssigned /\ mpc' = "dead"
    /\ cnt' = 0
    /\ UNCHANGED <<idx, otherThanPhase>>

\* The main thread reads, under the PE's lock, how many tasks PE idx completed.
CountCompleted ==
    /\ mpc = "drain" /\ idx \in PE
    /\ cnt' = Len(completed[idx])
    /\ IF completed[idx] = <<>>
       THEN mpc' = mpc /\ idx' = idx + 1
       ELSE mpc' = "pop" /\ idx' = idx
    /\ UNCHANGED otherThanPhase

\* It pops one of them, counts it for its application, logs it and frees it.
PopCompleted ==
    /\ mpc = "pop"
    /\ LET t == Head(completed[idx]) IN
          /\ completed_count' = [completed_count EXCEPT ![t[1]] = @ + 1]
          /\ stream_log' = stream_log \cup {t}
    /\ completed' = [completed EXCEPT ![idx] = Tail(@)]
    /\ cnt' = cnt - 1
    /\ IF cnt = 1
       THEN mpc' = "drain" /\ idx' = idx + 1
       ELSE mpc' = mpc /\ idx' = idx
    /\ UNCHANGED <<slotVars, arriveVars, threadVars, queueVars, wpc, task,
                   resource_state, todo, callVars>>

\* The main thread takes poison_queue_mutex, for the whole sweep.
BeginSweep ==
    /\ mpc = "drain" /\ idx \notin PE
    /\ mpc' = "sweep" /\ idx' = 1
    /\ UNCHANGED <<cnt, otherThanPhase>>

\* The pill of an application with tasks still to log stays for a later pass.
KeepPill ==
    /\ mpc = "sweep" /\ idx \in DOMAIN poison_queue
    /\ poison_queue[idx].app # NoApp
    /\ ~AllLogged(poison_queue[idx].app)
    /\ idx' = idx + 1
    /\ UNCHANGED <<mpc, cnt, otherThanPhase>>

\* The pill of a finished application: pthread_join its thread, forget it
\* everywhere, free it and its pill.
ReapApp ==
    /\ mpc = "sweep" /\ idx \in DOMAIN poison_queue
    /\ LET a == poison_queue[idx].app IN
          /\ a # NoApp
          /\ AllLogged(a)
          /\ apc[poison_queue[idx].thread] = "exited"
          /\ arrived' = arrived \ {a}
          /\ app_thread_map' = app_thread_map \ {a}
          /\ freed' = freed \cup {a}
    /\ poison_queue' = RemoveAt(poison_queue, idx)
    /\ UNCHANGED <<slotVars, phaseVars, received, unarrived, due, is_running,
                   cancelled, logVars, ready_queue, workerVars, callVars>>

EndSweep ==
    /\ mpc = "sweep" /\ idx \notin DOMAIN poison_queue
    /\ mpc' = "ipc" /\ idx' = 1
    /\ UNCHANGED <<cnt, otherThanPhase>>

\* A pill that carries no application is dereferenced all the same: at once in
\* the sweep, and after its thread was joined on the way out.
ReadNullPill ==
    /\ \/ mpc = "sweep" /\ idx \in DOMAIN poison_queue
       \/ mpc = "joinpills" /\ idx <= cnt /\ apc[poison_queue[idx].thread] = "exited"
    /\ poison_queue[idx].app = NoApp
    /\ mpc' = "crashed"
    /\ UNCHANGED <<idx, cnt, otherThanPhase>>

-----------------------------------------------------------------------------
(* The main thread on its way out.                                         *)

\* It spins until PE idx has nothing queued and runs nothing ...
QuiescePE ==
    /\ mpc = "quiesce"
    /\ Quiet(idx)
    /\ mpc' = "retire"
    /\ UNCHANGED <<idx, cnt, otherThanPhase>>

\* ... and then, taking the PE's lock anew, tells its worker to stop.
RetirePE ==
    /\ mpc = "retire"
    /\ resource_state' = [resource_state EXCEPT ![idx] = 3]
    /\ IF idx < NumPEs
       THEN mpc' = "quiesce" /\ idx' = idx + 1 /\ cnt' = cnt
       ELSE mpc' = "joinpills" /\ idx' = 1 /\ cnt' = Len(poison_queue)
    /\ UNCHANGED <<slotVars, arriveVars, threadVars, logVars, queueVars, wpc,
                   task, todo, completed, callVars>>

\* It joins the threads of the pills that were there when the loop began.
JoinPill ==
    /\ mpc = "joinpills" /\ idx <= cnt
    /\ poison_queue[idx].app # NoApp
    /\ apc[poison_queue[idx].thread] = "exited"
    /\ arrived' = arrived \ {poison_queue[idx].app}
    /\ idx' = idx + 1
    /\ UNCHANGED <<slotVars, mpc, cnt, received, unarrived, due, threadVars,
                   logVars, queueVars, workerVars, callVars>>

\* The condition under which applications that still run are cancelled:
\* !arrived_nonstreaming_apps.size().
KickOutCondition == arrived = {}

KickOutApps ==
    /\ mpc = "joinpills" /\ idx > cnt
    /\ IF KickOutCondition
       THEN /\ cancelled' = cancelled \cup arrived
            /\ app_thread_map' = app_thread_map \ arrived
            /\ arrived' = {}
       ELSE UNCHANGED <<cancelled, app_thread_map, arrived>>
    /\ mpc' = "joinworkers" /\ idx' = 1 /\ cnt' = 0
    /\ UNCHANGED <<slotVars, received, unarrived, due, is_running,
                   freed, logVars, queueVars, workerVars, callVars>>

\* The workers are joined, the logs written, and main returns.
JoinWorkers ==
    /\ mpc = "joinworkers"
    /\ \A w \in PE : wpc[w] = "exited"
    /\ mpc' = "done"
    /\ UNCHANGED <<idx, cnt, otherThanPhase>>

-----------------------------------------------------------------------------
(* The worker of PE w: hardware_thread.                                    *)

\* It takes the oldest task of its queue.
TakeTask(w) ==
    /\ Up
    /\ wpc[w] = "poll" /\ todo[w] # <<>>
    /\ task' = [task EXCEPT ![w] = Head(todo[w])]
    /\ todo' = [todo EXCEPT ![w] = Tail(@)]
    /\ resource_state' = [resource_state EXCEPT ![w] = 1]
    /\ wpc' = [wpc EXCEPT ![w] = "run"]
    /\ UNCHANGED <<mainVars, queueVars, completed, callVars>>

\* It runs the kernel and then, holding the mutex of the caller's barrier,
\* counts the call and signals the condition variable.
SignalBarrier(w) ==
    /\ Up
    /\ wpc[w] = "run"
    /\ LET a == task[w][1] IN
          /\ ~HoldsBarrier(a)
          /\ ctr' = [ctr EXCEPT ![a] = @ + 1]
          /\ apc' = [apc EXCEPT ![a] = IF @ = "asleep" THEN "woken" ELSE @]
    /\ wpc' = [wpc EXCEPT ![w] = "signalled"]
    /\ UNCHANGED <<mainVars, queueVars, task, resource_state, todo, completed,
                   left, size, first, task_count>>

\* It hands the task back and is free for the next one.
HandBack(w) ==
    /\ Up
    /\ wpc[w] = "signalled"
    /\ completed' = [completed EXCEPT ![w] = Append(@, task[w])]
    /\ resource_state' = [resource_state EXCEPT ![w] = 0]
    /\ task' = [task EXCEPT ![w] = NoTask]
    /\ wpc' = [wpc EXCEPT ![w] = "poll"]
    /\ UNCHANGED <<mainVars, queueVars, todo, callVars>>

\* Told to stop, and with nothing queued, it leaves its loop.
StopWorker(w) ==
    /\ Up
    /\ wpc[w] = "poll" /\ todo[w] = <<>> /\ resource_state[w] = 3
    /\ wpc' = [wpc EXCEPT ![w] = "exited"]
    /\ UNCHANGED <<mainVars, queueVars, task, resource_state, todo, completed,
                   callVars>>

-----------------------------------------------------------------------------
(* The thread of application a: nk_thread_func around its main function.   *)

\* The thread may outrun the main thread's registration of it, unless the
\* instance is configured to start late.
MayCall(a) == Up /\ apc[a] = "main" /\ (LateStart => a \in app_thread_map)

\* It locks a new barrier for a batch of n calls.  A blocking call is a batch
\* of one; a program that uses the non-blocking calls issues several.
OpenBarrier(a, n) ==
    /\ MayCall(a)
    /\ task_count[a] + n <= MaxCalls[a]
    /\ apc' = [apc EXCEPT ![a] = "call"]
    /\ left' = [left EXCEPT ![a] = n]
    /\ size' = [size EXCEPT ![a] = n]
    /\ first' = [first EXCEPT ![a] = task_count[a]]
    /\ ctr' = [ctr EXCEPT ![a] = 0]
    /\ UNCHANGED <<mainVars, queueVars, workerVars, task_count>>

\* enqueue_kernel builds the task: it looks the application up and draws the
\* task_id from it.
NumberTask(a) ==
    /\ Up
    /\ apc[a] = "call"
    /\ IF a \in app_thread_map
       THEN /\ task_count' = [task_count EXCEPT ![a] = @ + 1]
            /\ left' = [left EXCEPT ![a] = @ - 1]
            /\ apc' = [apc EXCEPT ![a] = "push"]
            /\ mpc' = mpc
       ELSE mpc' = "crashed" /\ UNCHANGED <<task_count, left, apc>>
    /\ UNCHANGED <<slotVars, idx, cnt, arriveVars, threadVars, logVars,
                   queueVars, workerVars, size, first, ctr>>

\* It appends the task once it gets ready_queue_mutex, which the main thread
\* holds throughout a scheduling round.
PushReady(a) ==
    /\ Up
    /\ apc[a] = "push"
    /\ mpc # "schedule"
    /\ ready_queue' = Append(ready_queue, <<a, task_count[a] - 1>>)
    /\ apc' = [apc EXCEPT ![a] = IF left[a] = 0 THEN "check" ELSE "call"]
    /\ UNCHANGED <<mainVars, poison_queue, workerVars, left, size, first, ctr,
                   task_count>>

\* while (completion_ctr != n) pthread_cond_wait: the test, on arrival or with
\* the mutex reacquired after a wakeup.  On return the barrier is gone with the
\* frame of the call.
CheckBarrier(a) ==
    /\ Up
    /\ apc[a] \in {"check", "woken"}
    /\ IF BatchDone(a)
       THEN /\ apc' = [apc EXCEPT ![a] = "main"]
            /\ size' = [size EXCEPT ![a] = 0]
            /\ first' = [first EXCEPT ![a] = 0]
            /\ ctr' = [ctr EXCEPT ![a] = 0]
       ELSE apc' = [apc EXCEPT ![a] = "asleep"] /\ UNCHANGED <<size, first, ctr>>
    /\ UNCHANGED <<mainVars, queueVars, workerVars, left, task_count>>

\* pthread_cond_wait may return unsignalled.
WakeSpuriously(a) ==
    /\ Up
    /\ apc[a] = "asleep"
    /\ apc' = [apc EXCEPT ![a] = "woken"]
    /\ UNCHANGED <<mainVars, queueVars, workerVars, left, size, first, ctr,
                   task_count>>

\* The main function returned: the thread appends its poison pill, which the
\* main thread's sweep keeps it from doing meanwhile.
InjectPill(a) ==
    /\ MayCall(a)
    /\ mpc # "sweep"
    /\ poison_queue' = Append(poison_queue,
           [thread |-> a, app |-> IF a \in app_thread_map THEN a ELSE NoApp])
    /\ apc' = [apc EXCEPT ![a] = "pilled"]
    /\ UNCHANGED <<mainVars, ready_queue, workerVars, left, size, first, ctr,
                   task_count>>

ExitThread(a) ==
    /\ Up
    /\ apc[a] = "pilled"
    /\ apc' = [apc EXCEPT ![a] = "exited"]
    /\ UNCHANGED <<mainVars, queueVars, workerVars, left, size, first, ctr,
                   task_count>>

-----------------------------------------------------------------------------
Client == SubDag \/ KillDaemon

Main ==
    \/ ReceiveApps \/ ReceiveNothing \/ BeginExit
    \/ ArriveApps \/ (\E a \in Apps : LaunchApp(a) \/ RegisterApp(a))
    \/ BeginScheduling
    \/ (\E i \in DOMAIN ready_queue, w \in PE : AssignTask(i, w))
    \/ EndScheduling
    \/ CountCompleted \/ PopCompleted
    \/ BeginSweep \/ KeepPill \/ ReapApp \/ EndSweep \/ ReadNullPill
    \/ QuiescePE \/ RetirePE \/ JoinPill \/ KickOutApps
    \/ JoinWorkers

Worker(w) == TakeTask(w) \/ SignalBarrier(w) \/ HandBack(w) \/ StopWorker(w)

\* What the thread of a does by itself, as opposed to a spurious wakeup.
AppThread(a) ==
    \/ \E n \in 1..MaxBatch : OpenBarrier(a, n)
    \/ NumberTask(a) \/ PushReady(a) \/ CheckBarrier(a)
    \/ InjectPill(a) \/ ExitThread(a)

\* The process is gone: nothing moves any more.
Gone == ~Up /\ UNCHANGED vars

Next ==
    \/ Client
    \/ Main
    \/ \E w \in PE : Worker(w)
    \/ \E a \in Apps : BecomeDue(a) \/ AppThread(a) \/ WakeSpuriously(a)
    \/ Gone

\* Every thread keeps running, and time passes.  An application thread that
\* waits for a mutex gets it when it is released again and again: the main
\* thread takes poison_queue_mutex in every pass.
Fairness ==
    /\ WF_vars(Main)
    /\ \A w \in PE : WF_vars(Worker(w))
    /\ \A a \in Apps : SF_vars(AppThread(a)) /\ WF_vars(BecomeDue(a))

Spec == Init /\ [][Next]_vars
FairSpec == Spec /\ Fairness

-----------------------------------------------------------------------------
(* Where a task can be.                                                    *)

Place == ({"draft", "ready", "logged"} \X {0})
            \cup ({"todo", "held", "handed"} \X PE)

\* The tasks at a place: numbered but not yet in ready_queue, in ready_queue,
\* in the todo_task_dequeue, hands or completed_task_dequeue of a PE, or logged
\* and freed.
Contents(p) ==
    CASE p[1] = "draft"  -> {<<a, task_count[a] - 1>> : a \in {b \in Apps : apc[b] = "push"}}
      [] p[1] = "ready"  -> ToSet(ready_queue)
      [] p[1] = "todo"   -> ToSet(todo[p[2]])
      [] p[1] = "held"   -> {task[p[2]]} \ {NoTask}
      [] p[1] = "handed" -> ToSet(completed[p[2]])
      [] p[1] = "logged" -> stream_log

Numbered(a) == {a} \X (0..(task_count[a] - 1))

\* The kernels that ran and whose callers' barriers know it.
Signalled ==
    {task[w] : w \in {v \in PE : wpc[v] = "signalled"}}
        \cup (UNION {ToSet(completed[w]) : w \in PE})
        \cup stream_log

-----------------------------------------------------------------------------
(* Invariants.                                                             *)

MainTypeOK ==
    /\ cmd \in {"NOPE", "SH_OBJ", "TERMINATE", "CLOSED"}
    /\ mpc \in {"ipc", "arrive", "launch", "register", "schedule", "drain", "pop",
                "sweep", "quiesce", "retire", "joinpills", "joinworkers", "done", "dead",
                "crashed"}
    /\ idx \in Nat /\ cnt \in Nat
    /\ received \in BOOLEAN
    /\ payload \subseteq Apps /\ unarrived \subseteq Apps /\ due \subseteq Apps
    /\ arrived \subseteq Apps /\ is_running \subseteq Apps
    /\ app_thread_map \subseteq Apps /\ cancelled \subseteq Apps /\ freed \subseteq Apps

QueueTypeOK ==
    /\ ready_queue \in Seq(Task)
    /\ poison_queue \in Seq(Pill)

LogTypeOK ==
    /\ completed_count \in [Apps -> Nat]
    /\ stream_log \subseteq Task

WorkerTypeOK ==
    /\ wpc \in [PE -> {"poll", "run", "signalled", "exited"}]
    /\ task \in [PE -> Task \cup {NoTask}]
    /\ resource_state \in [PE -> {0, 1, 3}]
    /\ todo \in [PE -> Seq(Task)]
    /\ completed \in [PE -> Seq(Task)]

AppState == {"unborn", "main", "call", "push", "check", "asleep", "woken",
             "pilled", "exited"}

CallTypeOK ==
    /\ apc \in [Apps -> AppState]
    /\ task_count \in [Apps -> Nat]
    /\ left \in [Apps -> Nat] /\ size \in [Apps -> Nat]
    /\ first \in [Apps -> Nat] /\ ctr \in [Apps -> Nat]

TypeOK == MainTypeOK /\ QueueTypeOK /\ LogTypeOK /\ WorkerTypeOK /\ CallTypeOK

\* No queue of the daemon drops, repeats or invents a task on the way from
\* enqueue_kernel to the log: the tasks at the places are exactly those the
\* applications numbered, each is at one place only, and no queue holds it twice.
EveryTaskInOnePlace ==
    /\ UNION {Contents(p) : p \in Place} = UNION {Numbered(a) : a \in Apps}
    /\ \A p, q \in Place : p # q => Contents(p) \cap Contents(q) = {}
    /\ IsInjective(ready_queue)
    /\ \A w \in PE : IsInjective(todo[w]) /\ IsInjective(completed[w])

\* A worker that still has to signal a barrier signals one that exists: the
\* barrier lives in the frame of the call, and the call that owns this task is
\* the one its application is in.
BarrierAlive ==
    \A w \in PE : wpc[w] = "run" =>
        LET t == task[w] IN CallOpen(t[1]) /\ t[2] >= first[t[1]]

\* "To avoid segfaults, we want to erase an application once all of its tasks
\* are logged": a freed cedr_app is referenced by no task, no pill, no list of
\* the main thread and no running thread.
FreedIsUnreferenced ==
    \A a \in freed :
        /\ \A p \in Place : p[1] # "logged" => \A t \in Contents(p) : t[1] # a
        /\ \A p \in ToSet(poison_queue) : a \notin {p.thread, p.app}
        /\ a \notin arrived \cup app_thread_map
        /\ apc[a] = "exited"

\* A worker told to stop, with resource_state 3, has nothing left: the main
\* thread checks that under the PE's lock, releases the lock, and only then
\* writes the 3, so what it checked must still be true.
StoppedIsIdle ==
    \A w \in PE : resource_state[w] = 3 => todo[w] = <<>> /\ task[w] = NoTask

\* A sleeping caller is owed a signal, and somebody can give it: some task of its
\* batch was not signalled yet, and is ready, in the queue of a worker that has
\* not left, or in the hands of one that runs it.  Were none, it would sleep on
\* for ever.
ToBeSignalled(t) ==
    \/ t \in ToSet(ready_queue)
    \/ \E w \in PE :
          \/ t \in ToSet(todo[w]) /\ wpc[w] # "exited"
          \/ t = task[w] /\ wpc[w] = "run"

SleeperIsOwed ==
    \A a \in Apps : apc[a] = "asleep" =>
        \E t \in Numbered(a) \ Signalled : t[2] >= first[a] /\ ToBeSignalled(t)

\* The main thread waits for others in four places: in the sweep, where it holds
\* poison_queue_mutex, for the thread of a pill; and on its way out for a PE to be
\* quiet, for the threads of the pills and for the workers.  Whoever it waits for
\* gets there without it: the thread left its pill and only has to end, and the
\* worker has a task and a caller that needs no lock the main thread holds, or was
\* told to stop and has nothing left.
WaitsEnd ==
    /\ mpc = "sweep" /\ idx \in DOMAIN poison_queue =>
          apc[poison_queue[idx].thread] \in {"pilled", "exited"}
    /\ mpc = "quiesce" /\ ~Quiet(idx) =>
          wpc[idx] \in {"run", "signalled"} \/ (wpc[idx] = "poll" /\ todo[idx] # <<>>)
    /\ mpc = "joinpills" /\ idx <= cnt =>
          /\ idx \in DOMAIN poison_queue
          /\ apc[poison_queue[idx].thread] \in {"pilled", "exited"}
    /\ mpc = "joinworkers" =>
          \A w \in PE :
              \/ wpc[w] = "exited"
              \/ wpc[w] = "poll" /\ todo[w] = <<>> /\ resource_state[w] = 3

\* Without queueing a PE has at most one task, counting the one it runs and one
\* that was not drained, although its state is read in one critical section and
\* the task pushed in another.
OneTaskPerPE ==
    Queueing \/ \A w \in PE :
        Len(todo[w]) + Len(completed[w]) + (IF task[w] = NoTask THEN 0 ELSE 1) <= 1

\* "Exit When Idle": a daemon that leaves its loop unasked leaves no
\* application that it accepted unfinished, and no task or pill behind.
IdleExitIsClean ==
    Exiting /\ cmd # "CLOSED" =>
        /\ \A a \in Apps : apc[a] = "unborn" \/ a \in freed
        /\ ready_queue = <<>> /\ poison_queue = <<>>

\* Where every thread reaches its first call after it was registered, nobody
\* dereferences the null application of a thread that app_thread_map does not
\* know: whatever leaves the map, its thread makes no more calls.
NoNullDereference == LateStart => mpc # "crashed"

-----------------------------------------------------------------------------
(* What makes the invariants above inductive.                              *)

\* The loops of the main thread index what is there.
LoopInv ==
    /\ idx > 0
    /\ mpc \in {"pop", "quiesce", "retire"} => idx \in PE
    /\ mpc = "pop" => cnt \in 1..Len(completed[idx])

\* A worker holds a task, and is told to be busy, while it runs one; what made
\* the main thread stop it is still true when it writes the 3, because by then
\* nothing is assigned any more.
WorkerInv ==
    /\ \A w \in PE :
          /\ wpc[w] \in {"run", "signalled"} <=> resource_state[w] = 1
          /\ wpc[w] \in {"run", "signalled"} <=> task[w] # NoTask
          /\ wpc[w] = "exited" => resource_state[w] = 3
          /\ resource_state[w] = 3 => todo[w] = <<>>
          /\ resource_state[w] = 3 => Exiting \/ ~Up
    /\ mpc = "retire" => Quiet(idx)

\* The tasks of a batch are numbered from first on, and those still to number
\* make up its size.
BatchInv ==
    \A a \in Apps :
        /\ apc[a] = "call" => left[a] > 0
        /\ apc[a] \in {"check", "asleep", "woken"} => left[a] = 0
        /\ apc[a] = "push" => task_count[a] > first[a]
        /\ CallOpen(a) => /\ task_count[a] >= first[a]
                           /\ task_count[a] + left[a] = first[a] + size[a]

\* An application has a thread from the moment it is marked running.
StartInv == \A a \in Apps : apc[a] = "unborn" <=> a \notin is_running

\* Of an application's tasks, those signalled since its batch began are counted
\* by its barrier, and those before were all signalled; who sleeps saw some
\* of them missing.
SignalledOf(a) == {t \in Signalled : t[1] = a /\ t[2] >= first[a]}

BarrierInv ==
    \A a \in Apps :
        /\ CallOpen(a) => ctr[a] = Cardinality(SignalledOf(a))
        /\ \A t \in Numbered(a) \ Signalled : CallOpen(a) /\ t[2] >= first[a]
        /\ apc[a] = "asleep" => ~BatchDone(a)

\* completed_task_count counts the tasks in the log.
LogInv ==
    \A a \in Apps : completed_count[a] = Cardinality({t \in stream_log : t[1] = a})

\* An application passes the lists of the main thread in one direction.
ListInv ==
    /\ due \subseteq unarrived
    /\ \A a \in Apps :
        /\ apc[a] = "unborn" => task_count[a] = 0
        /\ a \in payload => apc[a] = "unborn" /\ a \notin unarrived \cup arrived
        /\ a \in unarrived => apc[a] = "unborn" /\ a \notin arrived
        /\ a \in app_thread_map => a \in is_running

\* It is freed last, when its tasks are logged and its thread has ended.
FreedInv ==
    \A a \in freed : /\ apc[a] = "exited" /\ AllLogged(a)
                     /\ a \notin arrived \cup app_thread_map

\* A thread leaves one pill, which is the last that is heard of it before its
\* application is freed.
PillInv ==
    /\ IsInjective(poison_queue)
    /\ \A p \in ToSet(poison_queue) :
        /\ apc[p.thread] \in {"pilled", "exited"}
        /\ p.thread \notin freed
        /\ p.app \in {p.thread, NoApp}
        /\ \A q \in ToSet(poison_queue) : p.thread = q.thread => p = q

\* Threads that start late are registered while they have a call open, and leave
\* pills that name their application.
LateInv ==
    LateStart =>
        /\ mpc # "crashed"
        /\ \A a \in Apps : CallOpen(a) => a \in app_thread_map
        /\ \A p \in ToSet(poison_queue) : p.app # NoApp

\* On its way out the main thread has told the PEs before idx to stop, and no
\* others; then all of them, and no pill is gone when it is joined.
WayOutInv ==
    /\ mpc \in {"quiesce", "retire"} => \A w \in PE : resource_state[w] = 3 <=> w < idx
    /\ mpc \in {"joinpills", "joinworkers", "done"} => \A w \in PE : resource_state[w] = 3
    /\ mpc = "joinpills" => cnt <= Len(poison_queue)

\* A round has a task to give before it gave one.
RoundInv == mpc = "schedule" /\ cnt = 0 => ready_queue # <<>>

IInv ==
    /\ TypeOK /\ LoopInv /\ WorkerInv /\ BatchInv /\ StartInv
    /\ EveryTaskInOnePlace /\ BarrierInv /\ LogInv
    /\ ListInv /\ FreedInv /\ PillInv /\ LateInv /\ WayOutInv /\ RoundInv

-----------------------------------------------------------------------------
(* What the repository says and the code does not do.                      *)

\* "Store application structs indexed by their main thread": whoever numbers a
\* task finds its application there.
CallerIsIndexed == [][\A a \in Apps : NumberTask(a) => a \in app_thread_map]_vars

\* "Moving on to another task and trying again later": a round that could not
\* place its tasks leaves them for a later one.
TriesAgainLater == [][EndScheduling => mpc' # "dead"]_vars

\* "Kick out forcibly the arrived_nonstreaming_apps threads": once the pills
\* are joined, every application that still runs is cancelled.
RunningAppsKickedOut ==
    mpc \in {"joinworkers", "done"} =>
        \A a \in is_running : apc[a] = "exited" \/ a \in cancelled

-----------------------------------------------------------------------------
(* Action properties.                                                      *)

\* resource_state 3 is never overwritten: a worker told to stop stays told.
StopIsFinal == [][\A w \in PE : resource_state[w] = 3 => resource_state'[w] = 3]_vars

\* The daemon refines the service: kernels run exactly once, and calls return
\* only when their kernels have run.
Life(a) ==
    CASE a \in freed -> "freed"
      [] a \notin freed /\ apc[a] = "unborn" -> "absent"
      [] a \notin freed /\ apc[a] = "main" -> "computing"
      [] a \notin freed /\ CallOpen(a) -> "waiting"
      [] a \notin freed /\ apc[a] \in {"pilled", "exited"} -> "ended"

Service == INSTANCE KernelService WITH
    life <- [a \in Apps |-> Life(a)],
    issued <- task_count,
    executed <- Signalled

ServiceSpec == Service!Spec

\* The rounds of the daemon are those the policies keep to: nobody else adds a
\* ready task, assigns or drains one while a round is open, and a PE is Idle
\* exactly if it has nothing pending.
Pending(w) == ToSet(todo[w]) \cup ({task[w]} \ {NoTask}) \cup ToSet(completed[w])

Round == INSTANCE SchedRound WITH
    Able <- [t \in Task |-> CanRun[t[1]]],
    queueing <- Queueing, exits <- TRUE,
    queue <- ToSet(ready_queue),
    pending <- [w \in PE |-> Pending(w)],
    round <- CASE mpc = "schedule" -> "open"
               [] mpc = "dead" -> "dead"
               [] mpc = "crashed" -> "over"
               [] OTHER -> "rest",
    given <- mpc = "schedule" /\ cnt > 0

RoundSpec == Round!Spec

-----------------------------------------------------------------------------
(* Liveness.                                                               *)

\* A kernel call returns, unless the daemon is killed.
CallsReturn == \A a \in Apps : CallOpen(a) ~> (~CallOpen(a) \/ cmd = "CLOSED")

\* An accepted application is run, joined and freed, unless the daemon is killed.
AppsAreReaped ==
    \A a \in Apps : a \in unarrived \cup arrived ~> (a \in freed \/ cmd = "CLOSED")

\* kill_daemon ends the daemon, whatever the applications are doing.
KillEndsDaemon == cmd = "TERMINATE" ~> mpc = "done"

=============================================================================
