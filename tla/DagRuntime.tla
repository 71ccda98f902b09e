----------------------------- MODULE DagRuntime -----------------------------
(***************************************************************************)
(* The DAG-based CEDR daemon (src-dag): one main thread and one worker     *)
(* thread per processing element (PE).                                     *)
(*                                                                         *)
(* The main thread instantiates submitted graphs, puts the nodes that may  *)
(* fire on ready_queue, schedules them onto the todo_task_dequeue of a PE, *)
(* and drains the completed_task_dequeue of every PE in each pass.  A node *)
(* fires when check_pred_comp finds its inputs and check_succ_comp room    *)
(* for its outputs: both look at the nodes' iter, the number of frames     *)
(* each has finished, and nothing else synchronises the pipeline.          *)
(*                                                                         *)
(* Each step is one critical section, or one stretch of code that touches  *)
(* no state another thread reads.                                          *)
(***************************************************************************)
EXTENDS DagGraph, SequencesExt

CONSTANTS
    NumPEs,        \* cedr_config.getTotalResources()
    CanRun,        \* CanRun[n]: the PEs whose type n supports
    Queueing,      \* config "Enable Queueing"
    ExitWhenIdle,  \* config "Exit When Idle"
    Counting,      \* the policy keeps free_resource_count: not HEFT_RT, nor cached ones
    NoNode         \* the null task_nodes*

PE == 1..NumPEs

ASSUME DaemonAssumption ==
    /\ NumPEs \in Nat \ {0}
    /\ CanRun \in [Node -> SUBSET PE]
    /\ \A n \in Node : CanRun[n] # {}
    /\ {Queueing, ExitWhenIdle, Counting} \subseteq BOOLEAN
    /\ NoNode \notin Node

VARIABLES
    \* The submission slot, as the main thread will find it.
    cmd,           \* "NOPE", "DAG_OBJ", "TERMINATE", or "CLOSED" once removed
    payload,       \* the instances a "DAG_OBJ" command asks for
    \* The main thread.
    mpc,           \* where launchDaemonRuntime stands
    idx,           \* the index of its innermost loop
    cnt,           \* completed_task_queue_length or tasks_scheduled
    received,      \* receivedFirstSubDag
    unarrived,     \* unarrived_apps
    due,           \* those of them whose arrival_time has passed
    arrived,       \* arrived_nonstreaming_apps and arrived_streaming_apps
    completed_apps,
    freed,         \* the instances whose dag_app was freed
    free_resource_count,
    \* Task nodes, which only the main thread writes.
    iter,          \* the frames a node has finished
    in_ready_queue,
    completed_count, \* completed_task_count of an instance
    ready_queue,   \* how often a node is in ready_queue; policies pick freely
    \* Workers.
    wpc,
    task,          \* the node a worker runs
    resource_state,
    todo,          \* todo_task_dequeue
    completed      \* completed_task_dequeue

slotVars   == <<cmd, payload>>
phaseVars  == <<mpc, idx, cnt>>
arriveVars == <<received, unarrived, due, arrived>>
retireVars == <<completed_apps, freed>>
nodeVars   == <<iter, in_ready_queue, completed_count, ready_queue>>
workerVars == <<wpc, task, resource_state, todo, completed>>
mainVars   == <<slotVars, phaseVars, arriveVars, retireVars,
                free_resource_count, nodeVars>>
vars == <<mainVars, workerVars>>

-----------------------------------------------------------------------------
(* Slips: definitions of this module as a plausible bug would have them.   *)
(* The specification uses none of them.  Model checked in the place of     *)
(* the definitions they resemble, they show what each property notices.    *)

\* CheckSucc, when double buffering is taken for room for three frames.
CheckSuccLate(n) ==
    \A c \in Succ(n) :
        iter[c] >= iter[n] - (IF Mode[AppOf[n]] = "double" THEN 2 ELSE 0)

\* CheckPred, when one finished predecessor is taken for all.
CheckPredAny(it, n) ==
    WiredPred(n) = {} \/ \E p \in WiredPred(n) :
        IF Sequential(n) /\ IsHead(n) THEN it[p] = it[n] ELSE it[p] > it[n]

\* CheckPred, when the ring of a sequential graph is not closed.
CheckPredOpen(it, n) == \A p \in Pred[n] : it[p] > it[n]

\* CheckPred, when the edges of the ring are compared like all others.
CheckPredRing(it, n) == \A p \in WiredPred(n) : it[p] > it[n]

\* AppDone, when the instance of a stream counts as one frame.
AppDoneOnce(a, count) == count = Cardinality(NodesOf(a))

\* AppDone, when the comparison is off by one.
AppDoneLate(a, count) ==
    count = 1 + IF Streaming(a) THEN Cardinality(NodesOf(a)) * Frames[a]
                                ELSE Cardinality(NodesOf(a))

\* Idle, when a node that was not drained yet is overlooked.
IdleUndrained(w) == resource_state[w] = 0 /\ todo[w] = <<>>

\* ShouldExitEarly, when running instances are overlooked.
NoneAwaited == ExitWhenIdle /\ received /\ unarrived = {}

\* TakeTask, when the node is read but not popped.
ReadTask(w) ==
    /\ mpc # "done" /\ wpc[w] = "poll" /\ todo[w] # <<>>
    /\ task' = [task EXCEPT ![w] = Head(todo[w])]
    /\ resource_state' = [resource_state EXCEPT ![w] = 1]
    /\ wpc' = [wpc EXCEPT ![w] = "run"]
    /\ UNCHANGED <<mainVars, todo, completed>>

\* RetirePE, when the loop stops one PE short.
RetireShort ==
    /\ mpc = "retire"
    /\ resource_state' = [resource_state EXCEPT ![idx] = 3]
    /\ mpc' = "joinworkers" /\ idx' = 1
    /\ UNCHANGED <<slotVars, cnt, arriveVars, retireVars, free_resource_count,
                   nodeVars, wpc, task, todo, completed>>

-----------------------------------------------------------------------------
(* Predicates and functions of the state that several actions share.       *)

\* The process exists.
Up == mpc # "done"

\* The daemon has left its main loop.
Exiting == mpc \in {"retire", "joinworkers", "done"}

\* A PE that may be given a node without queueing.
Idle(w) == resource_state[w] = 0 /\ todo[w] = <<>> /\ completed[w] = <<>>

\* A node between attemptToAssignTaskToPE and its drain: running_flag.
Running(n) == \E w \in PE : n \in ToSet(todo[w]) \cup {task[w]} \cup ToSet(completed[w])

\* check_pred_comp, given the iter of all nodes.
CheckPred(it, n) ==
    CASE Mode[AppOf[n]] \in {"none", "single"} ->
            \A p \in WiredPred(n) : it[p] = it[n] + 1
      [] Mode[AppOf[n]] = "double" ->
            \A p \in WiredPred(n) : it[p] # it[n]
      [] Mode[AppOf[n]] = "sequential" ->
            \A p \in WiredPred(n) : IF IsHead(n) THEN it[p] = it[n]
                                                 ELSE it[p] # it[n]

\* check_succ_comp: the comparison in double mode is of signed numbers.
CheckSucc(n) ==
    CASE Mode[AppOf[n]] \in {"none", "single"} ->
            \A c \in WiredSucc(n) : iter[c] = iter[n]
      [] Mode[AppOf[n]] = "double" ->
            \A c \in WiredSucc(n) : iter[c] >= iter[n] - 1
      [] Mode[AppOf[n]] = "sequential" ->
            \A c \in WiredSucc(n) : iter[c] = IF IsTail(n) THEN iter[n] + 1
                                                           ELSE iter[n]

\* Nodes enter the ready queue.
Push(S) ==
    ready_queue' = [n \in Node |-> ready_queue[n] + (IF n \in S THEN 1 ELSE 0)]

\* The nodes of a newly arrived instance that start at once.  complete_flag is
\* set from the first drain on, and cleared by nobody.
Starters(S) ==
    {n \in Node : /\ AppOf[n] \in S
                  /\ iter[n] = 0
                  /\ CheckPred(iter, n)
                  /\ ~Running(n)}

\* Fireable, when the number of frames is taken for the last frame.
FireableBeyond ==
    {n \in Node : /\ AppOf[n] \in arrived /\ Streaming(AppOf[n])
                  /\ ~in_ready_queue[n]
                  /\ iter[n] <= Frames[AppOf[n]]
                  /\ CheckPred(iter, n) /\ CheckSucc(n)}

\* The nodes of the streaming instances that may process a further frame.
Fireable ==
    {n \in Node : /\ AppOf[n] \in arrived /\ Streaming(AppOf[n])
                  /\ ~in_ready_queue[n]
                  /\ iter[n] < Frames[AppOf[n]]
                  /\ CheckPred(iter, n) /\ CheckSucc(n)}

\* The successors that the completion of n, which brought the nodes to it,
\* releases in an application that does not stream.
Released(n, it) ==
    {c \in WiredSucc(n) : /\ ~Streaming(AppOf[n])
                          /\ CheckPred(it, c)
                          /\ ~in_ready_queue[c]}

\* An instance has completed as many nodes as it has, once per frame.
AppDone(a, count) ==
    count = IF Streaming(a) THEN Cardinality(NodesOf(a)) * Frames[a]
                            ELSE Cardinality(NodesOf(a))

ShouldExitEarly ==
    ExitWhenIdle /\ received /\ unarrived = {} /\ arrived = {} /\ completed_apps = {}

-----------------------------------------------------------------------------
Init ==
    /\ cmd = "NOPE" /\ payload = {}
    /\ mpc = "ipc" /\ idx = 1 /\ cnt = 0
    /\ received = FALSE
    /\ unarrived = {} /\ due = {} /\ arrived = {}
    /\ completed_apps = {} /\ freed = {}
    /\ free_resource_count = NumPEs
    /\ iter = [n \in Node |-> 0]
    /\ in_ready_queue = [n \in Node |-> FALSE]
    /\ completed_count = [a \in Apps |-> 0]
    /\ ready_queue = [n \in Node |-> 0]
    /\ wpc = [w \in PE |-> "poll"]
    /\ task = [w \in PE |-> NoNode]
    /\ resource_state = [w \in PE |-> 0]
    /\ todo = [w \in PE |-> <<>>]
    /\ completed = [w \in PE |-> <<>>]

-----------------------------------------------------------------------------
(* Clients and the clock.                                                  *)

\* An instance that nobody asked for yet.
Fresh(a) == a \notin payload \cup unarrived \cup arrived \cup completed_apps \cup freed

\* sub_dag leaves a command in the free slot.  It may ask for nothing that can be
\* instantiated.
SubDag ==
    /\ Up /\ cmd = "NOPE"
    /\ payload' \in SUBSET {a \in Apps : Fresh(a)}
    /\ cmd' = "DAG_OBJ"
    /\ UNCHANGED <<phaseVars, arriveVars, retireVars, free_resource_count,
                   nodeVars, workerVars>>

\* kill_daemon leaves a command in the free slot.
KillDaemon ==
    /\ Up /\ cmd = "NOPE"
    /\ cmd' = "TERMINATE"
    /\ UNCHANGED <<payload, phaseVars, arriveVars, retireVars,
                   free_resource_count, nodeVars, workerVars>>

\* The clock passes the arrival_time of an instance.
BecomeDue(a) ==
    /\ Up
    /\ a \in unarrived \ due
    /\ due' = due \cup {a}
    /\ UNCHANGED <<slotVars, phaseVars, received, unarrived, arrived,
                   retireVars, free_resource_count, nodeVars, workerVars>>

-----------------------------------------------------------------------------
(* The main thread: one pass of the loop of launchDaemonRuntime.           *)

\* A DAG_OBJ command: every requested instance gets its own copy of the graph,
\* with all its counters and flags reset.
ReceiveApps ==
    /\ mpc = "ipc" /\ cmd = "DAG_OBJ"
    /\ unarrived' = unarrived \cup payload
    /\ cmd' = "NOPE" /\ payload' = {}
    /\ received' = TRUE
    /\ mpc' = "drain" /\ idx' = 1
    /\ UNCHANGED <<cnt, due, arrived, retireVars, free_resource_count,
                   nodeVars, workerVars>>

\* Neither a command nor a reason to exit.
ReceiveNothing ==
    /\ mpc = "ipc" /\ cmd = "NOPE" /\ ~ShouldExitEarly
    /\ mpc' = "drain" /\ idx' = 1
    /\ UNCHANGED <<slotVars, cnt, arriveVars, retireVars, free_resource_count,
                   nodeVars, workerVars>>

\* A TERMINATE command, whose reader also removes the slot, or an idle daemon
\* that was configured to exit.
BeginExit ==
    /\ mpc = "ipc"
    /\ \/ cmd = "TERMINATE" /\ cmd' = "CLOSED"
       \/ cmd = "NOPE" /\ ShouldExitEarly /\ cmd' = cmd
    /\ mpc' = "retire" /\ idx' = 1
    /\ UNCHANGED <<payload, cnt, arriveVars, retireVars, free_resource_count,
                   nodeVars, workerVars>>

\* The main thread reads, under the PE's lock, how many nodes PE idx completed.
\* Without queueing a PE that completed something counts as free again.
CountCompleted ==
    /\ mpc = "drain" /\ idx \in PE
    /\ cnt' = Len(completed[idx])
    /\ free_resource_count' =
          IF ~Queueing /\ completed[idx] # <<>> THEN free_resource_count + 1
                                                ELSE free_resource_count
    /\ IF completed[idx] = <<>>
       THEN mpc' = mpc /\ idx' = idx + 1
       ELSE mpc' = "pop" /\ idx' = idx
    /\ UNCHANGED <<slotVars, arriveVars, retireVars, nodeVars, workerVars>>

\* It pops one of them and logs it: the node has finished a frame.  In an
\* application that does not stream it releases its successors; and it may be
\* the last that its instance was waiting for.
PopCompleted ==
    /\ mpc = "pop"
    /\ LET n == Head(completed[idx])
           a == AppOf[n]
           it == [iter EXCEPT ![n] = @ + 1]
       IN  /\ iter' = it
           /\ completed_count' = [completed_count EXCEPT ![a] = @ + 1]
           /\ in_ready_queue' = [m \in Node |->
                 m \in Released(n, it) \/ (m # n /\ in_ready_queue[m])]
           /\ Push(Released(n, it))
           /\ IF AppDone(a, completed_count[a] + 1)
              THEN /\ completed_apps' = completed_apps \cup {a}
                   /\ arrived' = arrived \ {a}
              ELSE UNCHANGED <<completed_apps, arrived>>
    /\ completed' = [completed EXCEPT ![idx] = Tail(@)]
    /\ cnt' = cnt - 1
    /\ IF cnt = 1
       THEN mpc' = "drain" /\ idx' = idx + 1
       ELSE mpc' = mpc /\ idx' = idx
    /\ UNCHANGED <<slotVars, received, unarrived, due, freed,
                   free_resource_count, wpc, task, resource_state, todo>>

\* Every instance whose arrival_time has passed arrives, and the nodes of it
\* that wait for nobody are ready: whether their outputs have room, and
\* whether there is a frame to process, is not asked.
ArriveApps ==
    /\ mpc = "drain" /\ idx \notin PE
    /\ Push(Starters(due))
    /\ in_ready_queue' = [n \in Node |-> in_ready_queue[n] \/ n \in Starters(due)]
    /\ unarrived' = unarrived \ due
    /\ arrived' = arrived \cup due
    /\ due' = {}
    /\ mpc' = "fire"
    /\ UNCHANGED <<slotVars, idx, cnt, received, retireVars,
                   free_resource_count, iter, completed_count, workerVars>>

\* Every node of a streaming instance that may process a further frame is ready.
FireStreams ==
    /\ mpc = "fire"
    /\ Push(Fireable)
    /\ in_ready_queue' = [n \in Node |-> in_ready_queue[n] \/ n \in Fireable]
    /\ mpc' = "schedule" /\ cnt' = 0
    /\ UNCHANGED <<slotVars, idx, arriveVars, retireVars, free_resource_count,
                   iter, completed_count, workerVars>>

\* attemptToAssignTaskToPE succeeds for a ready node and PE w.  Which node goes
\* next, and to which PE, is the policy's choice: every policy assigns some
\* ready node to some PE that supports it, and without queueing only to a PE
\* that is idle and has nothing left to drain.
AssignTask(n, w) ==
    /\ mpc = "schedule"
    /\ ready_queue[n] > 0
    /\ w \in CanRun[n]
    /\ Queueing \/ Idle(w)
    /\ todo' = [todo EXCEPT ![w] = Append(@, n)]
    /\ ready_queue' = [ready_queue EXCEPT ![n] = @ - 1]
    /\ cnt' = cnt + 1
    /\ free_resource_count' =
          IF ~Queueing /\ Counting THEN free_resource_count - 1
                                   ELSE free_resource_count
    /\ UNCHANGED <<slotVars, mpc, idx, arriveVars, retireVars, iter,
                   in_ready_queue, completed_count, wpc, task, resource_state,
                   completed>>

\* A ready node has a PE that is taken, which the policy may have chosen, and
\* tried no other node.
Refused ==
    \E n \in Node : ready_queue[n] > 0 /\ \E w \in CanRun[n] : ~Idle(w)

\* The policy returns.  With queueing it leaves no ready node behind; without,
\* it may, once it assigned one, was refused one, or counts no free PE.
EndScheduling ==
    /\ mpc = "schedule"
    /\ \/ \A n \in Node : ready_queue[n] = 0
       \/ ~Queueing /\ (cnt > 0 \/ Refused \/ free_resource_count = 0)
    /\ mpc' = "free" /\ cnt' = 0
    /\ UNCHANGED <<slotVars, idx, arriveVars, retireVars, free_resource_count,
                   nodeVars, workerVars>>

\* The instances that completed are freed, one by one.
FreeApp(a) ==
    /\ mpc = "free"
    /\ a \in completed_apps
    /\ completed_apps' = completed_apps \ {a}
    /\ freed' = freed \cup {a}
    /\ UNCHANGED <<slotVars, phaseVars, arriveVars, free_resource_count,
                   nodeVars, workerVars>>

EndPass ==
    /\ mpc = "free" /\ completed_apps = {}
    /\ mpc' = "ipc" /\ idx' = 1
    /\ UNCHANGED <<slotVars, cnt, arriveVars, retireVars, free_resource_count,
                   nodeVars, workerVars>>

\* On the way out the main thread tells the workers to stop, whatever they are
\* doing ...
RetirePE ==
    /\ mpc = "retire"
    /\ resource_state' = [resource_state EXCEPT ![idx] = 3]
    /\ IF idx < NumPEs
       THEN mpc' = mpc /\ idx' = idx + 1
       ELSE mpc' = "joinworkers" /\ idx' = 1
    /\ UNCHANGED <<slotVars, cnt, arriveVars, retireVars, free_resource_count,
                   nodeVars, wpc, task, todo, completed>>

\* ... and joins them; then the logs are written and main returns.
JoinWorkers ==
    /\ mpc = "joinworkers"
    /\ \A w \in PE : wpc[w] = "exited"
    /\ mpc' = "done"
    /\ UNCHANGED <<slotVars, idx, cnt, arriveVars, retireVars,
                   free_resource_count, nodeVars, workerVars>>

-----------------------------------------------------------------------------
(* The worker of PE w: hardware_thread.                                    *)

\* It takes the oldest node of its queue.
TakeTask(w) ==
    /\ Up
    /\ wpc[w] = "poll" /\ todo[w] # <<>>
    /\ task' = [task EXCEPT ![w] = Head(todo[w])]
    /\ todo' = [todo EXCEPT ![w] = Tail(@)]
    /\ resource_state' = [resource_state EXCEPT ![w] = 1]
    /\ wpc' = [wpc EXCEPT ![w] = "run"]
    /\ UNCHANGED <<mainVars, completed>>

\* It has run the node's function, hands the node back and is free for the
\* next one.
HandBack(w) ==
    /\ Up
    /\ wpc[w] = "run"
    /\ completed' = [completed EXCEPT ![w] = Append(@, task[w])]
    /\ resource_state' = [resource_state EXCEPT ![w] = 0]
    /\ task' = [task EXCEPT ![w] = NoNode]
    /\ wpc' = [wpc EXCEPT ![w] = "poll"]
    /\ UNCHANGED <<mainVars, todo>>

\* Told to stop, and with nothing queued, it leaves its loop.
StopWorker(w) ==
    /\ Up
    /\ wpc[w] = "poll" /\ todo[w] = <<>> /\ resource_state[w] = 3
    /\ wpc' = [wpc EXCEPT ![w] = "exited"]
    /\ UNCHANGED <<mainVars, task, resource_state, todo, completed>>

-----------------------------------------------------------------------------
Main ==
    \/ ReceiveApps \/ ReceiveNothing \/ BeginExit
    \/ CountCompleted \/ PopCompleted
    \/ ArriveApps \/ FireStreams
    \/ (\E n \in Node, w \in PE : AssignTask(n, w))
    \/ EndScheduling
    \/ (\E a \in Apps : FreeApp(a)) \/ EndPass
    \/ RetirePE \/ JoinWorkers

Worker(w) == TakeTask(w) \/ HandBack(w) \/ StopWorker(w)

\* The process is gone: nothing moves any more.
Gone == ~Up /\ UNCHANGED vars

Next ==
    \/ SubDag \/ KillDaemon
    \/ Main
    \/ \E w \in PE : Worker(w)
    \/ \E a \in Apps : BecomeDue(a)
    \/ Gone

\* Every thread keeps running, and time passes.
Fairness ==
    /\ WF_vars(Main)
    /\ \A w \in PE : WF_vars(Worker(w))
    /\ \A a \in Apps : WF_vars(BecomeDue(a))

Spec == Init /\ [][Next]_vars
FairSpec == Spec /\ Fairness

-----------------------------------------------------------------------------
(* Where a node can be.                                                    *)

Place == {<<"ready", 0>>} \cup ({"todo", "held", "handed"} \X PE)

\* The nodes at a place: in ready_queue, or in the todo_task_dequeue, the hands
\* or the completed_task_dequeue of a PE.
Contents(p) ==
    CASE p[1] = "ready"  -> {n \in Node : ready_queue[n] > 0}
      [] p[1] = "todo"   -> ToSet(todo[p[2]])
      [] p[1] = "held"   -> {task[p[2]]} \ {NoNode}
      [] p[1] = "handed" -> ToSet(completed[p[2]])

\* The nodes whose function is running.
Executing == UNION {Contents(<<"held", w>>) : w \in PE}

\* The instances that the main thread has given up.
GivenUp == completed_apps \cup freed

-----------------------------------------------------------------------------
(* Invariants.                                                             *)

MainTypeOK ==
    /\ cmd \in {"NOPE", "DAG_OBJ", "TERMINATE", "CLOSED"}
    /\ mpc \in {"ipc", "drain", "pop", "fire", "schedule", "free", "retire",
                "joinworkers", "done"}
    /\ idx \in 1..(NumPEs + 1) /\ cnt \in Nat
    /\ received \in BOOLEAN
    /\ payload \subseteq Apps /\ unarrived \subseteq Apps /\ due \subseteq Apps
    /\ arrived \subseteq Apps /\ completed_apps \subseteq Apps /\ freed \subseteq Apps
    /\ free_resource_count \in Int

NodeTypeOK ==
    /\ iter \in [Node -> Nat]
    /\ in_ready_queue \in [Node -> BOOLEAN]
    /\ completed_count \in [Apps -> Nat]
    /\ ready_queue \in [Node -> Nat]

WorkerTypeOK ==
    /\ wpc \in [PE -> {"poll", "run", "exited"}]
    /\ task \in [PE -> Node \cup {NoNode}]
    /\ resource_state \in [PE -> {0, 1, 3}]
    /\ todo \in [PE -> Seq(Node)]
    /\ completed \in [PE -> Seq(Node)]

TypeOK == MainTypeOK /\ NodeTypeOK /\ WorkerTypeOK

\* in_ready_queue is the only guard against firing a node twice.  It is set in
\* three places and cleared in one: a node is marked exactly while it is
\* somewhere between ready_queue and its drain, and it is there once.
NodeInOnePlace ==
    /\ (UNION {Contents(p) : p \in Place}) = {n \in Node : in_ready_queue[n]}
    /\ \A p, q \in Place : p # q => Contents(p) \cap Contents(q) = {}
    /\ \A n \in Node : ready_queue[n] <= 1
    /\ \A w \in PE : IsInjective(todo[w]) /\ IsInjective(completed[w])

\* A producer and a consumer that run at the same time use different buffers of
\* the edge between them.  The streaming applications choose the buffer by the
\* parity of the frame; with one buffer they must not overlap at all.
BufferExclusion ==
    \A c \in Executing : \A p \in Pred[c] \cap Executing :
        /\ Mode[AppOf[c]] = "double"
        /\ iter[p] % 2 # iter[c] % 2

\* "This makes sure a new frame processing by the head node only begins once the
\* previous frame has finished processing by the tail node of app., creating a
\* sequential flow": while a node of a sequential instance processes a frame,
\* every node of the instance is done with all earlier frames, and no node got
\* beyond this one.
OneFrameAtATime ==
    \A n \in Executing : Sequential(n) /\ Ringable(AppOf[n]) =>
        \A m \in NodesOf(AppOf[n]) : iter[m] \in {iter[n], iter[n] + 1}

\* An instance is put on completed_apps, and then freed, on the strength of a
\* count.  When it is, each of its nodes has processed each frame, and none of
\* them is in any queue, from where its app_pnt would be read again.
GivenUpIsDone ==
    \A a \in GivenUp : \A n \in NodesOf(a) :
        /\ iter[n] = Goal(a)
        /\ \A p \in Place : n \notin Contents(p)

\* max_stream_frame_count is the "maximum number of input frames to be processed
\* in streaming manner".  Two places fire nodes, and only one of them looks at
\* it: still no node of a stream that gives a number gets beyond it.
FramesBounded ==
    \A n \in Node :
        Streaming(AppOf[n]) /\ Frames[AppOf[n]] > 0 => iter[n] <= Frames[AppOf[n]]

\* free_resource_count is raised by the drain and lowered by the policy, in
\* different functions.  Without queueing it is the number of PEs that have
\* neither a node to run nor one to be drained: were it more, it would drift,
\* and were it less, policies would stop at 0 with a PE idle.
Occupied(w) ==
    /\ todo[w] # <<>> \/ task[w] # NoNode \/ completed[w] # <<>>
    /\ ~(mpc = "pop" /\ idx = w)
FreeCountExact ==
    ~Queueing /\ Counting =>
        free_resource_count = Cardinality({w \in PE : ~Occupied(w)})

\* "Exit When Idle": a daemon that leaves its loop unasked leaves no instance
\* that it accepted unfinished, and nothing in its queues.  Its workers, which
\* write the same field on taking a node and on handing it back, have kept the
\* order to stop when it joins them.
IdleExitIsClean ==
    Exiting /\ cmd # "CLOSED" =>
        /\ \A a \in Apps : Fresh(a) \/ a \in payload \cup freed
        /\ \A p \in Place : Contents(p) = {}
        /\ mpc = "joinworkers" => \A w \in PE : resource_state[w] = 3

\* Nothing but the counters of its neighbours lets a node fire, and they are
\* looked at in three places, some of them once.  While an instance has frames
\* to process, one of its nodes is on its way to a worker and back, or the next
\* look at the streams puts one there: neither the buffers of the edges, nor the
\* ring of a sequential graph, nor a look that came too early leaves all nodes
\* waiting for one another.
PipelinesMove ==
    \A a \in arrived : Ringable(a) /\ Goal(a) > 0 /\ NodesOf(a) # {} =>
        \E n \in NodesOf(a) : in_ready_queue[n] \/ n \in Fireable

-----------------------------------------------------------------------------
(* The inductive invariant of the proofs.                                  *)

\* The innermost loops stay within the PEs and the queue they walk through.
LoopInv ==
    /\ mpc = "pop" => idx \in PE /\ cnt \in 1..Len(completed[idx])
    /\ mpc = "retire" => idx \in PE

WorkerInv == \A w \in PE : wpc[w] = "run" <=> task[w] # NoNode

\* An instance goes from list to list, and its nodes move once it arrived.
ListInv ==
    /\ due \subseteq unarrived
    /\ payload \cap (unarrived \cup arrived \cup GivenUp) = {}
    /\ unarrived \cap (arrived \cup GivenUp) = {}
    /\ \A n \in Node : iter[n] > 0 \/ in_ready_queue[n] => AppOf[n] \in arrived \cup GivenUp

\* The frames a node ever processes: heads get one even if there is none.
Limit(a) == IF Goal(a) = 0 THEN 1 ELSE Goal(a)
LimitInv == \A n \in Node : iter[n] <= Limit(AppOf[n])

\* How many frames an edge buffers.
Depth(a) == IF Mode[a] = "double" THEN 2 ELSE 1

\* No node is ahead of its predecessors, nor of its successors by more frames
\* than there are buffers.
EdgeInv ==
    \A c \in Node : \A p \in Pred[c] :
        iter[c] <= iter[p] /\ iter[p] <= iter[c] + Depth(AppOf[c])

\* What was so when a node was marked stays so until it is drained.
InFlight(n) ==
    /\ iter[n] < Limit(AppOf[n])
    /\ \A p \in Pred[n] : iter[p] >= iter[n] + 1
    /\ \A c \in Succ(n) : iter[c] >= iter[n] + 1 - Depth(AppOf[n])
    /\ Sequential(n) /\ Ringable(AppOf[n]) =>
          \A m \in NodesOf(AppOf[n]) : iter[m] >= iter[n]
FlightInv == \A n \in Node : in_ready_queue[n] => InFlight(n)

\* The ring keeps the nodes of a sequential instance within one frame.
SpreadInv ==
    \A n \in Node : Sequential(n) /\ Ringable(AppOf[n]) =>
        \A m \in NodesOf(AppOf[n]) : iter[n] <= iter[m] + 1

\* An instance counts the frames of its nodes.
Finished(a) == {f \in NodesOf(a) \X (0..(Limit(a) - 1)) : f[2] < iter[f[1]]}
CountInv == \A a \in Apps : completed_count[a] = Cardinality(Finished(a))

RetiredInv ==
    \A a \in GivenUp : Goal(a) > 0 /\ \A n \in NodesOf(a) : iter[n] = Goal(a)

ExitInv ==
    Exiting /\ cmd # "CLOSED" => unarrived = {} /\ arrived = {} /\ completed_apps = {}

\* An idle daemon tells one worker after the other to stop, and none forgets it.
StopInv ==
    Exiting /\ cmd # "CLOSED" =>
        /\ mpc = "retire" => \A w \in PE : w < idx => resource_state[w] = 3
        /\ mpc \in {"joinworkers", "done"} => \A w \in PE : resource_state[w] = 3

FlowInv == LimitInv /\ EdgeInv /\ FlightInv /\ SpreadInv

\* In an instance that does not stream, a node whose predecessors are done was
\* marked when the last of them was drained.
ReleaseInv ==
    \A n \in Node :
        /\ AppOf[n] \in arrived /\ ~Streaming(AppOf[n])
        /\ iter[n] = 0 /\ \A p \in Pred[n] : iter[p] = 1
        => in_ready_queue[n]

\* In a ring no tail gets ahead of any head.
RingInv ==
    \A t, h \in Node :
        /\ AppOf[t] = AppOf[h] /\ Sequential(t) /\ IsTail(t) /\ IsHead(h)
        /\ Ringable(AppOf[t])
        => iter[h] >= iter[t] + (IF in_ready_queue[t] THEN 1 ELSE 0)

\* An instance is in arrived no longer than it has frames to process.
UnfinishedInv ==
    \A a \in arrived : Goal(a) > 0 /\ NodesOf(a) # {} =>
        \E n \in NodesOf(a) : iter[n] < Goal(a)

ProgressInv == ReleaseInv /\ RingInv /\ UnfinishedInv

\* The invariant of the daemon that is inductive: the counters of the nodes are
\* in step with one another, a marked node stays entitled to its frame, the
\* lists and counts of instances agree with the counters of their nodes, and what
\* a node waits for is still to come.
DagInv ==
    /\ TypeOK /\ LoopInv /\ WorkerInv /\ NodeInOnePlace
    /\ ListInv /\ FlowInv /\ CountInv /\ RetiredInv /\ ExitInv
    /\ StopInv /\ ProgressInv

-----------------------------------------------------------------------------
(* The daemon implements the dataflow: a node's frame is done when its     *)
(* worker hands it back, and known to be when it is drained.               *)

Handed(n) == \E w \in PE : n \in ToSet(completed[w])

Flow == INSTANCE Dataflow WITH
    done <- [n \in Node |-> iter[n] + (IF Handed(n) THEN 1 ELSE 0)],
    busy <- Executing,
    retired <- freed

DataflowSpec == Flow!Spec

-----------------------------------------------------------------------------
(* The rounds of the daemon are those the policies keep to: no node gets   *)
(* ready or is drained while one is open, which is until the queue is      *)
(* empty or the policy returns.                                            *)

Pending(w) == ToSet(todo[w]) \cup ({task[w]} \ {NoNode}) \cup ToSet(completed[w])

RoundOpen == mpc = "schedule" /\ (cnt > 0 \/ \E n \in Node : ready_queue[n] > 0)

Round == INSTANCE SchedRound WITH
    Able <- CanRun,
    queueing <- Queueing, exits <- FALSE,
    queue <- {n \in Node : ready_queue[n] > 0},
    pending <- [w \in PE |-> Pending(w)],
    round <- IF RoundOpen THEN "open" ELSE "rest",
    given <- mpc = "schedule" /\ cnt > 0

RoundSpec == Round!Spec

-----------------------------------------------------------------------------
(* Liveness.                                                               *)

\* Every accepted instance whose graph can flow is completed and freed, unless
\* the daemon is killed: the pipeline never stalls on its own buffers.
StreamsFinish ==
    \A a \in Apps : Ringable(a) /\ Goal(a) > 0 =>
        (a \in unarrived \cup arrived ~> a \in freed \/ cmd = "CLOSED")

\* A daemon that leaves its loop because it is idle ends.
IdleExitEnds == (Exiting /\ cmd # "CLOSED") ~> mpc = "done"

-----------------------------------------------------------------------------
(* What the repository says and the code does not do.                      *)

\* README.md, "safely terminate the cedr process": kill_daemon ends the daemon.
KillEndsDaemon == cmd = "TERMINATE" ~> mpc = "done"

=============================================================================
