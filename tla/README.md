# CEDR in TLA+

CEDR is a runtime for heterogeneous chips: a Linux daemon that accepts
applications over shared memory, runs their kernels on a set of processing
elements (PEs: CPU cores, FFT and other accelerators), one worker thread per
PE, and logs what ran where. There are two builds of it. In the *API* daemon
(`src/src-api`) an application is a shared object whose `main` runs in a thread
of the daemon and calls kernels through libdash; in the *DAG* daemon
(`src/src-dag`) it is a graph of tasks read from JSON, optionally streamed.

This directory models both daemons, the protocol by which commands reach them,
and their scheduling policies; checks the models with TLC on small instances;
and proves the safety properties of all of them with TLAPS, for every number of
applications, tasks, graph nodes, PEs, calls and clients.

## Inventory

| Component | State | Operations | Where it is |
|---|---|---|---|
| Main loop of the API daemon | lists of unarrived and arrived applications, `app_thread_map`, logs | read a command, arrive, create a thread, register it, schedule, drain, sweep the pills, exit | `CedrRuntime`, modelled |
| Kernel calls and application threads | the barrier in the caller's frame, `task_count` | open a barrier, number a task, push it, wait, leave a pill | `CedrRuntime`, modelled |
| Workers | `todo_task_dequeue`, `completed_task_dequeue`, `resource_state` | take, run and signal, hand back, stop | `CedrRuntime`, modelled |
| Scheduling policies (both daemons) | `free_resource_count`, `thread_avail_time`, `rand_resource`, `schedule_cache` | SIMPLE, RANDOM, MET, HEFT_RT, EFT, ETF, cached decisions | `SchedPolicies`, modelled (without DNN and RT) |
| Submission IPC (both daemons) | a named semaphore, a named page with one slot | create, poll, read, remove; `sub_dag`, `kill_daemon` | `CedrIpc`, modelled |
| Main loop of the DAG daemon | the lists of instances, `iter` and `in_ready_queue` of each node, counts | instantiate, arrive, fire, schedule, drain, free, exit | `DagRuntime`, modelled |
| Workers of the DAG daemon | as above | take, hand back, stop | `DagRuntime`, modelled |
| DAG parser | the graph | read JSON, wire predecessors and successors | `DagGraph`: the wiring; the rest is input |
| Application loading, configuration, start-up | tables | parse | their results are the constants |
| libdash kernels, DMA, GPU | device registers | - | not modelled |
| `IL.cpp`, `performance_monitor.cpp`, tests, scripts, sample applications | - | - | not modelled |

How they interact, in the API daemon and in the DAG daemon:

    sub_dag, kill_daemon --slot--> main thread --pthread_create--> application
        application --ready_queue--> main --todo--> worker
        worker --barrier--> application      worker --completed--> main
        application --poison_queue--> main --pthread_join, free-->

    sub_dag, kill_daemon --slot--> main thread --todo--> worker
        worker --completed--> main --iter of the node--> its neighbours

Four kinds of mutex guard the API daemon: `ready_queue_mutex`, which the main thread
keeps for a whole scheduling round; one `resource_mutex` per PE, which it takes
and releases for each access; `poison_queue_mutex`, kept for a whole sweep; and
the mutex of each call's barrier, held by the caller from before it enqueues
until it waits. What is hard:

* a task changes hands five times, each time under another lock;
* the barrier is a stack variable: waking too early is memory corruption,
  waking never is a hang;
* the caller is released *before* its task is handed back, logged and freed, so
  that an application may end, and be freed, with tasks still in the daemon;
* several decisions are taken in one critical section and acted on in another
  (stop a PE, assign to an idle PE, leave because nothing is left);
* kill_daemon may come at any moment of all this;
* in the DAG daemon nothing but the counters `iter` keeps neighbours of a
  pipeline apart, three pieces of code fire nodes, and instances are freed on
  the strength of a count;
* the submission slot and its semaphore are found by name, names outlive the
  processes that made them, and any process may die with the semaphore taken;
* the policies keep state between rounds (a wrapping count, a ring index, a
  cache) and commit to choices that `attemptToAssignTaskToPE` may refuse.

`PROJECT.json` lists the hazards at their lines, each with the properties that
watch it or the reason why none does yet.

## Modules

| Module | What it is |
|---|---|
| `KernelService` | what the daemon promises an application: each call runs exactly once, a batch returns only when all its kernels ran, an application is freed only when it ended |
| `CedrRuntime` | the API daemon; its invariants, action and liveness properties; the refinements to `KernelService` and `SchedRound` |
| `MCCedrRuntime` | constants for TLC |
| `CedrRuntimeProofs` | types, loops, workers, batches: `CoreInv` |
| `CedrTaskProofs` | conservation of tasks; barriers and sleepers |
| `CedrReapProofs` | freeing applications; the whole of `IInv`; late threads; one task per PE; the idle exit; the daemon implements `KernelService` and `SchedRound` |
| `CommandSlot` | what the protocol promises: a slot with one command at a time, put once and taken once |
| `CedrIpc` | `ipc.cpp`, server and clients, system call by system call, with restarts and deaths; the refinement to `CommandSlot` |
| `SchedRound` | a scheduling round: what the policies do and the daemons around them allow for |
| `SchedPolicies` | the policies of `scheduler.cpp`, task by task; the refinement to `SchedRound` |
| `DagGraph` | the graphs, as the parser wires them for each stream mode |
| `Dataflow` | what the DAG daemon promises: each node processes each frame once, after its predecessors and not before its output buffer is free |
| `DagRuntime` | the DAG daemon; the refinements to `Dataflow` and `SchedRound` |
| `MCCedrIpc`, `MCSchedPolicies`, `MCDagRuntime` | constants for TLC |
| `QueueLemmas` | sequences, tables and families of disjoint sets |
| `DagProofs` | types and conservation of nodes |
| `DagFlowProofs` | the token flow, completed instances, the exit, the count of free PEs; refinements to `Dataflow` and `SchedRound` |
| `SchedProofs` | the policies' invariant; the earliest finish; refinement to `SchedRound` |
| `IpcProofs` | the protocol's invariant; refinement to `CommandSlot` |

`CedrRuntimeProofs`, `CedrTaskProofs` and `CedrReapProofs`
extend one another in this order, and so do `DagProofs` and `DagFlowProofs`.

The modules meet at two seams. The daemons' models take a slot for granted in
which commands appear one at a time; `CedrIpc` shows where the protocol
provides one. They take a round for granted that gives ready tasks to PEs in
any order. `SchedRound` is that round, and each side implements it. The policies
do whatever the daemons do between two rounds; the daemons do whatever the
policies do in one: `Give` is their `AssignTask`, `Close` their `EndScheduling`
(with `NothingAssigned`, where the API daemon ends), `Open` the call of
`performScheduling` with a queue that is not empty, and `Rest` all by which tasks
become ready or are drained in between. `End` is a crash of the daemon in the
middle of a round, `GoAstray` what a policy does to a task that no PE can run;
the daemons have no such task.

### State

The variables keep the source's names. Some stand for more than one field. In
`CedrRuntime`:

* `cmd`, `payload`: the submission slot as the main thread will find it.
  "CLOSED" once the reader of TERMINATE unlinked it.
* `mpc`, `idx`, `cnt`: where `launchDaemonRuntime` stands, its loop index, and
  the count it keeps in that loop.
* `wpc[w]`, `task[w]`, `resource_state[w]`, `todo[w]`, `completed[w]`: worker w.
  `resource_state` is 0 (idle), 1 (running) or 3 (told to stop), as in the code.
* `apc[a]`, and `left`, `size`, `first`, `ctr`: the thread of a and the barrier
  of the batch of calls it has open. `apc[a]` in "call", "push" or "check" means
  that it holds the barrier's mutex. When the calls return the barrier is reset,
  since its frame is gone.
* A task is a pair of its application and its `task_id`. `stream_log` is the set
  of logged tasks, which are freed.
* `mpc` "dead" is the `exit(1)` of a round that placed nothing; "crashed" is the
  end of the process by a null `app_pnt`, which `enqueue_kernel` or the reader of
  a pill found in `app_thread_map` for a thread that is not in it.
* `Pending(w)`, here and in `DagRuntime`: the tasks a PE was given that are not
  drained yet, wherever they are. Outside the exit a PE is idle to the policies
  exactly if it has none.

In `DagRuntime`, besides those it shares with `CedrRuntime`:

* `iter[n]`, `in_ready_queue[n]`: the node's fields. `running_flag` and
  `complete_flag` are written by every assignment and drain but read at arrival
  only, when both are false, and are left out.
* `ready_queue[n]`: how often n is in the queue; its order is the policy's.
* `arrived`: both lists of arrived instances, which `Mode` tells apart.
* `mpc` "retire", "joinworkers" and "done" are the way out of the loop.

In `CedrIpc` a semaphore and a page are named by the run of the daemon that
created them, since a process that has one open keeps it when its name is
removed. `slot` abstracts the page to what the `memcmp`s tell apart; `orphaned`
is a history variable.

In `SchedPolicies`, `cfg` is the configuration (policy, queueing, daemon,
caching), fixed by `Init`; `pos` is the iterator of a policy's loop; `pending`
joins the three places a task is in between its assignment and its draining,
since `attemptToAssignTaskToPE` takes a PE for idle when all are empty. The search of a
timed policy keeps its locals in `itr` and `seen` (the task and how many PEs it has
looked at), `found` (`earliest_estimated_availtime`) and `pick` (`eft_resource`,
`etf_resource`, or the index in HEFT_RT's `selected_resource`); `pos` is ETF's
`minTask`.

### Steps

A step is one critical section, or a stretch of code that touches no state
another thread reads. So the sweep and the exit go pill by pill and PE by PE,
`QuiescePE` (check) and `RetirePE` (write 3) are two steps because the code
releases the mutex between them, and `LaunchApp` and `RegisterApp` are two
because the new thread runs between them. `BeginScheduling` to `EndScheduling`
keep `ready_queue_mutex` and `BeginSweep` to `EndSweep` keep
`poison_queue_mutex`: `PushReady` and `InjectPill` wait for them.
In `SchedPolicies` SIMPLE, RANDOM and MET take a task per step. The timed policies
search: `BeginSearch` is the head of the loop, which resets what it resets and
nothing else, each `LookAtPE` one pass of the innermost loop with its comparison,
and `TryEarliest` and `TryETF` are the call of `attemptToAssignTaskToPE` with
whatever the locals hold by then.

Abstractions, each chosen so that it adds behaviours and removes none that the
properties could tell apart:

* *Policies.* A round repeatedly gives some ready task to some PE that supports
  it (`AssignTask`), as each policy does through `attemptToAssignTaskToPE`.
  With queueing it empties the queue. Without, it may leave tasks; if it placed
  none, `performScheduling` calls `exit(1)`, which the model allows when some
  ready task has a PE it supports that is taken (`NothingAssigned`): SIMPLE
  would try all PEs, HEFT_RT, EFT and ETF commit to one. `SchedPolicies` checks
  that no policy does anything else.
* *The two critical sections of `attemptToAssignTaskToPE`* (check idle, push)
  are one step. Between them only the worker of that PE could act, and it has
  nothing to act on: only the main thread assigns and drains.
* *Kernels.* The PEs that can run a task depend on its application only
  (`CanRun`); the kernel itself is skipped. `libdash` asks for kernels that the
  daemon knows with at most six arguments, so that the exits of `enqueue_kernel`
  and of the worker for anything else are not reached.
* *Submission.* A command appears in the slot atomically. A poll that finds the
  semaphore taken sees the command one pass later, which is the same as the
  command arriving later. Files that do not load and applications of which no
  instance is asked for are not in the payload, which may be empty: the daemon
  notes that it has received a command all the same. A stream's number of frames
  is not negative (a negative one, compared as unsigned, would never end).
* *The sweep* is modelled as it was meant. The code erases from the
  `std::deque` it iterates over, which invalidates its iterators; see the
  hazards.
* *The exit loop* over the pills takes no lock; the model fixes its length when
  it begins.
* *The barrier's mutex* is not a variable of its own: who holds it follows from
  `apc`.
* *DAG instances.* An instance is a member of `Apps` with its graph; copies of
  one prototype are members with equal graphs. The graph is acyclic
  (`AcyclicAssumption`), as the format is defined; a file that does not parse
  was never submitted. A non-streaming and a streaming arrival, the drain of one
  node with all pushes it causes, and a sweep of the firing loop are one step
  each: only the main thread reads or writes what they touch.
* *Deaths* in `CedrIpc` leave every object as it is, as the kernel does. A page
  that has no size yet cannot be read: that access ends the client.
* *Time.* The clock of `SchedPolicies` may advance between any two steps.
  Estimated times are constants; measured ones play no part in the decisions.
* `CountMod` stands for 2^32, the range of `free_resource_count`; TLC's integers
  end below that. The assumption keeps it above any value that counting up
  reaches, so that a wrapped count is told apart from a small one.
* *Policies that predict* (DNN, RT) need the weights of a network or a tree and
  are left out; the API daemon has them commented out.
* `LateStart` says whether a thread's first call may overtake its registration.
  The main thread needs a few instructions for that and a new thread usually
  more, so most runs assume it does not, and study the rest of the daemon; two
  runs (`runtime_idle`, `early_call`) and all proofs allow it. That the
  assumption is enough to keep every lookup from failing is `NoNullDereference`.

The sections *Slips* of the modules hold definitions as a plausible bug would
have them. The specification does not use them; put in the place of the
definitions they resemble, each breaks the property it is aimed at, which shows
that the run would notice.

## Runs

| Run | Configuration | Properties | States |
|---|---|---|---|
| `runtime` | 2 applications, 2 PEs of which only PE 1 supports everything, a1 makes up to 2 calls (in one batch or two), queueing, kill at any time | EveryTaskInOnePlace, BarrierAlive, FreedIsUnreferenced, StoppedIsIdle, SleeperIsOwed, WaitsEnd, NoNullDereference, StopIsFinal, ServiceSpec | 457,400 |
| `runtime_idle` | as above without queueing, Exit When Idle, early calls allowed | IInv, OneTaskPerPE, IdleExitIsClean, RoundSpec | 297,200 |
| `runtime_live` | a1 makes up to 2 calls, a2 none, Exit When Idle, fairness | CallsReturn, AppsAreReaped, KillEndsDaemon | 106,700 |
| `dag_pipe` | a double-buffered chain of 2 nodes over 3 frames next to a diamond that runs once; 2 PEs, the last nodes on PE 2 only; queueing; kill at any time | NodeInOnePlace, BufferExclusion, GivenUpIsDone, FramesBounded, DataflowSpec | 207,100 |
| `dag_ring` | a sequential diamond and a single-buffered chain over 2 frames each, no queueing, Exit When Idle, fairness | DagInv, PipelinesMove, OneFrameAtATime, FreeCountExact, IdleExitIsClean, StreamsFinish, IdleExitEnds, RoundSpec | 74,800 |
| `ipc` | one `sub_dag`, one `kill_daemon`, two runs of the daemon, each process may die anywhere, fairness | IpcInv, SemaphoreIsBinary, DaemonIsReachable, SlotSpec, SubmissionsEnd, CommandsAreRead | 43,400 |
| `sched` | 28 configurations of policy, queueing, daemon and cache; 4 tasks that both PEs, one or none can run; 2 PEs of different types; fairness | CountIsNeverShort, SchedInv, GivesEarliest, RoundSpec, ReadyIsServed | 186,600 |
| `early_call` | early calls allowed | CallerIsIndexed (violated) | - |
| `no_queueing` | no queueing | TriesAgainLater (violated) | - |
| `kick_out` | kill at any time | RunningAppsKickedOut (violated) | - |
| `dag_kill` | a chain that runs once, kill at any time, fairness | KillEndsDaemon (violated) | - |
| `ipc_restart` | the daemon may be started again as soon as `kill_daemon` returned | DaemonIsReachable (violated) | - |

`DagInv`, `IpcInv` and `SchedInv` are the inductive invariants of the proofs, and
begin with the type invariant of their module, as `IInv` does.

What the properties say is in the comments above them. In short:

* `EveryTaskInOnePlace`: no queue loses, doubles or invents a task.
* `BarrierAlive`, `SleeperIsOwed`: nobody signals a barrier that is gone, and
  nobody sleeps who has been signalled for the last time: a task of the sleeper's
  batch is still ready, queued at a worker that has not left, or run by one.
* `WaitsEnd`: whenever the main thread waits for a PE to be quiet, for the thread
  of a pill or for the workers, the one it waits for can get on without it.
* `FreedIsUnreferenced`: the `TODO` at runtime.cpp:556 asks whether freeing an
  application may interfere with a task that is still in a completed queue. It
  does not, because `completed_task_count` is compared with `task_count` first,
  and an ended thread numbers no more tasks.
* `NoNullDereference`: when threads start late enough, no lookup in
  `app_thread_map` fails. The sweep and the exit erase entries under way; they
  erase none of a thread that may still call, because its pill is the last thing
  it leaves, and because the kick-out, whose condition is inverted, erases none.
* `StoppedIsIdle`, `StopIsFinal`: the main thread's check that a PE is quiet is
  still true when it writes 3, although it let go of the lock.
* `OneTaskPerPE`, `IdleExitIsClean`: the same for assigning and for leaving. The
  DAG daemon does not check that a PE is quiet before it writes 3; its
  `IdleExitIsClean` says that, when it leaves because it is idle, it need not.
* `ServiceSpec`: refinement to `KernelService`, where `executed` is the set of
  tasks whose callers' barriers were told, and `life[a]` is read off `apc[a]`.
  A step of the service happens at `LaunchApp` (Start), `OpenBarrier` (Enter),
  `NumberTask` (Issue), `SignalBarrier` (Execute), `CheckBarrier` of a complete
  batch (Return), `InjectPill` (End) and `ReapApp` (Free); all else stutters.
* `NodeInOnePlace`: a node is marked exactly while it is at one place (the
  queue, a PE, the hand-back), so that it is fired once per frame, whichever of
  the three pieces of code fires it.
* `BufferExclusion`, `FramesBounded`, `OneFrameAtATime`: what the pipeline's
  users rely on, although the counters are only compared when a node is fired
  and only moved when it is drained.
* `GivenUpIsDone`: an instance is freed on the strength of a count that several
  nodes raise; when it is, all nodes have processed all frames and none is in a
  queue.
* `FreeCountExact`, `CountIsNeverShort`: the DAG daemon's count of free PEs does
  not drift, and where a policy does not count, it errs upwards only.
* `DataflowSpec`: refinement to `Dataflow`. A node is busy while a worker
  runs it (`TakeTask` to `HandBack`), a frame is done when it is handed back,
  although the node's `iter` moves only when the main thread drains it, and an
  instance retires at `FreeApp`.
* `PipelinesMove`: while an instance has frames to process, one of its nodes is
  marked or the next look at the streams marks one. A stream's nodes are looked
  at in every pass; a node that is not streamed is looked at once, when the last
  of its predecessors is drained, so that a look that came too early would be the
  last.
* `StreamsFinish`, `IdleExitEnds`: no pipeline stalls on its own buffers, and
  the workers of a daemon that leaves because it is idle all stop.
* `SemaphoreIsBinary`: one unit of each semaphore, even where processes die;
  `SlotSpec`: refinement to `CommandSlot`, which is void for a page that was
  reached by a client with the semaphore of another run.
* `DaemonIsReachable`: a daemon that polls is the one clients find, whatever its
  predecessor left behind. `SubmissionsEnd`, `CommandsAreRead`: no client waits
  for ever, and no command is lost, while the processes live.
* `GivesEarliest`: HEFT_RT, EFT and ETF end their searches with the earliest
  finish, although they compare step by step with a value and a PE that outlive
  the task, and in ETF the pass, they were found for; a comparison that forgets, a
  reset too few, or a bound that stops short gives a task elsewhere.
* `RoundSpec`, of the policies and of both daemons: refinement to `SchedRound`.
  For a policy it says that it gives ready tasks only, to PEs that support them
  and, without queueing, are idle, and that it does not give up while it could
  go on. For a daemon it says that nothing becomes ready and nothing is drained
  while a round is open, that a PE which looks idle has nothing left to drain,
  and that only a round which gave nothing is fatal. The daemons' runs
  check it without queueing, where rounds end early; the proofs cover both.
* `ReadyIsServed`: the policies starve no task that some PE can run.

*Bounds.* Two applications are enough for every pair of actors that share state
(two threads on one queue, a pill before and behind another, an application
freed while another runs); two PEs for a task that can go to either and one
that cannot; two calls for a barrier that needs two signals, and for a second
barrier after the first. Three workers signalling one barrier, or three pills
in one sweep, add no pair that two do not have, and the proofs cover them.
`MaxCalls` and `MaxBatch` are the only bounds on counters; the code has none.
Liveness is checked on one calling application next to a silent one, because
the graph with three calls is too large for TLC's liveness check in five
minutes.

For the DAG daemon: a chain has each kind of edge end once, a diamond adds the
fork and the join, and the ring of a sequential instance needs at least two
nodes; three frames are one more than a double buffer holds, so that a buffer
is used again; two frames make the ring go round once and stop. For the
protocol: two clients and one daemon contend for the semaphore in every
pairing, and the second run of the daemon meets whatever the first left behind.
For the policies: two PEs of different types, one free and one taken; a task
for each subset of them; the fastest type of one task has no PE at all; one tick
of the clock makes the estimates pass or not; four tasks wrap the count of the
API daemon.

*Deadlock* is checked in the runs of `CedrRuntime`: when the process is gone
(`mpc` "done" or "dead") the specification stutters (`Gone`), and nothing else
may stop. A run would show threads that wait for one another. It is not checked in the others:
a DAG daemon that is killed may never join its workers (see `dag_kill`; that an
idle one ends is `IdleExitEnds`), clients of a daemon that is gone wait for
ever, and a scheduler has nothing to do once all tasks are done. There the
liveness properties say what must not stop.

*Fairness* (`FairSpec`). `WF` of the main thread and of each worker: they are
pthreads of one process and spin or hold locks for bounded times. `WF` of the
clock: arrival times pass. `SF` of each application thread: it needs
`poison_queue_mutex` and `ready_queue_mutex`, which the main thread takes and
releases in every pass, so that its step is enabled again and again but not
continuously; a mutex that is released infinitely often is granted eventually.
Spurious wakeups, clients and kills are never promised. Applications make a
bounded number of calls, so nobody is starved by an endless stream of them, and
the DASH kernels are assumed to finish.

In `DagRuntime`: `WF` of the main thread, each worker and the clock, for the
same reasons. In `CedrIpc`: `WF` of every process that lives, and `SF` of its
waits for the semaphore, that is, nobody who asks for it again and again loses
every race for it; deaths, restarts and idle exits are never promised. In
`SchedPolicies`: `WF` of the main thread, and `SF` of the drain of each PE,
since the main thread drains every PE on its way from one round to the next and
tasks are assumed to finish.

*Disagreements with the text of the repository* (`findings` in `PROJECT.json`):
the thread is created before it is indexed (`early_call`); a round that places
nothing ends the daemon rather than trying again later (`no_queueing`); the
condition of the kick-out is inverted, so that no application is ever
cancelled (`kick_out`); a worker of the DAG daemon that is running a node when
the daemon is killed overwrites the order to stop, so that `kill_daemon` does
not end the daemon (`dag_kill`); a daemon started right after `kill_daemon`
returned has its names removed by its predecessor (`ipc_restart`).

## Proofs

All theorems are about the module's `Spec`, for every value of the constants
that satisfies its assumptions. In `CedrRuntime` that is
`ConstantsAssumption`, early calls and both scheduling modes included: it asks
for at least one PE, at least one PE for every application's kernels, finitely
many applications (cardinalities of their tasks), and null values that are no
task and no application. In `DagRuntime` it is a finite
acyclic graph whose edges stay within one instance, and a PE for every node; in
`CedrIpc`, that clients are not confused with the states of a slot; in
`SchedPolicies`, finitely many tasks, bounded times, tables that have an entry
for every type that supports a task, a cache in the DAG daemon only, and a range
of `free_resource_count` that counting up does not exhaust.

| Module | Theorem | States |
|---|---|---|
| `CedrRuntime` | `TypeCorrectness` | `[]TypeOK` |
| | `StoppedWorkersAreIdle` | `[]StoppedIsIdle` |
| | `StopIsNeverTakenBack` | `StopIsFinal` |
| | `TasksAreConserved` | `[]EveryTaskInOnePlace` |
| | `BarriersOutliveSignals` | `[]BarrierAlive` |
| | `SleepersAreOwed` | `[]SleeperIsOwed` |
| | `DaemonInvariance` | `[]IInv` |
| | `FreedAppsAreUnreferenced` | `[]FreedIsUnreferenced` |
| | `PEsHaveOneTask` | `[]OneTaskPerPE` |
| | `IdleDaemonExitsClean` | `[]IdleExitIsClean` |
| | `MainThreadIsNotBlocked` | `[]WaitsEnd` |
| | `LateThreadsAreKnown` | `[]NoNullDereference` |
| | `DaemonImplementsService` | `ServiceSpec` |
| | `DaemonKeepsToRounds` | `RoundSpec` |
| `DagRuntime` | `TypeCorrectness` | `[]TypeOK` |
| | `NodesAreConserved` | `[]NodeInOnePlace` |
| | `DagInvariance` | `[]DagInv` |
| | `BuffersAreExclusive` | `[]BufferExclusion` |
| | `FramesGoInSequence` | `[]OneFrameAtATime` |
| | `GivenUpInstancesAreDone` | `[]GivenUpIsDone` |
| | `IdleExitLeavesNothing` | `[]IdleExitIsClean` |
| | `PipelinesNeverStall` | `[]PipelinesMove` |
| | `FramesAreBounded` | `[]FramesBounded` |
| | `DaemonImplementsDataflow` | `DataflowSpec` |
| | `FreePEsAreCounted` | `[]FreeCountExact` |
| | `DaemonKeepsToRounds` | `RoundSpec` |
| `SchedPolicies` | `SchedInvariance` | `[]SchedInv` |
| | `SchedTypes` | `[]TypeOK` |
| | `CountsAreNeverShort` | `[]CountIsNeverShort` |
| | `EarliestIsGiven` | `GivesEarliest` |
| | `PoliciesKeepToRounds` | `RoundSpec` |
| `CedrIpc` | `IpcInvariance` | `[]IpcInv` |
| | `IpcTypes` | `[]TypeOK` |
| | `SemaphoreExcludes` | `[]SemaphoreIsBinary` |
| | `NamesLeadToTheDaemon` | `[](~QuickRestart => DaemonIsReachable)` |
| | `ProtocolImplementsSlot` | `SlotSpec` |

*The API daemon.* The argument goes in layers, each using the ones before it.

1. `CoreInv` = TypeOK, LoopInv, WorkerInv, BatchInv, StartInv. `WorkerInv` ties
   `wpc`, `task` and `resource_state` together, and says that between the check
   and the write of 3 the PE stays quiet: the main thread is the only one that
   assigns, and it is outside its loop for good. Without that conjunct
   StoppedIsIdle is not inductive.
2. `EveryTaskInOnePlace` is inductive over `CoreInv`. Every step moves at most
   one task from one place to another; the proof names the two places for each
   action and shows that the rest stay as they are.
3. `BarrierInv`: the counter of an open barrier is the number of the
   application's signalled tasks since the barrier opened, every unsignalled
   task belongs to an open batch, and a sleeper's batch is incomplete. It needs
   conservation, for a task must not be signalled twice, and the cardinality
   lemmas of `FiniteSetTheorems`. From it, `BatchDone` holds only when every
   task of the batch is signalled, which gives BarrierAlive. SleeperIsOwed adds
   where the unsignalled task is: conservation puts it at a place, which is
   neither the hand-back nor the log, and a worker leaves only with an empty
   queue (`WorkerInv`).
4. `LogInv` (the count of logged tasks), `ListInv`, `FreedInv` and `PillInv`
   (one pill per thread, which names its own application or none). When the
   sweep finds the two counts equal, all numbered tasks are logged, so by
   conservation no queue holds one. That is FreedIsUnreferenced.
5. `ExitInv`: while the loop runs, an application that was launched is in
   `arrived_nonstreaming_apps` or freed. An idle daemon finds the list empty, so
   all that were launched are freed, and FreedIsUnreferenced empties the queues:
   IdleExitIsClean. OneTaskPerPE is inductive over `CoreInv`: between the
   scheduler's look at a PE and its push, a worker can only take away.
6. The refinement maps each action to the step of `KernelService` given above;
   that the kernel of a task runs once, and that the caller waits, come from 2
   and 3.

7. `LateInv`: under `LateStart`, a thread that may call is in `app_thread_map`,
   every pill names its application, and the exit loop stays within the pills
   there are. So no lookup fails, and `LateThreadsAreKnown`.
8. `RoundInv` (a round that gave nothing still has its queue) makes the rounds
   map to `SchedRound`: with it, a round that ends having given nothing is the
   one that ends the process. The rest is conservation, by which a task that is
   pushed is not pending, and `WorkerInv`, by which `resource_state` is 0 exactly
   if the worker holds nothing, so that `Idle` is `Pending(w) = {}`.

9. `WayOutInv`: on the way out the PEs before `idx` and no others have their
   order to stop, then all have, and no pill is gone before it is joined. With
   PillInv (who left a pill only has to end) and StoppedIsIdle it gives WaitsEnd.

`IInv` itself is checked by TLC in `runtime_idle`; `LateInv` says nothing there,
where calls may be early, and was model-checked with the constants of `runtime`.

*The DAG daemon.* `DagInv` is inductive. `NodeInOnePlace` comes first, by the
same bookkeeping of places as for tasks. Above it stands the token flow:
`EdgeInv` (no node is ahead of a predecessor, nor of a successor by more frames
than there are buffers) is preserved because a node moves only while it is
marked, and `FlightInv` says that what `check_pred_comp` and `check_succ_comp`
saw when it was marked is still so when it is drained: its neighbours' counters
have only grown, and by the invariant not past the bound. For sequential
instances the ring gives `SpreadInv`: all counters are within one of each other.
The induction over the graph that this needs (the tails have the smallest
counters, the heads the largest) takes the extremal node that
`AcyclicAssumption` provides. `CountInv` equates `completed_task_count` with the
number of frames the nodes have finished, so that when it reaches the product
all of them have finished all: GivenUpIsDone, by cardinalities. FreeCountExact
needs, beside `CoreInv`, that without queueing a PE has one node (`Alone`), so
that the drain, which adds one per PE and not per node, adds what the policy
took, and that `resource_state` is not 0 while a node runs (`BusyInv`). These
three and the case where the policy does not count make up `LoadInv`. The
refinement to `SchedRound` rests on it at one place: a policy that stops because
it counts no free PE leaves a node behind that has to wait, for then every PE
really has something to run or to drain; a policy that does not count never
stops for that reason.

PipelinesMove needs `ProgressInv`. `ReleaseInv`: a node that is not streamed and
whose predecessors are done was marked when the last of them was drained.
`RingInv`: no tail of a ring gets ahead of a head. `UnfinishedInv`: an instance
in `arrived` has a node with frames to process, by `CountInv`. Take, of the nodes
of an instance that lag furthest behind (`LeastNat`), one that has no predecessor
among them, which exists because the graph is acyclic: its predecessors are ahead
of it and its successors, by `EdgeInv`, at the same frame, so that it is marked or
`Fireable` in every mode but the sequential one. There the ring must not hold it
up: if a head is among the last, take that, and by RingInv no tail is ahead of it;
if none is, no tail waits for a head.

IdleExitIsClean takes two steps: `ExitInv` empties the lists, so that by
`RetiredInv`, `FlightInv` and NodeInOnePlace nothing is marked and every queue is
empty. Then no worker takes a node or hands one back, and so none overwrites the
3 that it was given (`StopInv`). In a daemon that is killed one does: `dag_kill`.

*The protocol.* `IpcInv` joins SemaphoreIsBinary, `CreationInv` (nobody has what
is not created yet), `PageInv` (only the holder of the semaphore changes a page
that is not spoiled), `ClientInv` (a client writes once) and `NamesInv` (where a
daemon starts only after its predecessor ended, the names are the last one's).
None of them is inductive alone: without CreationInv a client might hold a
semaphore that OpenSem resets to 1, and without the exclusion the slot might
change between a client's `memcmp` and its `memcpy`.

*The policies.* `SchedInv` joins to the types: `EveryTaskOnce` (a task is ready,
pending at one PE, or gone, and the queue repeats none); CountIsNeverShort, with
`CountInv`, which bounds `free_resource_count` from above by one for each PE and
each drained task, so that it does not wrap in the DAG daemon; `RoundInv`,
which says where a policy's loop may stand and that, without queueing, a loop that
has given nothing has not begun or leaves a task that waits; and `SearchInv`, the
invariant of the search loops: `found` is the least of the times compared so far
and belongs to `pos` and `pick`, or nothing compared so far can run. What has been
compared (`Compared`) depends on the policy's direction and on where it stands;
`LooksOn` shows that a look adds exactly the PE looked at, and `SearchEnds` that
in the end it is every PE, in ETF for every ready task. GivesEarliest follows, and
so does what the policies do when they find nothing: HEFT_RT's index and ETF's
iterator lead out of bounds only if no PE can run what was searched.
`PoliciesKeepToRounds` maps each step of each policy, in each configuration, to
a step of `SchedRound` or a stutter.

Only model-checked: the liveness properties, which need fairness and ENABLED
and are outside what the prover does. Their safety halves are proved: nobody
waits for somebody who cannot get on. SleeperIsOwed is that of CallsReturn,
WaitsEnd that of AppsAreReaped and of KillEndsDaemon of the API daemon,
PipelinesMove that of StreamsFinish, and the last conjunct of IdleExitIsClean
that of IdleExitEnds. What remains for TLC is that what can move does, and that
it moves finitely often. The violations that the five other runs
find are counterexamples, and need no proof.

## Not modelled, and why

* Logging and the trace files, timestamps and statistics, core affinity, PAPI
  counters and the numeric kernels carry no control.
* Configuration, start-up, application loading and the JSON parser run in one
  thread and share nothing while they do; their results are the constants.
* What the standard library does when its rules are broken: the sweep and the
  exit loop of the API daemon, which use invalidated iterators of a deque, and
  the unlocked erase in `app_thread_map`. The models have these loops as they
  were meant, and the hazards name the lines. What happens otherwise depends on
  the library, which is not in the repository.
* `__CEDR_TASK_ID__` and `__CEDR_CLUSTER_IDX__`, which workers write into the
  application's library: only instrumented applications read them.
* DNN and RT, `IL.cpp`: numeric inference.
* The DMA waits of libdash and the accelerator kernels: the device they poll is
  outside the repository.
* Sample applications, scripts, toolchains and the headers vendored with them,
  which make up nearly all of the repository's lines: programs that run on the
  daemon, not parts of it.

## What could come next

1. The seam between the daemons and the protocol as a refinement, as the one
   between the daemons and the policies is: `cmd` and `payload` of `CedrRuntime`
   and of `DagRuntime` as a `CommandSlot`, which `CedrIpc` implements.
2. The loops over a deque that is erased from, once a version of the code says
   what they are meant to do.
