---------------------------- MODULE SchedPolicies ----------------------------
(***************************************************************************)
(* The scheduling policies of both CEDR daemons, task by task, and what    *)
(* they keep between rounds: the estimated time at which each PE will be   *)
(* available, the count of free PEs, the index at which a policy that goes *)
(* round the PEs begins, and the DAG daemon's cache of decisions.          *)
(*                                                                         *)
(* The iterator of a policy is the position pos in ready_queue; one pass   *)
(* of its loop is one step, but for the policies that search for the       *)
(* earliest finish: there each PE that the search looks at is a step.  In  *)
(* between the clock may advance.  A PE that was given a task has it       *)
(* pending until the main thread has drained it, which it does between two *)
(* rounds only.  Policies that predict with a neural network (the DAG      *)
(* daemon's DNN and RT) are left out.                                      *)
(***************************************************************************)
EXTENDS Integers, FiniteSets, SequencesExt

CONSTANTS
    Task,
    Supports,   \* Supports[t]: the types of PE that implement task t
    Exec,       \* Exec[t][y]: the estimated time of t on a PE of type y
    Key,        \* Key[t]: the name under which decisions for t are cached
    NumPEs,
    TypeOf,     \* TypeOf[p]: the type of PE p, a number
    Configs,    \* the configurations to choose from
    MaxTime,    \* bound: the clock
    CountMod    \* the range of free_resource_count, 2^32 in the code

PE == 1..NumPEs

Policies == {"SIMPLE", "RANDOM", "MET", "HEFT_RT", "EFT", "ETF"}
Ring  == {"SIMPLE", "RANDOM", "MET"}
Timed == {"HEFT_RT", "EFT", "ETF"}

\* dag: the DAG daemon; cache: its config "Cache Schedules".
Config == [policy : Policies, queueing : BOOLEAN, dag : BOOLEAN, cache : BOOLEAN]

ASSUME SchedAssumption ==
    /\ NumPEs \in Nat \ {0} /\ TypeOf \in [PE -> Nat]
    /\ IsFiniteSet(Task) /\ MaxTime \in Nat
    /\ CountMod \in Nat /\ CountMod > NumPEs + Cardinality(Task)
    /\ \A t \in Task : Supports[t] # {} /\ \A y \in Supports[t] : Exec[t][y] \in Nat
    /\ \A c \in Configs : c \in Config /\ (c.cache => c.dag)

VARIABLES
    cfg,      \* the configuration
    ready,    \* ready_queue
    pending,  \* pending[p]: the tasks given to PE p and not drained yet
    gone,     \* the tasks that were drained
    avail,    \* thread_avail_time of each PE
    free,     \* free_resource_count
    rr,       \* rand_resource of SIMPLE, resource_idx of MET: a PE less one
    cache,    \* schedule_cache, 0 where it has no entry
    now,      \* the clock
    phase,    \* where the main thread stands
    pos,      \* the iterator, or ETF's minTask
    left,     \* how many passes ETF's loop has left
    given,    \* tasks_scheduled > 0
    stamp,    \* curr_time, as the policy read it
    itr,      \* the position of the task that the search looks at
    seen,     \* how many PEs it has looked at for that task
    found,    \* earliest_estimated_availtime, the least time it found
    pick      \* eft_resource, etf_resource, or HEFT_RT's selected_resource plus one

world == <<cfg, gone, now>>
roundVars == <<phase, pos, left, given, stamp>>
searchVars == <<itr, seen, found, pick>>
vars == <<world, ready, pending, avail, free, rr, cache, roundVars, searchVars>>

CanRun(t) == {p \in PE : TypeOf[p] \in Supports[t]}

Idle(p) == pending[p] = <<>>

Later(a, b) == IF a >= b THEN a ELSE b

\* The elements of S that minimise f.
Least(S, f(_)) == {x \in S : \A y \in S : f(x) <= f(y)}

-----------------------------------------------------------------------------
(* Slips: what the code could have said instead.  Only the mutants use them. *)

\* A PE is given a task without being asked whether it is idle.
TakesAnyway(t, p) == p \in CanRun(t)

\* The fastest type, whether or not there is a PE of it.
MetTypeAbsent(t) == Min(Least(Supports[t], LAMBDA y : Exec[t][y]))

\* The time that the search found is not remembered.
ImprovesAlways(t, p) == p \in CanRun(t)

\* The task that was given stays in ready_queue.
GiveKept(k, p) ==
    LET t == ready[k] IN
    /\ p \in CanRun(t) /\ (cfg.queueing \/ pending[p] = <<>>)
    /\ ready' = ready
    /\ pending' = [pending EXCEPT ![p] = Append(@, t)]
    /\ avail' = IF cfg.dag \/ cfg.policy \in Timed
                THEN [avail EXCEPT ![p] = Later(now, @) + Exec[t][TypeOf[p]]] ELSE avail
    /\ cache' = IF cfg.cache THEN [cache EXCEPT ![Key[t]] = p] ELSE cache
    /\ given' = TRUE

\* The DAG daemon does not count upwards either.
DrainUncounted(p) ==
    /\ phase = "rest" /\ ~Idle(p)
    /\ gone' = gone \cup {Head(pending[p])}
    /\ pending' = [pending EXCEPT ![p] = Tail(@)]
    /\ UNCHANGED <<cfg, now, ready, avail, free, rr, cache, roundVars, searchVars>>

-----------------------------------------------------------------------------
(* What the policies compute.                                              *)

\* attemptToAssignTaskToPE would succeed.
Takes(t, p) == p \in CanRun(t) /\ (cfg.queueing \/ Idle(p))

\* The estimated finish of t on p.  The DAG daemon's EFT and ETF add to the
\* time at which p is available even where that is past.
Finish(t, p) ==
    Exec[t][TypeOf[p]] + IF cfg.dag /\ cfg.policy \in {"EFT", "ETF"}
                         THEN avail[p] ELSE Later(stamp, avail[p])

\* The type MET wants for t: the fastest of those there are PEs of, or cpu.  Of
\* equally fast ones the API daemon sees the last PE's first, the DAG daemon the
\* lowest type's.
MetType(t) ==
    LET fastest == Least(CanRun(t), LAMBDA p : Exec[t][TypeOf[p]])
    IN  CASE fastest = {} -> 0
          [] fastest # {} /\ cfg.dag -> Min({TypeOf[p] : p \in fastest})
          [] OTHER -> TypeOf[Max(fastest)]

\* The PEs a policy that goes round them tries, and the i-th from where it stands.
Candidates(t) == IF cfg.policy = "MET" THEN {p \in PE : TypeOf[p] = MetType(t)} ELSE PE
At(i) == 1 + ((rr + i) % NumPEs)

\* The PE that the search looks at: EFT begins with the last one.
LooksAt == IF cfg.policy = "EFT" THEN NumPEs - seen ELSE seen + 1

\* The time that a search begins with, above all others.
Never == -1

\* t can run on p, and is finished there before the time that was found.
Improves(t, p) == p \in CanRun(t) /\ (found = Never \/ Finish(t, p) < found)

\* HEFT_RT's rank: the average time over the types that implement t.
Average(t) == MapThenSumSet(LAMBDA y : Exec[t][y], Supports[t]) \div Cardinality(Supports[t])

Ranked(s) == \A i, j \in DOMAIN s : i < j => Average(s[i]) >= Average(s[j])

\* What a policy does to the ready queue before it begins.
Orders ==
    CASE cfg.policy = "RANDOM" -> SetToSeqs(ToSet(ready))
      [] cfg.policy = "HEFT_RT" -> {s \in SetToSeqs(ToSet(ready)) : Ranked(s)}
      [] OTHER -> {ready}

OneLess(n) == (n + CountMod - 1) % CountMod

-----------------------------------------------------------------------------
Init ==
    /\ cfg \in Configs
    /\ ready = <<>>
    /\ pending = [p \in PE |-> <<>>]
    /\ gone = {}
    /\ avail = [p \in PE |-> 0]
    /\ free = NumPEs
    /\ rr = 0
    /\ cache = [k \in {Key[t] : t \in Task} |-> 0]
    /\ now = 0
    /\ phase = "rest" /\ pos = 0 /\ left = 0 /\ given = FALSE /\ stamp = 0
    /\ itr = 0 /\ seen = 0 /\ found = 0 /\ pick = 0

-----------------------------------------------------------------------------
(* Between rounds.                                                         *)

Submit(t) ==
    /\ phase = "rest"
    /\ t \notin ToSet(ready) \cup gone \cup UNION {ToSet(pending[p]) : p \in PE}
    /\ ready' = Append(ready, t)
    /\ UNCHANGED <<world, pending, avail, free, rr, cache, roundVars, searchVars>>

\* The main thread drains the task that PE p completed; the DAG daemon counts
\* the PE as free again.
Drain(p) ==
    /\ phase = "rest" /\ ~Idle(p)
    /\ gone' = gone \cup {Head(pending[p])}
    /\ pending' = [pending EXCEPT ![p] = Tail(@)]
    /\ free' = IF cfg.dag /\ ~cfg.queueing THEN (free + 1) % CountMod ELSE free
    /\ UNCHANGED <<cfg, now, ready, avail, rr, cache, roundVars, searchVars>>

Tick ==
    /\ now < MaxTime
    /\ now' = now + 1
    /\ UNCHANGED <<cfg, gone, ready, pending, avail, free, rr, cache, roundVars, searchVars>>

-----------------------------------------------------------------------------
(* performScheduling.                                                      *)

Begin ==
    /\ phase = "rest" /\ ready # <<>>
    /\ phase' = IF cfg.cache THEN "cached" ELSE "choose"
    /\ pos' = 1
    /\ UNCHANGED <<world, ready, pending, avail, free, rr, cache, left, given,
                   stamp, searchVars>>

\* attemptToAssignTaskToPE of the k-th ready task to PE p, which succeeds, and
\* the removal of the task from ready_queue.
Give(k, p) ==
    LET t == ready[k] IN
    /\ Takes(t, p)
    /\ ready' = RemoveAt(ready, k)
    /\ pending' = [pending EXCEPT ![p] = Append(@, t)]
    /\ avail' = IF cfg.dag \/ cfg.policy \in Timed
                THEN [avail EXCEPT ![p] = Later(now, @) + Exec[t][TypeOf[p]]] ELSE avail
    /\ cache' = IF cfg.cache THEN [cache EXCEPT ![Key[t]] = p] ELSE cache
    /\ given' = TRUE

Keep == UNCHANGED <<ready, pending, avail, cache, given>>

\* scheduleCached, which does not count free PEs.
TryCached ==
    /\ phase = "cached" /\ pos \in DOMAIN ready
    /\ LET t == ready[pos]
           p == cache[Key[t]]
       IN  \/ p # 0 /\ Give(pos, p) /\ pos' = pos
           \/ (p = 0 \/ ~Takes(t, p)) /\ Keep /\ pos' = pos + 1
    /\ UNCHANGED <<world, free, rr, phase, left, stamp, searchVars>>

\* The policy reads the clock and puts the queue in order.  eft_resource and
\* etf_resource begin with the first PE.
BeginPolicy ==
    /\ phase = "choose" \/ (phase = "cached" /\ pos \notin DOMAIN ready)
    /\ ready' \in Orders
    /\ phase' = "try" /\ pos' = 1 /\ left' = Len(ready)
    /\ stamp' = IF cfg.policy \in Timed THEN now ELSE 0
    /\ pick' = IF cfg.policy \in {"EFT", "ETF"} THEN 1 ELSE 0
    /\ UNCHANGED <<world, pending, avail, free, rr, cache, given, itr, seen, found>>

\* A policy that counts free PEs stops when it has counted them down.
Counted == free' = IF cfg.queueing THEN free ELSE OneLess(free)
StopAtZero == phase' = IF ~cfg.queueing /\ free' = 0 THEN "report" ELSE "try"

\* scheduleSimple and scheduleMET: the first candidate, from the PE after the
\* last one given, that takes the task.  SIMPLE looks at the count after a task
\* that nobody took too.
TryRing ==
    /\ phase = "try" /\ cfg.policy \in Ring /\ pos \in DOMAIN ready
    /\ LET t == ready[pos]
           fits == {i \in 0..(NumPEs - 1) : At(i) \in Candidates(t) /\ Takes(t, At(i))}
       IN  \/ /\ fits # {}
              /\ Give(pos, At(Min(fits)))
              /\ rr' = At(Min(fits)) % NumPEs
              /\ pos' = pos
              /\ Counted /\ StopAtZero
           \/ /\ fits = {}
              /\ Keep /\ pos' = pos + 1
              /\ UNCHANGED <<rr, free>>
              /\ IF cfg.policy = "MET" THEN phase' = phase ELSE StopAtZero
    /\ UNCHANGED <<world, left, stamp, searchVars>>

\* For every task, or in every pass, the timed policies forget the time they
\* found.  HEFT_RT forgets the PE as well, the others keep it.
BeginSearch ==
    /\ phase = "try" /\ cfg.policy \in Timed
    /\ IF cfg.policy = "ETF" THEN left > 0 ELSE pos \in DOMAIN ready
    /\ phase' = "seek"
    /\ itr' = IF cfg.policy = "ETF" THEN 1 ELSE pos
    /\ seen' = 0 /\ found' = Never
    /\ pick' = IF cfg.policy = "HEFT_RT" THEN 0 ELSE pick
    /\ UNCHANGED <<world, ready, pending, avail, free, rr, cache, pos, left, given, stamp>>

\* The search looks at one PE, and goes on to the next, in ETF to the next task
\* after the last PE.
LookAtPE ==
    /\ phase = "seek"
    /\ IF Improves(ready[itr], LooksAt)
       THEN found' = Finish(ready[itr], LooksAt) /\ pick' = LooksAt /\ pos' = itr
       ELSE UNCHANGED <<found, pick, pos>>
    /\ \/ /\ seen + 1 < NumPEs
          /\ seen' = seen + 1 /\ UNCHANGED <<itr, phase>>
       \/ /\ seen + 1 = NumPEs /\ cfg.policy = "ETF" /\ itr < Len(ready)
          /\ seen' = 0 /\ itr' = itr + 1 /\ phase' = phase
       \/ /\ seen + 1 = NumPEs /\ (cfg.policy = "ETF" => itr = Len(ready))
          /\ seen' = 0 /\ itr' = 0 /\ phase' = "ask"
    /\ UNCHANGED <<world, ready, pending, avail, free, rr, cache, left, given, stamp>>

\* scheduleEFT and scheduleHEFT_RT ask the PE that the search ended with.  If it
\* found none that can run the task, that is for EFT one from before, and for
\* HEFT_RT the PE of index -1.
TryEarliest ==
    /\ phase = "ask" /\ cfg.policy \in {"EFT", "HEFT_RT"}
    /\ \/ /\ pick # 0 /\ Give(pos, pick)
          /\ pos' = pos
          /\ IF cfg.policy = "EFT" THEN Counted /\ StopAtZero
                                   ELSE free' = free /\ phase' = "try"
       \/ /\ pick # 0 /\ ~Takes(ready[pos], pick)
          /\ Keep /\ pos' = pos + 1 /\ free' = free /\ phase' = "try"
       \/ /\ pick = 0
          /\ Keep /\ UNCHANGED <<pos, free>> /\ phase' = "stray"
    /\ UNCHANGED <<world, rr, left, stamp, searchVars>>

\* scheduleETF asks the PE for the task that the search ended with.  If it found
\* none, both are from before; the task is the one after that given last, which
\* is none when that was the last in the queue.
TryETF ==
    /\ phase = "ask" /\ cfg.policy = "ETF"
    /\ left' = left - 1
    /\ \/ /\ pos \in DOMAIN ready /\ Give(pos, pick)
          /\ Counted /\ StopAtZero
       \/ /\ pos \in DOMAIN ready /\ ~Takes(ready[pos], pick)
          /\ Keep /\ free' = free /\ phase' = "try"
       \/ /\ pos \notin DOMAIN ready
          /\ Keep /\ free' = free /\ phase' = "stray"
    /\ UNCHANGED <<world, rr, pos, stamp, searchVars>>

\* The policy has been through the queue, or has stopped.  The API daemon exits
\* if it gave no task.
EndRound ==
    /\ \/ phase = "report"
       \/ phase = "try" /\ cfg.policy # "ETF" /\ pos \notin DOMAIN ready
       \/ phase = "try" /\ cfg.policy = "ETF" /\ left = 0
    /\ phase' = IF given \/ cfg.dag THEN "rest" ELSE "dead"
    /\ pos' = 0 /\ left' = 0 /\ given' = FALSE /\ stamp' = 0
    /\ found' = 0 /\ pick' = 0
    /\ UNCHANGED <<world, ready, pending, avail, free, rr, cache, itr, seen>>

Main ==
    \/ Begin \/ TryCached \/ BeginPolicy
    \/ TryRing \/ BeginSearch \/ LookAtPE \/ TryEarliest \/ TryETF \/ EndRound

Next ==
    \/ Main \/ Tick
    \/ \E t \in Task : Submit(t)
    \/ \E p \in PE : Drain(p)

\* The main thread goes on, and drains every PE that has completed a task on its
\* way from one round to the next.
Fairness == WF_vars(Main) /\ \A p \in PE : SF_vars(Drain(p))

Spec == Init /\ [][Next]_vars
FairSpec == Spec /\ Fairness

-----------------------------------------------------------------------------
TypeOK ==
    /\ cfg \in Config
    /\ ready \in Seq(Task)
    /\ pending \in [PE -> Seq(Task)] /\ gone \subseteq Task
    /\ avail \in [PE -> Nat] /\ now \in 0..MaxTime /\ stamp \in 0..MaxTime
    /\ free \in 0..(CountMod - 1)
    /\ rr \in 0..(NumPEs - 1)
    /\ cache \in [{Key[t] : t \in Task} -> PE \cup {0}]
    /\ phase \in {"rest", "cached", "choose", "try", "seek", "ask", "report", "dead", "stray"}
    /\ pos \in Nat /\ left \in Nat /\ given \in BOOLEAN
    /\ itr \in Nat /\ seen \in 0..(NumPEs - 1)
    /\ found \in Nat \cup {Never} /\ pick \in PE \cup {0}

\* The DAG daemon's count is never lower than the number of idle PEs, so that a
\* policy which stops at zero leaves none idle, although the cached decisions
\* and HEFT_RT do not count.  (The API daemon never counts upwards.)
CountIsNeverShort ==
    cfg.dag /\ ~cfg.queueing => free >= Cardinality({p \in PE : Idle(p)})

\* A timed policy compares one PE after the other with the best it has seen, and
\* what it remembers of that outlives the task and the pass it was found for.
\* Still EFT and HEFT_RT give a task only to a PE which, by their estimates of that
\* moment, finishes it no later than any other; and ETF gives only the task, of
\* all that are ready, for which that is earliest.  Cached decisions are exempt.
GivenEarliest ==
    cfg.policy \in Timed /\ phase # "cached" =>
        \A p \in PE : \A t \in ToSet(pending'[p]) \ ToSet(pending[p]) :
            \A u \in IF cfg.policy = "ETF" THEN ToSet(ready) ELSE {t} :
                \A q \in CanRun(u) : Finish(t, p) <= Finish(u, q)
GivesEarliest == [][GivenEarliest]_vars

\* The policies keep to the round that CedrRuntime and DagRuntime keep to.
Round == INSTANCE SchedRound WITH
    Able <- [t \in Task |-> CanRun(t)],
    queueing <- cfg.queueing, exits <- ~cfg.dag,
    queue <- ToSet(ready),
    pending <- [p \in PE |-> ToSet(pending[p])],
    round <- IF phase \in {"rest", "dead", "stray"} THEN phase ELSE "open"

RoundSpec == Round!Spec

-----------------------------------------------------------------------------
(* The inductive invariant of the proofs.                                  *)

\* A task is ready, pending at one PE, or gone, and no queue holds it twice.
EveryTaskOnce ==
    /\ IsInjective(ready) /\ ToSet(ready) \cap gone = {}
    /\ \A p \in PE :
          /\ IsInjective(pending[p])
          /\ ToSet(pending[p]) \cap (ToSet(ready) \cup gone) = {}
          /\ \A q \in PE \ {p} : ToSet(pending[p]) \cap ToSet(pending[q]) = {}

\* Without queueing a PE has one task, so that it is idle when that is drained;
\* and the DAG daemon counts upwards once for each task.
CountInv ==
    /\ ~cfg.queueing => \A p \in PE : Len(pending[p]) <= 1
    /\ cfg.dag /\ ~cfg.queueing => free <= NumPEs + Cardinality(gone)

\* A task that no PE can run, or not all that can are idle.
Waits(t) == CanRun(t) = {} \/ \E p \in CanRun(t) : ~Idle(p)

\* The pairs of a position and a PE that can run the task there.
Pairs == {x \in (DOMAIN ready) \X PE : x[2] \in CanRun(ready[x[1]])}

\* A policy that goes through the queue leaves behind it, with queueing, only
\* tasks that no PE can run.  Without, if it has given nothing, it has not begun
\* or leaves one that waits.  ETF has as many passes as there were tasks.
Trying == phase \in {"try", "seek", "ask"}
RoundInv ==
    /\ phase = "rest" => ~given
    /\ (phase = "cached" \/ Trying) /\ cfg.policy # "ETF" => pos > 0
    /\ phase = "report" => ~cfg.queueing /\ (given \/ \E t \in ToSet(ready) : Waits(t))
    /\ Trying /\ cfg.policy # "ETF" =>
          IF cfg.queueing
          THEN \A i \in DOMAIN ready : i < pos => CanRun(ready[i]) = {}
          ELSE given \/ pos = 1 \/ \E t \in ToSet(ready) : Waits(t)
    /\ Trying /\ cfg.policy = "ETF" =>
          /\ left <= Len(ready)
          /\ IF cfg.queueing
             THEN left = Len(ready) \/ Pairs = {}
             ELSE given \/ left = Len(ready) \/ \E t \in ToSet(ready) : Waits(t)

\* What the search has looked at: PE q for the task at k.
Compared(k, q) ==
    IF phase = "ask" THEN cfg.policy = "ETF" \/ k = pos
    ELSE \/ cfg.policy = "ETF" /\ k < itr
         \/ k = itr /\ IF cfg.policy = "EFT" THEN q > NumPEs - seen ELSE q <= seen

\* The least of the times it compared belongs to the task and the PE it stands by;
\* or nothing it looked at can run.
SearchInv ==
    /\ phase \in {"seek", "ask"} =>
          /\ cfg.policy \in Timed
          /\ IF cfg.policy = "ETF" THEN left > 0 ELSE pos \in DOMAIN ready
          /\ found = Never =>
                \A k \in DOMAIN ready, q \in PE : Compared(k, q) => q \notin CanRun(ready[k])
          /\ found # Never =>
                /\ pos \in DOMAIN ready /\ pick \in CanRun(ready[pos])
                /\ found = Finish(ready[pos], pick)
                /\ \A k \in DOMAIN ready, q \in PE :
                      Compared(k, q) /\ q \in CanRun(ready[k]) => found <= Finish(ready[k], q)
    /\ phase = "seek" => itr \in DOMAIN ready /\ (cfg.policy # "ETF" => itr = pos)

SchedInv ==
    /\ TypeOK /\ EveryTaskOnce /\ CountIsNeverShort /\ CountInv
    /\ RoundInv /\ SearchInv

-----------------------------------------------------------------------------
(* Liveness.                                                               *)

\* Every ready task that some PE can run is given to one in the end, whatever
\* else is waiting, unless the daemon ends or a policy goes astray first.
ReadyIsServed ==
    <>[](phase \in {"dead", "stray"} \/ \A t \in ToSet(ready) : CanRun(t) = {})
=============================================================================
