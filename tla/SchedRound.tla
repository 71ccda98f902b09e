----------------------------- MODULE SchedRound -----------------------------
(***************************************************************************)
(* A scheduling round, whichever the policy: what the policies do, one by  *)
(* one, and what the daemons around them expect.                           *)
(*                                                                         *)
(* A round gives ready tasks to PEs that can run them and, without         *)
(* queueing, have nothing to do.  With queueing it leaves nothing behind   *)
(* that some PE can run; without, it may.  Only the API daemon takes a     *)
(* round that gave nothing for fatal, and only a task that no PE can run   *)
(* leads a policy astray.                                                  *)
(***************************************************************************)
CONSTANTS PE,
    Able  \* Able[t]: the PEs that can run task t

VARIABLES
    queueing,  \* config "Enable Queueing"
    exits,     \* the daemon exits when a round gives nothing
    queue,     \* the ready tasks
    pending,   \* pending[p]: the tasks PE p was given and the daemon has not logged
    round,     \* "rest", "open", "dead", "stray" or "over"
    given      \* the round that is open gave some task

roundVars == <<queueing, exits, queue, pending, round, given>>

Idle(p) == pending[p] = {}

\* A task that some PE can run, and one that has to wait, at least for one PE.
Runnable(t) == Able[t] # {}
Blocked(t) == \E p \in Able[t] : ~Idle(p)

Init ==
    /\ queueing \in BOOLEAN /\ exits \in BOOLEAN
    /\ queue = {} /\ pending = [p \in PE |-> {}]
    /\ round = "rest" /\ given = FALSE

\* Before a round tasks become ready, and others that PEs handed back are drained;
\* one that was drained may become ready again.
Between ==
    /\ queue \subseteq queue'
    /\ pending' = [p \in PE |-> pending[p] \cap pending'[p]]
    /\ \A p \in PE : pending'[p] \cap queue' = {}
    /\ UNCHANGED <<queueing, exits, given>>

Rest == round = "rest" /\ round' = "rest" /\ Between

Open == round = "rest" /\ round' = "open" /\ queue' # {} /\ Between

Give(t, p) ==
    /\ round = "open"
    /\ t \in queue /\ p \in Able[t]
    /\ queueing \/ Idle(p)
    /\ queue' = queue \ {t}
    /\ pending' = [pending EXCEPT ![p] = @ \cup {t}]
    /\ given' = TRUE
    /\ UNCHANGED <<queueing, exits, round>>

Close ==
    /\ round = "open"
    /\ \/ \A t \in queue : ~Runnable(t)
       \/ ~queueing /\ (given \/ \E t \in queue : ~Runnable(t) \/ Blocked(t))
    /\ round' = IF exits /\ ~given THEN "dead" ELSE "rest"
    /\ given' = FALSE
    /\ UNCHANGED <<queueing, exits, queue, pending>>

GoAstray ==
    /\ round = "open"
    /\ \E t \in queue : ~Runnable(t)
    /\ round' = "stray"
    /\ UNCHANGED <<queueing, exits, queue, pending, given>>

\* The daemon ends for another reason than its policy.
End ==
    /\ round \in {"rest", "open"}
    /\ round' = "over" /\ given' = FALSE
    /\ UNCHANGED <<queueing, exits, queue, pending>>

Next ==
    \/ Rest \/ Open
    \/ \E t \in queue, p \in PE : Give(t, p)
    \/ Close \/ GoAstray \/ End

Spec == Init /\ [][Next]_roundVars
=============================================================================
