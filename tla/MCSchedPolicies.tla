-------------------------- MODULE MCSchedPolicies --------------------------
(* An instance of SchedPolicies for TLC: a processor and an accelerator,   *)
(* and tasks that both of them, one or none can run.                       *)
EXTENDS SchedPolicies

CONSTANTS both, cpu, acc, odd

FourTasks == {both, cpu, acc, odd}

\* There is no PE of type 2.
TaskTypes == (both :> {0, 1}) @@ (cpu :> {0, 2}) @@ (acc :> {1}) @@ (odd :> {2})
TaskTimes ==
    (both :> (0 :> 3 @@ 1 :> 1)) @@ (cpu :> (0 :> 2 @@ 2 :> 1)) @@ (acc :> (1 :> 2)) @@ (odd :> (2 :> 1))
TaskKeys == (both :> "k") @@ (cpu :> "k") @@ (acc :> "a") @@ (odd :> "o")

TwoTypes == <<0, 1>>

\* RANDOM shuffles and calls SIMPLE; the cache is tried with one policy of a kind.
SomeConfigs ==
    {c \in Config : /\ c.cache => c.dag /\ c.policy \in {"SIMPLE", "HEFT_RT", "EFT"}
                    /\ c.policy = "RANDOM" => ~c.dag}
=============================================================================
