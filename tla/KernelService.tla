--------------------------- MODULE KernelService ---------------------------
(***************************************************************************)
(* What the daemon promises to the applications that call its kernels,     *)
(* without queues, workers or barriers: every kernel call is executed      *)
(* exactly once, a batch of calls returns to the application only when all *)
(* of its kernels have been executed, and an application is freed only     *)
(* when it has ended.  The calls of an application are numbered.           *)
(***************************************************************************)
EXTENDS Integers

CONSTANT Apps

VARIABLES
    life,      \* "absent", "computing", "waiting", "ended" or "freed"
    issued,    \* how many kernel calls an application has issued
    executed   \* the calls whose kernel was run, as pairs <<app, number>>

sVars == <<life, issued, executed>>

Init ==
    /\ life = [a \in Apps |-> "absent"]
    /\ issued = [a \in Apps |-> 0]
    /\ executed = {}

Start(a) ==
    /\ life[a] = "absent"
    /\ life' = [life EXCEPT ![a] = "computing"]
    /\ UNCHANGED <<issued, executed>>

\* The application hands its thread over to a batch of calls.
Enter(a) ==
    /\ life[a] = "computing"
    /\ life' = [life EXCEPT ![a] = "waiting"]
    /\ UNCHANGED <<issued, executed>>

Issue(a) ==
    /\ life[a] = "waiting"
    /\ issued' = [issued EXCEPT ![a] = @ + 1]
    /\ UNCHANGED <<life, executed>>

\* The kernel of one issued call runs; its caller is still there.
Execute(c) ==
    /\ life[c[1]] = "waiting"
    /\ c \notin executed
    /\ executed' = executed \cup {c}
    /\ UNCHANGED <<life, issued>>

\* Only an application whose calls have all been executed gets its thread back.
Return(a) ==
    /\ life[a] = "waiting"
    /\ \A k \in 0..(issued[a] - 1) : <<a, k>> \in executed
    /\ life' = [life EXCEPT ![a] = "computing"]
    /\ UNCHANGED <<issued, executed>>

End(a) ==
    /\ life[a] = "computing"
    /\ life' = [life EXCEPT ![a] = "ended"]
    /\ UNCHANGED <<issued, executed>>

Free(a) ==
    /\ life[a] = "ended"
    /\ life' = [life EXCEPT ![a] = "freed"]
    /\ UNCHANGED <<issued, executed>>

Next ==
    \/ \E a \in Apps : \/ Start(a) \/ Enter(a) \/ Issue(a)
                       \/ Return(a) \/ End(a) \/ Free(a)
    \/ \E a \in Apps : \E k \in 0..(issued[a] - 1) : Execute(<<a, k>>)

Spec == Init /\ [][Next]_sVars

=============================================================================
