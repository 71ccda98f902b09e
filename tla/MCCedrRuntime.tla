--------------------------- MODULE MCCedrRuntime ---------------------------
(***************************************************************************)
(* Constants for model checking CedrRuntime.                               *)
(***************************************************************************)
EXTENDS CedrRuntime

CONSTANTS a1, a2

\* Every PE implements every kernel.
AnyPE == [a \in Apps |-> PE]

\* The first PE implements every kernel, as a CPU does; the others only those
\* of a1.
OneAccelerated == [a \in Apps |-> IF a = a1 THEN PE ELSE {1}]

\* a1 may make two calls, in one batch or in two; the others make one.
TwoCallsAndOne == [a \in Apps |-> IF a = a1 THEN 2 ELSE 1]

OneCallEach == [a \in Apps |-> 1]

\* a1 may make two calls beside applications that make none.
TwoCallsAlone == [a \in Apps |-> IF a = a1 THEN 2 ELSE 0]

=============================================================================
