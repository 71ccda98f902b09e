---------------------------- MODULE CommandSlot ----------------------------
(***************************************************************************)
(* What the submission protocol of CEDR promises its clients and the       *)
(* daemon: a slot that holds one command at a time.  A command is put once *)
(* into an empty slot, stays there until the daemon takes it, and is taken *)
(* at most once.  CedrRuntime and DagRuntime take this for granted.        *)
(*                                                                         *)
(* Every run of the daemon has a slot of its own.  The promise is void for *)
(* a slot that was spoiled.                                                *)
(***************************************************************************)
CONSTANTS Client, Daemon

VARIABLES
    box,   \* box[i]: the client whose command is in the slot of run i, or a state
    taken  \* taken[i]: the clients whose commands run i took

slotVars == <<box, taken>>

Init ==
    /\ box = [i \in Daemon |-> "empty"]
    /\ taken = [i \in Daemon |-> {}]

Put(i, c) ==
    /\ box[i] = "empty"
    /\ \A j \in Daemon : box[j] # c /\ c \notin taken[j]
    /\ box' = [box EXCEPT ![i] = c]
    /\ UNCHANGED taken

Take(i) ==
    /\ box[i] \in Client
    /\ taken' = [taken EXCEPT ![i] = @ \cup {box[i]}]
    /\ box' = [box EXCEPT ![i] = "empty"]

Spoil(i) ==
    /\ box' = [box EXCEPT ![i] = "spoiled"]
    /\ taken' = [taken EXCEPT ![i] = {}]

Next == \E i \in Daemon : Take(i) \/ Spoil(i) \/ \E c \in Client : Put(i, c)

Spec == Init /\ [][Next]_slotVars
=============================================================================
