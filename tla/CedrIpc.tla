------------------------------ MODULE CedrIpc ------------------------------
(***************************************************************************)
(* How sub_dag and kill_daemon pass their commands to the CEDR daemon (the *)
(* same code in src-api and src-dag): one page of shared memory, guarded   *)
(* by a named semaphore.                                                   *)
(*                                                                         *)
(* The daemon creates both when it starts and removes their names when it  *)
(* reads TERMINATE, and only then.  A name may therefore refer to what an  *)
(* earlier run of the daemon left behind, or to nothing; a client opens    *)
(* the two names one after the other, and spins on the semaphore until it  *)
(* finds the slot free.  Any process may die anywhere.                     *)
(*                                                                         *)
(* Each step is one system call, or one access to the page.                *)
(***************************************************************************)
EXTENDS Integers, FiniteSets

CONSTANTS
    Client,        \* processes that submit one command each
    Kills,         \* those that run kill_daemon; the others run sub_dag
    Runs,          \* bound: how often the daemon is started
    ExitWhenIdle,  \* config "Exit When Idle"
    QuickRestart,  \* the daemon is started again as soon as kill_daemon returned
    Dying          \* processes may die

Daemon == 1..Runs

ASSUME IpcAssumption ==
    /\ Kills \subseteq Client
    /\ Runs \in Nat
    /\ {ExitWhenIdle, QuickRestart, Dying} \subseteq BOOLEAN
    /\ Client \cap {"none", "zero", "free", "empty", "spoiled"} = {}

VARIABLES
    semName,  \* the run whose semaphore SEMAPHORE_NAME0 refers to, or 0
    shmName,  \* the run whose page SHARED_MEM0 refers to, or 0
    sem,      \* the value of each run's semaphore
    slot,     \* each run's page: "none" while it has no size, "zero", "free",
              \* or the client whose message is in it
    orphaned, \* the runs whose semaphore was held by a process that died
    dpc,      \* where each run of the daemon stands
    got,      \* the clients whose commands a run has copied
    cpc, csem, cshm  \* where each client stands, and what it has opened

names      == <<semName, shmName>>
daemonVars == <<dpc, got>>
clientVars == <<cpc, csem, cshm>>
vars == <<names, sem, slot, orphaned, daemonVars, clientVars>>

Locked == {"mark", "initpost", "look", "take", "end", "post", "endpost"}
Critical == {"compare", "write", "retry", "report"}

Early == {"off", "unlinksem", "opensem"}

Alive(i) == i \in Daemon /\ dpc[i] \notin {"off", "gone"}

-----------------------------------------------------------------------------
Init ==
    /\ semName = 0 /\ shmName = 0
    /\ sem = [i \in Daemon |-> 0]
    /\ slot = [i \in Daemon |-> "none"]
    /\ orphaned = {}
    /\ dpc = [i \in Daemon |-> "off"]
    /\ got = [i \in Daemon |-> {}]
    /\ cpc = [c \in Client |-> "idle"]
    /\ csem = [c \in Client |-> 0]
    /\ cshm = [c \in Client |-> 0]

Goto(i, l) == dpc' = [dpc EXCEPT ![i] = l]

GotoC(c, l) == cpc' = [cpc EXCEPT ![c] = l]

-----------------------------------------------------------------------------
(* Slips: what the code could have said instead.  Only the mutants use them. *)

\* The server unlinks the semaphore's name once it has it open.
OpenSemThenUnlink(i) ==
    /\ dpc[i] = "opensem"
    /\ semName' = 0
    /\ sem' = [sem EXCEPT ![i] = 1]
    /\ Goto(i, "unlinkshm")
    /\ UNCHANGED <<shmName, slot, orphaned, got, clientVars>>

\* The server does not ask whether sem_trywait succeeded.
TryWaitAnyway(i) ==
    /\ dpc[i] = "poll"
    /\ sem' = [sem EXCEPT ![i] = IF @ > 0 THEN @ - 1 ELSE @]
    /\ Goto(i, "look")
    /\ UNCHANGED <<names, slot, orphaned, got, clientVars>>

\* The server copies the message and leaves the slot as it is.
TakeWithoutFree(i) ==
    /\ dpc[i] \in {"take", "end"}
    /\ got' = [got EXCEPT ![i] = @ \cup {slot[i]}]
    /\ Goto(i, IF dpc[i] = "end" THEN "endpost" ELSE "post")
    /\ UNCHANGED <<names, sem, slot, orphaned, clientVars>>

\* The client writes over whatever is in the slot.
CompareNothing(c) ==
    /\ cpc[c] = "compare"
    /\ GotoC(c, IF slot[cshm[c]] = "none" THEN "left" ELSE "write")
    /\ orphaned' = IF slot[cshm[c]] = "none" THEN orphaned \cup {csem[c]} ELSE orphaned
    /\ UNCHANGED <<names, sem, slot, daemonVars, csem, cshm>>

\* The client posts only where it tries again.
PostOnRetryOnly(c) ==
    /\ cpc[c] \in {"retry", "report"}
    /\ sem' = IF cpc[c] = "retry" THEN [sem EXCEPT ![csem[c]] = @ + 1] ELSE sem
    /\ GotoC(c, IF cpc[c] = "report" THEN "sent" ELSE "wait")
    /\ UNCHANGED <<names, slot, orphaned, daemonVars, csem, cshm>>

-----------------------------------------------------------------------------
(* The daemon: initialize_sh_mem_server.                                   *)

\* Run j of the daemon has ended, or the user takes it that it has.
Finished(j) ==
    \/ dpc[j] = "gone"
    \/ /\ QuickRestart /\ Alive(j)
       /\ \E k \in Kills : cpc[k] = "sent" /\ cshm[k] = j

Start(i) ==
    /\ dpc[i] = "off"
    /\ \A j \in Daemon : j < i => Finished(j)
    /\ Goto(i, "unlinksem")
    /\ UNCHANGED <<names, sem, slot, orphaned, got, clientVars>>

\* Names that a predecessor left are removed.
UnlinkSem(i) ==
    /\ dpc[i] = "unlinksem"
    /\ semName' = 0
    /\ Goto(i, "opensem")
    /\ UNCHANGED <<shmName, sem, slot, orphaned, got, clientVars>>

\* sem_open creates the semaphore, or fails if the name is there again.
OpenSem(i) ==
    /\ dpc[i] = "opensem"
    /\ IF semName = 0
       THEN /\ semName' = i
            /\ sem' = [sem EXCEPT ![i] = 1]
            /\ Goto(i, "unlinkshm")
       ELSE UNCHANGED <<semName, sem>> /\ Goto(i, "gone")
    /\ UNCHANGED <<shmName, slot, orphaned, got, clientVars>>

UnlinkShm(i) ==
    /\ dpc[i] = "unlinkshm"
    /\ shmName' = 0
    /\ Goto(i, "openshm")
    /\ UNCHANGED <<semName, sem, slot, orphaned, got, clientVars>>

OpenShm(i) ==
    /\ dpc[i] = "openshm"
    /\ IF shmName = 0
       THEN shmName' = i /\ Goto(i, "truncate")
       ELSE shmName' = shmName /\ Goto(i, "gone")
    /\ UNCHANGED <<semName, sem, slot, orphaned, got, clientVars>>

\* ftruncate gives the page its size.
Truncate(i) ==
    /\ dpc[i] = "truncate"
    /\ slot' = [slot EXCEPT ![i] = "zero"]
    /\ Goto(i, "initwait")
    /\ UNCHANGED <<names, sem, orphaned, got, clientVars>>

InitWait(i) ==
    /\ dpc[i] = "initwait" /\ sem[i] > 0
    /\ sem' = [sem EXCEPT ![i] = @ - 1]
    /\ Goto(i, "mark")
    /\ UNCHANGED <<names, slot, orphaned, got, clientVars>>

MarkSlotFree(i) ==
    /\ dpc[i] = "mark"
    /\ slot' = [slot EXCEPT ![i] = "free"]
    /\ Goto(i, "initpost")
    /\ UNCHANGED <<names, sem, orphaned, got, clientVars>>

InitPost(i) ==
    /\ dpc[i] = "initpost"
    /\ sem' = [sem EXCEPT ![i] = @ + 1]
    /\ Goto(i, "poll")
    /\ UNCHANGED <<names, slot, orphaned, got, clientVars>>

-----------------------------------------------------------------------------
(* The daemon: sh_mem_server_process_cmd, called once per pass.            *)

\* sem_trywait; when it fails, the pass goes on without a command.
TryWait(i) ==
    /\ dpc[i] = "poll" /\ sem[i] > 0
    /\ sem' = [sem EXCEPT ![i] = @ - 1]
    /\ Goto(i, "look")
    /\ UNCHANGED <<names, slot, orphaned, got, clientVars>>

\* It compares the page with the two commands.
Look(i) ==
    /\ dpc[i] = "look"
    /\ Goto(i, CASE slot[i] \in Client \ Kills -> "take"
                 [] slot[i] \in Kills -> "end"
                 [] OTHER -> "post")
    /\ UNCHANGED <<names, sem, slot, orphaned, got, clientVars>>

\* It copies the message and marks the slot free.
TakeCommand(i) ==
    /\ dpc[i] \in {"take", "end"}
    /\ got' = [got EXCEPT ![i] = @ \cup {slot[i]}]
    /\ slot' = [slot EXCEPT ![i] = "free"]
    /\ Goto(i, IF dpc[i] = "end" THEN "endpost" ELSE "post")
    /\ UNCHANGED <<names, sem, orphaned, clientVars>>

Post(i) ==
    /\ dpc[i] \in {"post", "endpost"}
    /\ sem' = [sem EXCEPT ![i] = @ + 1]
    /\ Goto(i, IF dpc[i] = "endpost" THEN "leaveshm" ELSE "poll")
    /\ UNCHANGED <<names, slot, orphaned, got, clientVars>>

\* On TERMINATE it removes the names, whatever they refer to by now; one that
\* is gone already makes it exit at once.
LeaveShm(i) ==
    /\ dpc[i] = "leaveshm"
    /\ shmName' = 0
    /\ Goto(i, IF shmName = 0 THEN "gone" ELSE "leavesem")
    /\ UNCHANGED <<semName, sem, slot, orphaned, got, clientVars>>

LeaveSem(i) ==
    /\ dpc[i] = "leavesem"
    /\ semName' = 0
    /\ Goto(i, "gone")
    /\ UNCHANGED <<shmName, sem, slot, orphaned, got, clientVars>>

\* A daemon that is idle leaves its loop and removes nothing.
IdleExit(i) ==
    /\ ExitWhenIdle
    /\ dpc[i] = "poll" /\ got[i] # {}
    /\ Goto(i, "gone")
    /\ UNCHANGED <<names, sem, slot, orphaned, got, clientVars>>

-----------------------------------------------------------------------------
(* A client: initialize_sh_mem_client.                                     *)

OpenSemC(c) ==
    /\ cpc[c] = "idle"
    /\ csem' = [csem EXCEPT ![c] = semName]
    /\ GotoC(c, IF semName = 0 THEN "left" ELSE "openshm")
    /\ UNCHANGED <<names, sem, slot, orphaned, daemonVars, cshm>>

OpenShmC(c) ==
    /\ cpc[c] = "openshm"
    /\ cshm' = [cshm EXCEPT ![c] = shmName]
    /\ GotoC(c, IF shmName = 0 THEN "left" ELSE "wait")
    /\ UNCHANGED <<names, sem, slot, orphaned, daemonVars, csem>>

Wait(c) ==
    /\ cpc[c] = "wait" /\ sem[csem[c]] > 0
    /\ sem' = [sem EXCEPT ![csem[c]] = @ - 1]
    /\ GotoC(c, "compare")
    /\ UNCHANGED <<names, slot, orphaned, daemonVars, csem, cshm>>

\* It compares the page with "SLOT0_FREE".  A page that has no size yet cannot
\* be read: the kernel ends the client, which still holds the semaphore.
Compare(c) ==
    /\ cpc[c] = "compare"
    /\ GotoC(c, CASE slot[cshm[c]] = "none" -> "left"
                  [] slot[cshm[c]] = "free" -> "write"
                  [] OTHER -> "retry")
    /\ orphaned' = IF slot[cshm[c]] = "none" THEN orphaned \cup {csem[c]} ELSE orphaned
    /\ UNCHANGED <<names, sem, slot, daemonVars, csem, cshm>>

Write(c) ==
    /\ cpc[c] = "write"
    /\ slot' = [slot EXCEPT ![cshm[c]] = c]
    /\ GotoC(c, "report")
    /\ UNCHANGED <<names, sem, orphaned, daemonVars, csem, cshm>>

PostC(c) ==
    /\ cpc[c] \in {"retry", "report"}
    /\ sem' = [sem EXCEPT ![csem[c]] = @ + 1]
    /\ GotoC(c, IF cpc[c] = "report" THEN "sent" ELSE "wait")
    /\ UNCHANGED <<names, slot, orphaned, daemonVars, csem, cshm>>

-----------------------------------------------------------------------------
(* Processes that die: killed by the user, or by a signal.                 *)

DaemonDies(i) ==
    /\ Dying /\ Alive(i)
    /\ Goto(i, "gone")
    /\ orphaned' = IF dpc[i] \in Locked THEN orphaned \cup {i} ELSE orphaned
    /\ UNCHANGED <<names, sem, slot, got, clientVars>>

ClientDies(c) ==
    /\ Dying /\ cpc[c] \in Critical \cup {"openshm", "wait"}
    /\ GotoC(c, "left")
    /\ orphaned' = IF cpc[c] \in Critical THEN orphaned \cup {csem[c]} ELSE orphaned
    /\ UNCHANGED <<names, sem, slot, daemonVars, csem, cshm>>

-----------------------------------------------------------------------------
Serve(i) ==
    \/ UnlinkSem(i) \/ OpenSem(i) \/ UnlinkShm(i) \/ OpenShm(i) \/ Truncate(i)
    \/ MarkSlotFree(i) \/ InitPost(i)
    \/ Look(i) \/ TakeCommand(i) \/ Post(i) \/ LeaveShm(i) \/ LeaveSem(i)

Submit(c) == OpenShmC(c) \/ Compare(c) \/ Write(c) \/ PostC(c)

Next ==
    \/ \E i \in Daemon : Start(i) \/ Serve(i) \/ InitWait(i) \/ TryWait(i)
                            \/ IdleExit(i) \/ DaemonDies(i)
    \/ \E c \in Client : OpenSemC(c) \/ Submit(c) \/ Wait(c) \/ ClientDies(c)

\* Processes that live go on, and none loses the race for a semaphore for ever.
Fairness ==
    /\ \A i \in Daemon : WF_vars(Serve(i)) /\ SF_vars(InitWait(i)) /\ SF_vars(TryWait(i))
    /\ \A c \in Client : WF_vars(Submit(c)) /\ SF_vars(Wait(c))

Spec == Init /\ [][Next]_vars
FairSpec == Spec /\ Fairness

-----------------------------------------------------------------------------
(* Safety.                                                                 *)

TypeOK ==
    /\ semName \in 0..Runs /\ shmName \in 0..Runs
    /\ sem \in [Daemon -> Nat]
    /\ slot \in [Daemon -> {"none", "zero", "free"} \cup Client]
    /\ orphaned \subseteq Daemon
    /\ dpc \in [Daemon -> Locked \cup {"off", "gone", "unlinksem", "opensem", "unlinkshm",
                                       "openshm", "truncate", "initwait", "poll",
                                       "leaveshm", "leavesem"}]
    /\ got \in [Daemon -> SUBSET Client]
    /\ cpc \in [Client -> Critical \cup {"idle", "openshm", "wait", "sent", "left"}]
    /\ csem \in [Client -> 0..Runs] /\ cshm \in [Client -> 0..Runs]

\* The clients that hold the semaphore of run i.
Holding(i) == {c \in Client : csem[c] = i /\ cpc[c] \in Critical}

\* There is one unit of each semaphore: it is in the semaphore, in the hands of
\* the daemon or of one client, or lost with a process that died.
SemaphoreIsBinary ==
    \A i \in Daemon :
        /\ sem[i] \in {0, 1}
        /\ sem[i] = 1 => i \notin orphaned
        /\ sem[i] = 1 \/ i \in orphaned => dpc[i] \notin Locked /\ Holding(i) = {}
        /\ dpc[i] \in Locked => Holding(i) = {}
        /\ \A c, d \in Holding(i) : c = d

\* "The main cedr process can be ended by running kill_daemon": the names lead
\* to the daemon that polls, if none was started after it.
DaemonIsReachable ==
    \A i \in Daemon :
        dpc[i] = "poll" /\ (\A j \in Daemon : j > i => dpc[j] = "off")
            => semName = i /\ shmName = i

-----------------------------------------------------------------------------
(* The protocol implements the slot, except where a client opened the      *)
(* semaphore of one run of the daemon and the page of another.             *)

Spoiled(i) == \E c \in Client : cshm[c] = i /\ csem[c] # i

Box(i) ==
    IF Spoiled(i) THEN "spoiled" ELSE IF slot[i] \in Client THEN slot[i] ELSE "empty"

Taken(i) == IF Spoiled(i) THEN {} ELSE got[i]

Slot == INSTANCE CommandSlot WITH
    box <- [i \in Daemon |-> Box(i)], taken <- [i \in Daemon |-> Taken(i)]

SlotSpec == Slot!Spec

-----------------------------------------------------------------------------
(* The inductive invariant of the proofs.                                  *)

\* What is not created yet, nobody has.
CreationInv ==
    \A i \in Daemon :
        /\ dpc[i] \in Early =>
              /\ semName # i /\ sem[i] = 0 /\ i \notin orphaned
              /\ \A c \in Client : csem[c] # i
        /\ dpc[i] \in Early \cup {"unlinkshm", "openshm"} =>
              shmName # i /\ \A c \in Client : cshm[c] # i
        /\ dpc[i] \in Early \cup {"unlinkshm", "openshm", "truncate"} => slot[i] = "none"

\* Nobody writes into a page before the daemon marked it free, and the client
\* that found the slot free will find it so when it writes.
PageInv ==
    /\ \A i \in Daemon :
          /\ dpc[i] \in {"take", "end"} => slot[i] \in Client
          /\ dpc[i] \in {"initwait", "mark"} /\ ~Spoiled(i) => slot[i] = "zero"
    /\ \A c \in Client :
          cpc[c] = "write" =>
              /\ slot[cshm[c]] # "none"
              /\ ~Spoiled(cshm[c]) => slot[cshm[c]] = "free"

\* A client knows both objects before it waits, and writes once.
ClientInv ==
    \A c \in Client :
        /\ cpc[c] \in {"idle", "openshm"} => cshm[c] = 0
        /\ cpc[c] \in Critical \cup {"openshm", "wait"} => csem[c] # 0
        /\ cpc[c] \in Critical \cup {"wait"} => cshm[c] # 0
        /\ cpc[c] \notin {"report", "sent", "left"} =>
              \A i \in Daemon : slot[i] # c /\ c \notin got[i]

\* Where a daemon is started only when its predecessor has ended, the names are
\* those of the last one started.
NamesInv ==
    ~QuickRestart =>
        \A i \in Daemon :
            /\ dpc[i] # "off" => \A j \in Daemon : j < i => dpc[j] = "gone"
            /\ dpc[i] \notin Early \cup {"gone"} => semName = i
            /\ dpc[i] \notin Early \cup {"gone", "unlinkshm", "openshm", "leavesem"} => shmName = i

\* The invariant of the protocol that is inductive: one unit of each semaphore,
\* pages that only its holder changes, and clients that write once.
IpcInv ==
    TypeOK /\ SemaphoreIsBinary /\ CreationInv /\ PageInv /\ ClientInv /\ NamesInv

-----------------------------------------------------------------------------
(* Liveness.                                                               *)

\* A client gets its command into the slot, unless it or the daemon is gone or
\* somebody died with the semaphore.
SubmissionsEnd ==
    \A c \in Client :
        cpc[c] = "wait" ~> \/ cpc[c] \in {"sent", "left"}
                           \/ ~Alive(csem[c]) \/ ~Alive(cshm[c])
                           \/ csem[c] \in orphaned

\* The daemon reads a command that is in its slot, unless it is gone or somebody
\* died with the semaphore.
CommandsAreRead ==
    \A i \in Daemon, c \in Client :
        slot[i] = c ~> c \in got[i] \/ ~Alive(i) \/ i \in orphaned \/ Spoiled(i)
=============================================================================
