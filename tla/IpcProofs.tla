------------------------------ MODULE IpcProofs ------------------------------
(***************************************************************************)
(* The proofs about CedrIpc: its invariant IpcInv, what follows from it,   *)
(* and that the protocol implements CommandSlot.  Every conjunct of IpcInv *)
(* has a lemma that says it survives each step, given all of IpcInv.       *)
(***************************************************************************)
EXTENDS CedrIpc, TLAPS

\* The types: a semaphore is lowered only where it is positive, and the page a
\* client accesses is that of a run.
LEMMA TypeStep ==
    ASSUME IpcInv, Next PROVE TypeOK'
<1> USE IpcAssumption DEF Daemon, names, daemonVars, clientVars, Goto, GotoC
<1>1. ASSUME NEW i \in Daemon, Start(i) PROVE TypeOK'
  BY <1>1 DEF Start, Finished, IpcInv, TypeOK
<1>2. ASSUME NEW i \in Daemon, UnlinkSem(i) PROVE TypeOK'
  BY <1>2 DEF UnlinkSem, IpcInv, TypeOK
<1>3. ASSUME NEW i \in Daemon, OpenSem(i) PROVE TypeOK'
  <2>1. /\ sem' \in [Daemon -> Nat]
        /\ dpc' \in [Daemon -> Locked \cup {"off", "gone", "unlinksem", "opensem", "unlinkshm",
                                           "openshm", "truncate", "initwait", "poll",
                                           "leaveshm", "leavesem"}]
    BY <1>3 DEF OpenSem, IpcInv, TypeOK
  <2>2. semName' \in 0..Runs
    BY <1>3 DEF OpenSem, IpcInv, TypeOK
  <2> QED
    BY <1>3, <2>1, <2>2 DEF OpenSem, IpcInv, TypeOK
<1>4. ASSUME NEW i \in Daemon, UnlinkShm(i) PROVE TypeOK'
  BY <1>4 DEF UnlinkShm, IpcInv, TypeOK
<1>5. ASSUME NEW i \in Daemon, OpenShm(i) PROVE TypeOK'
  <2>1. shmName' \in 0..Runs
    BY <1>5 DEF OpenShm, IpcInv, TypeOK
  <2>2. dpc' \in [Daemon -> Locked \cup {"off", "gone", "unlinksem", "opensem", "unlinkshm",
                                         "openshm", "truncate", "initwait", "poll",
                                         "leaveshm", "leavesem"}]
    BY <1>5 DEF OpenShm, IpcInv, TypeOK
  <2>3. UNCHANGED <<semName, sem, slot, orphaned, got, clientVars>>
    BY <1>5 DEF OpenShm
  <2> QED
    BY <2>1, <2>2, <2>3 DEF IpcInv, TypeOK
<1>6. ASSUME NEW i \in Daemon, Truncate(i) PROVE TypeOK'
  BY <1>6 DEF Truncate, IpcInv, TypeOK, CreationInv
<1>7. ASSUME NEW i \in Daemon, InitWait(i) PROVE TypeOK'
  BY <1>7 DEF InitWait, IpcInv, TypeOK, Locked
<1>8. ASSUME NEW i \in Daemon, MarkSlotFree(i) PROVE TypeOK'
  BY <1>8 DEF MarkSlotFree, IpcInv, TypeOK, Locked
<1>9. ASSUME NEW i \in Daemon, InitPost(i) PROVE TypeOK'
  BY <1>9 DEF InitPost, IpcInv, TypeOK, Locked
<1>10. ASSUME NEW i \in Daemon, TryWait(i) PROVE TypeOK'
  BY <1>10 DEF TryWait, IpcInv, TypeOK, Locked
<1>11. ASSUME NEW i \in Daemon, Look(i) PROVE TypeOK'
  BY <1>11 DEF Look, IpcInv, TypeOK, Locked
<1>12. ASSUME NEW i \in Daemon, TakeCommand(i) PROVE TypeOK'
  BY <1>12 DEF TakeCommand, IpcInv, TypeOK, PageInv, Locked
<1>13. ASSUME NEW i \in Daemon, Post(i) PROVE TypeOK'
  BY <1>13 DEF Post, IpcInv, TypeOK, PageInv, Locked
<1>14. ASSUME NEW i \in Daemon, LeaveShm(i) PROVE TypeOK'
  BY <1>14 DEF LeaveShm, IpcInv, TypeOK
<1>15. ASSUME NEW i \in Daemon, LeaveSem(i) PROVE TypeOK'
  BY <1>15 DEF LeaveSem, IpcInv, TypeOK
<1>16. ASSUME NEW i \in Daemon, IdleExit(i) PROVE TypeOK'
  BY <1>16 DEF IdleExit, IpcInv, TypeOK
<1>17. ASSUME NEW i \in Daemon, DaemonDies(i) PROVE TypeOK'
  BY <1>17 DEF DaemonDies, IpcInv, TypeOK
<1>18. ASSUME NEW c \in Client, OpenSemC(c) PROVE TypeOK'
  BY <1>18 DEF OpenSemC, IpcInv, TypeOK
<1>19. ASSUME NEW c \in Client, OpenShmC(c) PROVE TypeOK'
  BY <1>19 DEF OpenShmC, IpcInv, TypeOK
<1>20. ASSUME NEW c \in Client, Wait(c) PROVE TypeOK'
  BY <1>20 DEF Wait, IpcInv, TypeOK, ClientInv, Critical
<1>21. ASSUME NEW c \in Client, Compare(c) PROVE TypeOK'
  BY <1>21 DEF Compare, IpcInv, TypeOK, ClientInv, Critical
<1>22. ASSUME NEW c \in Client, Write(c) PROVE TypeOK'
  BY <1>22 DEF Write, IpcInv, TypeOK, ClientInv, Critical
<1>23. ASSUME NEW c \in Client, PostC(c) PROVE TypeOK'
  BY <1>23 DEF PostC, IpcInv, TypeOK, ClientInv, Critical
<1>24. ASSUME NEW c \in Client, ClientDies(c) PROVE TypeOK'
  <2>0. cpc[c] \in Critical => csem[c] \in Daemon
    BY <1>24 DEF IpcInv, TypeOK, ClientInv
  <2>1. orphaned' \subseteq Daemon
    BY <1>24, <2>0 DEF ClientDies, IpcInv, TypeOK
  <2> QED
    BY <1>24, <2>1 DEF ClientDies, IpcInv, TypeOK
<1> QED
  BY <1>1, <1>2, <1>3, <1>4, <1>5, <1>6, <1>7, <1>8, <1>9, <1>10, <1>11, <1>12,
     <1>13, <1>14, <1>15, <1>16, <1>17, <1>18, <1>19, <1>20, <1>21, <1>22, <1>23,
     <1>24 DEF Next, Serve, Submit

\* The unit of a semaphore moves between it, one process and the dead.  It is
\* made once: no client has the semaphore of a run that has not created it.
LEMMA BinaryStep ==
    ASSUME IpcInv, Next PROVE SemaphoreIsBinary'
<1> USE IpcAssumption DEF Daemon, names, daemonVars, clientVars, Goto, GotoC
<1>1. ASSUME NEW i \in Daemon, Start(i) PROVE SemaphoreIsBinary'
  BY <1>1 DEF Start, Finished, IpcInv, SemaphoreIsBinary, Holding, Locked
<1>2. ASSUME NEW i \in Daemon, UnlinkSem(i) PROVE SemaphoreIsBinary'
  BY <1>2 DEF UnlinkSem, IpcInv, SemaphoreIsBinary, Holding, Locked
<1>3. ASSUME NEW i \in Daemon, OpenSem(i) PROVE SemaphoreIsBinary'
  BY <1>3 DEF OpenSem, IpcInv, TypeOK, SemaphoreIsBinary, CreationInv, Holding, Locked, Early
<1>4. ASSUME NEW i \in Daemon, UnlinkShm(i) PROVE SemaphoreIsBinary'
  BY <1>4 DEF UnlinkShm, IpcInv, TypeOK, SemaphoreIsBinary, CreationInv, Holding, Locked, Early
<1>5. ASSUME NEW i \in Daemon, OpenShm(i) PROVE SemaphoreIsBinary'
  BY <1>5 DEF OpenShm, IpcInv, TypeOK, SemaphoreIsBinary, Holding, Locked
<1>6. ASSUME NEW i \in Daemon, Truncate(i) PROVE SemaphoreIsBinary'
  BY <1>6 DEF Truncate, IpcInv, TypeOK, SemaphoreIsBinary, Holding, Locked
<1>7. ASSUME NEW i \in Daemon, InitWait(i) PROVE SemaphoreIsBinary'
  BY <1>7 DEF InitWait, IpcInv, TypeOK, SemaphoreIsBinary, Holding, Locked
<1>8. ASSUME NEW i \in Daemon, MarkSlotFree(i) PROVE SemaphoreIsBinary'
  BY <1>8 DEF MarkSlotFree, IpcInv, TypeOK, SemaphoreIsBinary, Holding, Locked
<1>9. ASSUME NEW i \in Daemon, InitPost(i) PROVE SemaphoreIsBinary'
  BY <1>9 DEF InitPost, IpcInv, TypeOK, SemaphoreIsBinary, Holding, Locked
<1>10. ASSUME NEW i \in Daemon, TryWait(i) PROVE SemaphoreIsBinary'
  BY <1>10 DEF TryWait, IpcInv, TypeOK, SemaphoreIsBinary, Holding, Locked
<1>11. ASSUME NEW i \in Daemon, Look(i) PROVE SemaphoreIsBinary'
  BY <1>11 DEF Look, IpcInv, TypeOK, SemaphoreIsBinary, Holding, Locked
<1>12. ASSUME NEW i \in Daemon, TakeCommand(i) PROVE SemaphoreIsBinary'
  BY <1>12 DEF TakeCommand, IpcInv, SemaphoreIsBinary, Holding, Locked
<1>13. ASSUME NEW i \in Daemon, Post(i) PROVE SemaphoreIsBinary'
  BY <1>13 DEF Post, IpcInv, TypeOK, SemaphoreIsBinary, Holding, Locked
<1>14. ASSUME NEW i \in Daemon, LeaveShm(i) PROVE SemaphoreIsBinary'
  BY <1>14 DEF LeaveShm, IpcInv, TypeOK, SemaphoreIsBinary, Holding, Locked
<1>15. ASSUME NEW i \in Daemon, LeaveSem(i) PROVE SemaphoreIsBinary'
  BY <1>15 DEF LeaveSem, IpcInv, SemaphoreIsBinary, Holding, Locked
<1>16. ASSUME NEW i \in Daemon, IdleExit(i) PROVE SemaphoreIsBinary'
  BY <1>16 DEF IdleExit, IpcInv, SemaphoreIsBinary, Holding, Locked
<1>17. ASSUME NEW i \in Daemon, DaemonDies(i) PROVE SemaphoreIsBinary'
  BY <1>17 DEF DaemonDies, IpcInv, TypeOK, SemaphoreIsBinary, Holding, Locked
<1>18. ASSUME NEW c \in Client, OpenSemC(c) PROVE SemaphoreIsBinary'
  BY <1>18 DEF OpenSemC, IpcInv, TypeOK, SemaphoreIsBinary, Holding, Locked, Critical
<1>19. ASSUME NEW c \in Client, OpenShmC(c) PROVE SemaphoreIsBinary'
  BY <1>19 DEF OpenShmC, IpcInv, SemaphoreIsBinary, Holding, Critical
<1>20. ASSUME NEW c \in Client, Wait(c) PROVE SemaphoreIsBinary'
  BY <1>20 DEF Wait, IpcInv, TypeOK, SemaphoreIsBinary, Holding, Critical
<1>21. ASSUME NEW c \in Client, Compare(c) PROVE SemaphoreIsBinary'
  BY <1>21 DEF Compare, IpcInv, TypeOK, SemaphoreIsBinary, Holding, Critical
<1>22. ASSUME NEW c \in Client, Write(c) PROVE SemaphoreIsBinary'
  BY <1>22 DEF Write, IpcInv, TypeOK, SemaphoreIsBinary, Holding, Critical
<1>23. ASSUME NEW c \in Client, PostC(c) PROVE SemaphoreIsBinary'
  BY <1>23 DEF PostC, IpcInv, TypeOK, SemaphoreIsBinary, Holding, Critical
<1>24. ASSUME NEW c \in Client, ClientDies(c) PROVE SemaphoreIsBinary'
  BY <1>24 DEF ClientDies, IpcInv, TypeOK, SemaphoreIsBinary, Holding, Critical
<1> QED
  BY <1>1, <1>2, <1>3, <1>4, <1>5, <1>6, <1>7, <1>8, <1>9, <1>10, <1>11, <1>12,
     <1>13, <1>14, <1>15, <1>16, <1>17, <1>18, <1>19, <1>20, <1>21, <1>22, <1>23,
     <1>24 DEF Next, Serve, Submit

\* What a run has not created is referred to by no name and open in no client.
LEMMA CreationStep ==
    ASSUME IpcInv, Next PROVE CreationInv'
<1> USE IpcAssumption DEF Daemon, names, daemonVars, clientVars, Goto, GotoC
<1>1. ASSUME NEW i \in Daemon, Start(i) PROVE CreationInv'
  BY <1>1 DEF Start, Finished, IpcInv, CreationInv, Early
<1>2. ASSUME NEW i \in Daemon, UnlinkSem(i) PROVE CreationInv'
  BY <1>2 DEF UnlinkSem, IpcInv, CreationInv, Early
<1>3. ASSUME NEW i \in Daemon, OpenSem(i) PROVE CreationInv'
  BY <1>3 DEF OpenSem, IpcInv, TypeOK, CreationInv, Early
<1>4. ASSUME NEW i \in Daemon, UnlinkShm(i) PROVE CreationInv'
  BY <1>4 DEF UnlinkShm, IpcInv, TypeOK, CreationInv, Early
<1>5. ASSUME NEW i \in Daemon, OpenShm(i) PROVE CreationInv'
  BY <1>5 DEF OpenShm, IpcInv, TypeOK, CreationInv, Early
<1>6. ASSUME NEW i \in Daemon, Truncate(i) PROVE CreationInv'
  BY <1>6 DEF Truncate, IpcInv, TypeOK, CreationInv, Early
<1>7. ASSUME NEW i \in Daemon, InitWait(i) PROVE CreationInv'
  BY <1>7 DEF InitWait, IpcInv, TypeOK, CreationInv, Early
<1>8. ASSUME NEW i \in Daemon, MarkSlotFree(i) PROVE CreationInv'
  BY <1>8 DEF MarkSlotFree, IpcInv, CreationInv, Early
<1>9. ASSUME NEW i \in Daemon, InitPost(i) PROVE CreationInv'
  BY <1>9 DEF InitPost, IpcInv, CreationInv, Early
<1>10. ASSUME NEW i \in Daemon, TryWait(i) PROVE CreationInv'
  BY <1>10 DEF TryWait, IpcInv, CreationInv, Early
<1>11. ASSUME NEW i \in Daemon, Look(i) PROVE CreationInv'
  BY <1>11 DEF Look, IpcInv, CreationInv, Early
<1>12. ASSUME NEW i \in Daemon, TakeCommand(i) PROVE CreationInv'
  BY <1>12 DEF TakeCommand, IpcInv, CreationInv, Early
<1>13. ASSUME NEW i \in Daemon, Post(i) PROVE CreationInv'
  BY <1>13 DEF Post, IpcInv, CreationInv, Early
<1>14. ASSUME NEW i \in Daemon, LeaveShm(i) PROVE CreationInv'
  BY <1>14 DEF LeaveShm, IpcInv, CreationInv, Early
<1>15. ASSUME NEW i \in Daemon, LeaveSem(i) PROVE CreationInv'
  BY <1>15 DEF LeaveSem, IpcInv, CreationInv, Early
<1>16. ASSUME NEW i \in Daemon, IdleExit(i) PROVE CreationInv'
  BY <1>16 DEF IdleExit, IpcInv, CreationInv, Early
<1>17. ASSUME NEW i \in Daemon, DaemonDies(i) PROVE CreationInv'
  BY <1>17 DEF DaemonDies, IpcInv, TypeOK, CreationInv, Early
<1>18. ASSUME NEW c \in Client, OpenSemC(c) PROVE CreationInv'
  BY <1>18 DEF OpenSemC, IpcInv, TypeOK, CreationInv, Early
<1>19. ASSUME NEW c \in Client, OpenShmC(c) PROVE CreationInv'
  BY <1>19 DEF OpenShmC, IpcInv, CreationInv
<1>20. ASSUME NEW c \in Client, Wait(c) PROVE CreationInv'
  BY <1>20 DEF Wait, IpcInv, CreationInv
<1>21. ASSUME NEW c \in Client, Compare(c) PROVE CreationInv'
  BY <1>21 DEF Compare, IpcInv, CreationInv
<1>22. ASSUME NEW c \in Client, Write(c) PROVE CreationInv'
  BY <1>22 DEF Write, IpcInv, CreationInv, PageInv
<1>23. ASSUME NEW c \in Client, PostC(c) PROVE CreationInv'
  BY <1>23 DEF PostC, IpcInv, CreationInv, PageInv
<1>24. ASSUME NEW c \in Client, ClientDies(c) PROVE CreationInv'
  BY <1>24 DEF ClientDies, IpcInv, CreationInv
<1> QED
  BY <1>1, <1>2, <1>3, <1>4, <1>5, <1>6, <1>7, <1>8, <1>9, <1>10, <1>11, <1>12,
     <1>13, <1>14, <1>15, <1>16, <1>17, <1>18, <1>19, <1>20, <1>21, <1>22, <1>23,
     <1>24 DEF Next, Serve, Submit

\* The page changes only under its semaphore, unless it is spoiled: what the
\* daemon and the client saw there is still there when they act on it.
LEMMA PageStep ==
    ASSUME IpcInv, Next PROVE PageInv'
<1> USE IpcAssumption DEF Daemon, names, daemonVars, clientVars, Goto, GotoC
<1>1. ASSUME NEW i \in Daemon, Start(i) PROVE PageInv'
  BY <1>1 DEF Start, Finished, IpcInv, PageInv, Spoiled
<1>2. ASSUME NEW i \in Daemon, UnlinkSem(i) PROVE PageInv'
  BY <1>2 DEF UnlinkSem, IpcInv, PageInv, Spoiled
<1>3. ASSUME NEW i \in Daemon, OpenSem(i) PROVE PageInv'
  BY <1>3 DEF OpenSem, IpcInv, TypeOK, PageInv, Spoiled
<1>4. ASSUME NEW i \in Daemon, UnlinkShm(i) PROVE PageInv'
  BY <1>4 DEF UnlinkShm, IpcInv, TypeOK, PageInv, Spoiled
<1>5. ASSUME NEW i \in Daemon, OpenShm(i) PROVE PageInv'
  BY <1>5 DEF OpenShm, IpcInv, TypeOK, PageInv, Spoiled
<1>6. ASSUME NEW i \in Daemon, Truncate(i) PROVE PageInv'
  BY <1>6 DEF Truncate, IpcInv, TypeOK, CreationInv, PageInv, Spoiled
<1>7. ASSUME NEW i \in Daemon, InitWait(i) PROVE PageInv'
  BY <1>7 DEF InitWait, IpcInv, TypeOK, CreationInv, PageInv, Spoiled
<1>8. ASSUME NEW i \in Daemon, MarkSlotFree(i) PROVE PageInv'
  BY <1>8 DEF MarkSlotFree, IpcInv, TypeOK, PageInv, Spoiled
<1>9. ASSUME NEW i \in Daemon, InitPost(i) PROVE PageInv'
  BY <1>9 DEF InitPost, IpcInv, TypeOK, PageInv, Spoiled
<1>10. ASSUME NEW i \in Daemon, TryWait(i) PROVE PageInv'
  BY <1>10 DEF TryWait, IpcInv, PageInv, Spoiled
<1>11. ASSUME NEW i \in Daemon, Look(i) PROVE PageInv'
  BY <1>11 DEF Look, IpcInv, PageInv, Spoiled
<1>12. ASSUME NEW i \in Daemon, TakeCommand(i) PROVE PageInv'
  BY <1>12 DEF TakeCommand, IpcInv, TypeOK, PageInv, Spoiled
<1>13. ASSUME NEW i \in Daemon, Post(i) PROVE PageInv'
  BY <1>13 DEF Post, IpcInv, TypeOK, PageInv, Spoiled
<1>14. ASSUME NEW i \in Daemon, LeaveShm(i) PROVE PageInv'
  BY <1>14 DEF LeaveShm, IpcInv, PageInv, Spoiled
<1>15. ASSUME NEW i \in Daemon, LeaveSem(i) PROVE PageInv'
  BY <1>15 DEF LeaveSem, IpcInv, PageInv, Spoiled
<1>16. ASSUME NEW i \in Daemon, IdleExit(i) PROVE PageInv'
  BY <1>16 DEF IdleExit, IpcInv, PageInv, Spoiled
<1>17. ASSUME NEW i \in Daemon, DaemonDies(i) PROVE PageInv'
  BY <1>17 DEF DaemonDies, IpcInv, PageInv, Spoiled
<1>18. ASSUME NEW c \in Client, OpenSemC(c) PROVE PageInv'
  BY <1>18 DEF OpenSemC, IpcInv, PageInv, ClientInv, Spoiled, Critical
<1>19. ASSUME NEW c \in Client, OpenShmC(c) PROVE PageInv'
  <2>1. slot' = slot /\ dpc' = dpc /\ cpc'[c] # "write"
    BY <1>19 DEF OpenShmC
  <2>2. /\ cshm[c] = 0
        /\ \A d \in Client : d # c =>
              cpc'[d] = cpc[d] /\ cshm'[d] = cshm[d] /\ csem'[d] = csem[d]
    BY <1>19 DEF OpenShmC, IpcInv, ClientInv
  <2>3. \A i \in Daemon : Spoiled(i) => Spoiled(i)'
    BY <2>2 DEF Spoiled
  <2>4. \A d \in Client : cpc[d] = "write" => cshm[d] \in Daemon
    BY DEF IpcInv, TypeOK, ClientInv, Critical
  <2>5. ASSUME NEW d \in Client, cpc'[d] = "write"
        PROVE  cshm'[d] = cshm[d] /\ cpc[d] = "write" /\ (Spoiled(cshm[d]) => Spoiled(cshm[d])')
    BY <2>1, <2>2, <2>3, <2>4, <2>5
  <2> QED
    BY <2>1, <2>3, <2>5 DEF IpcInv, PageInv
<1>20. ASSUME NEW c \in Client, Wait(c) PROVE PageInv'
  BY <1>20 DEF Wait, IpcInv, PageInv, Spoiled
<1>21. ASSUME NEW c \in Client, Compare(c) PROVE PageInv'
  BY <1>21 DEF Compare, IpcInv, PageInv, Spoiled
<1>22. ASSUME NEW c \in Client, Write(c) PROVE PageInv'
  <2> DEFINE s == cshm[c]
  <2>1. s \in Daemon /\ slot' = [slot EXCEPT ![s] = c] /\ slot'[s] = c
    BY <1>22 DEF Write, IpcInv, TypeOK, ClientInv, Critical
  <2>2. dpc' = dpc /\ cshm' = cshm /\ csem' = csem /\ \A i \in Daemon : Spoiled(i)' = Spoiled(i)
    BY <1>22 DEF Write, Spoiled
  <2>3. ASSUME NEW i \in Daemon
        PROVE  /\ dpc'[i] \in {"take", "end"} => slot'[i] \in Client
               /\ dpc'[i] \in {"initwait", "mark"} /\ ~Spoiled(i)' => slot'[i] = "zero"
    <3>1. ~Spoiled(s) => slot[s] = "free"
      BY <1>22 DEF Write, IpcInv, PageInv
    <3>2. slot[s] = "zero" => slot[s] # "free"
      OBVIOUS
    <3> QED
      BY <2>1, <2>2, <3>1, <3>2 DEF IpcInv, PageInv
  <2>4. ASSUME NEW d \in Client, cpc'[d] = "write"
        PROVE  slot'[cshm'[d]] # "none" /\ (~Spoiled(cshm[d])' => slot'[cshm'[d]] = "free")
    <3>1. d # c /\ cpc[d] = "write" /\ cpc[c] = "write"
      BY <1>22, <2>4 DEF Write, IpcInv, TypeOK
    <3>2. cshm[d] \in Daemon /\ slot[cshm[d]] # "none"
      BY <3>1 DEF IpcInv, TypeOK, ClientInv, PageInv, Critical
    <3>3. ~Spoiled(s) => cshm[d] # s
      BY <2>1, <3>1, <3>2 DEF IpcInv, SemaphoreIsBinary, Holding, Critical, Spoiled
    <3>4. slot'[cshm[d]] # "none"
      BY <2>1, <3>2 DEF IpcInv
    <3>5. ~Spoiled(cshm[d]) => slot'[cshm[d]] = "free"
      BY <2>1, <3>1, <3>2, <3>3 DEF IpcInv, PageInv
    <3> QED
      BY <2>2, <3>2, <3>4, <3>5
  <2> QED
    BY <2>3, <2>4 DEF PageInv
<1>23. ASSUME NEW c \in Client, PostC(c) PROVE PageInv'
  BY <1>23 DEF PostC, IpcInv, PageInv, Spoiled
<1>24. ASSUME NEW c \in Client, ClientDies(c) PROVE PageInv'
  BY <1>24 DEF ClientDies, IpcInv, PageInv, Spoiled
<1> QED
  BY <1>1, <1>2, <1>3, <1>4, <1>5, <1>6, <1>7, <1>8, <1>9, <1>10, <1>11, <1>12,
     <1>13, <1>14, <1>15, <1>16, <1>17, <1>18, <1>19, <1>20, <1>21, <1>22, <1>23,
     <1>24 DEF Next, Serve, Submit

\* A client has both objects open before it waits.  Its command is in no page
\* before it writes, and it writes once.
LEMMA ClientStep ==
    ASSUME IpcInv, Next PROVE ClientInv'
<1> USE IpcAssumption DEF Daemon, names, daemonVars, clientVars, Goto, GotoC
<1>1. ASSUME NEW i \in Daemon, Start(i) PROVE ClientInv'
  BY <1>1 DEF Start, Finished, IpcInv, ClientInv
<1>2. ASSUME NEW i \in Daemon, UnlinkSem(i) PROVE ClientInv'
  BY <1>2 DEF UnlinkSem, IpcInv, ClientInv
<1>3. ASSUME NEW i \in Daemon, OpenSem(i) PROVE ClientInv'
  BY <1>3 DEF OpenSem, IpcInv, ClientInv
<1>4. ASSUME NEW i \in Daemon, UnlinkShm(i) PROVE ClientInv'
  BY <1>4 DEF UnlinkShm, IpcInv, ClientInv
<1>5. ASSUME NEW i \in Daemon, OpenShm(i) PROVE ClientInv'
  BY <1>5 DEF OpenShm, IpcInv, ClientInv
<1>6. ASSUME NEW i \in Daemon, Truncate(i) PROVE ClientInv'
  BY <1>6 DEF Truncate, IpcInv, ClientInv
<1>7. ASSUME NEW i \in Daemon, InitWait(i) PROVE ClientInv'
  BY <1>7 DEF InitWait, IpcInv, ClientInv
<1>8. ASSUME NEW i \in Daemon, MarkSlotFree(i) PROVE ClientInv'
  BY <1>8 DEF MarkSlotFree, IpcInv, ClientInv
<1>9. ASSUME NEW i \in Daemon, InitPost(i) PROVE ClientInv'
  BY <1>9 DEF InitPost, IpcInv, ClientInv
<1>10. ASSUME NEW i \in Daemon, TryWait(i) PROVE ClientInv'
  BY <1>10 DEF TryWait, IpcInv, ClientInv
<1>11. ASSUME NEW i \in Daemon, Look(i) PROVE ClientInv'
  BY <1>11 DEF Look, IpcInv, ClientInv
<1>12. ASSUME NEW i \in Daemon, TakeCommand(i) PROVE ClientInv'
  BY <1>12 DEF TakeCommand, IpcInv, ClientInv
<1>13. ASSUME NEW i \in Daemon, Post(i) PROVE ClientInv'
  BY <1>13 DEF Post, IpcInv, ClientInv
<1>14. ASSUME NEW i \in Daemon, LeaveShm(i) PROVE ClientInv'
  BY <1>14 DEF LeaveShm, IpcInv, ClientInv
<1>15. ASSUME NEW i \in Daemon, LeaveSem(i) PROVE ClientInv'
  BY <1>15 DEF LeaveSem, IpcInv, ClientInv
<1>16. ASSUME NEW i \in Daemon, IdleExit(i) PROVE ClientInv'
  BY <1>16 DEF IdleExit, IpcInv, ClientInv
<1>17. ASSUME NEW i \in Daemon, DaemonDies(i) PROVE ClientInv'
  BY <1>17 DEF DaemonDies, IpcInv, ClientInv
<1>18. ASSUME NEW c \in Client, OpenSemC(c) PROVE ClientInv'
  BY <1>18 DEF OpenSemC, IpcInv, TypeOK, ClientInv, Critical
<1>19. ASSUME NEW c \in Client, OpenShmC(c) PROVE ClientInv'
  <2>1. ASSUME NEW d \in Client, d # c
        PROVE  cpc'[d] = cpc[d] /\ cshm'[d] = cshm[d] /\ csem'[d] = csem[d]
    BY <1>19, <2>1 DEF OpenShmC, IpcInv, TypeOK
  <2>2. cpc'[c] = "left" \/ (cpc'[c] = "wait" /\ cshm'[c] # 0)
    BY <1>19 DEF OpenShmC, IpcInv, TypeOK
  <2>3. csem[c] # 0
    BY <1>19 DEF OpenShmC, IpcInv, ClientInv
  <2> QED
    BY <1>19, <2>1, <2>2, <2>3 DEF OpenShmC, IpcInv, ClientInv, Critical
<1>20. ASSUME NEW c \in Client, Wait(c) PROVE ClientInv'
  BY <1>20 DEF Wait, IpcInv, ClientInv, Critical
<1>21. ASSUME NEW c \in Client, Compare(c) PROVE ClientInv'
  BY <1>21 DEF Compare, IpcInv, TypeOK, ClientInv
<1>22. ASSUME NEW c \in Client, Write(c) PROVE ClientInv'
  BY <1>22 DEF Write, IpcInv, TypeOK, ClientInv
<1>23. ASSUME NEW c \in Client, PostC(c) PROVE ClientInv'
  BY <1>23 DEF PostC, IpcInv, TypeOK, ClientInv
<1>24. ASSUME NEW c \in Client, ClientDies(c) PROVE ClientInv'
  BY <1>24 DEF ClientDies, IpcInv, TypeOK, ClientInv, Critical
<1> QED
  BY <1>1, <1>2, <1>3, <1>4, <1>5, <1>6, <1>7, <1>8, <1>9, <1>10, <1>11, <1>12,
     <1>13, <1>14, <1>15, <1>16, <1>17, <1>18, <1>19, <1>20, <1>21, <1>22, <1>23,
     <1>24 DEF Next, Serve, Submit

\* Without quick restarts one run at a time is between its start and its end,
\* so that only this one creates and removes names.
LEMMA NamesStep ==
    ASSUME IpcInv, Next PROVE NamesInv'
<1> USE IpcAssumption DEF Daemon, names, daemonVars, clientVars, Goto, GotoC
<1>1. ASSUME NEW i \in Daemon, Start(i) PROVE NamesInv'
  BY <1>1 DEF Start, Finished, IpcInv, NamesInv, Early
<1>2. ASSUME NEW i \in Daemon, UnlinkSem(i) PROVE NamesInv'
  BY <1>2 DEF UnlinkSem, IpcInv, NamesInv, Early
<1>3. ASSUME NEW i \in Daemon, OpenSem(i) PROVE NamesInv'
  <2> SUFFICES ASSUME ~QuickRestart, NEW k \in Daemon PROVE
        /\ dpc'[k] # "off" => \A j \in Daemon : j < k => dpc'[j] = "gone"
        /\ dpc'[k] \notin Early \cup {"gone"} => semName' = k
        /\ dpc'[k] \notin Early \cup {"gone", "unlinkshm", "openshm", "leavesem"} => shmName' = k
    BY DEF NamesInv
  <2>0. dpc[i] \notin {"off", "gone"}
    BY <1>3 DEF OpenSem
  <2>1. k # i => dpc[k] \in {"off", "gone"} /\ dpc'[k] = dpc[k]
    <3>1. k # i => k < i \/ i < k
      OBVIOUS
    <3>2. dpc'[k] = dpc[k] \/ k = i
      BY <1>3 DEF OpenSem, IpcInv, TypeOK
    <3> QED
      BY <2>0, <3>1, <3>2 DEF IpcInv, NamesInv
  <2>2. \A j \in Daemon : j < i => dpc[j] = "gone"
    BY <1>3 DEF OpenSem, IpcInv, NamesInv
  <2>3. dpc'[i] \notin Early \cup {"gone"} => semName' = i
    BY <1>3 DEF OpenSem, IpcInv, TypeOK, NamesInv
  <2>4. dpc'[i] \notin Early \cup {"gone", "unlinkshm", "openshm", "leavesem"} => shmName' = i
    BY <1>3 DEF OpenSem, IpcInv, TypeOK
  <2>5. \A j \in Daemon : dpc[j] = "gone" /\ j # i => dpc'[j] = "gone"
    BY <1>3 DEF OpenSem, IpcInv, TypeOK
  <2>6. dpc[k] # "off" => \A j \in Daemon : j < k => dpc[j] = "gone"
    BY DEF IpcInv, NamesInv
  <2>8. CASE k # i
    BY <2>1, <2>5, <2>6, <2>0, <2>8 DEF Early
  <2>9. CASE k = i
    BY <2>2, <2>3, <2>4, <2>5, <2>9
  <2> QED
    BY <2>8, <2>9
<1>4. ASSUME NEW i \in Daemon, UnlinkShm(i) PROVE NamesInv'
  BY <1>4 DEF UnlinkShm, IpcInv, NamesInv, Early
<1>5. ASSUME NEW i \in Daemon, OpenShm(i) PROVE NamesInv'
  <2> SUFFICES ASSUME ~QuickRestart, NEW k \in Daemon PROVE
        /\ dpc'[k] # "off" => \A j \in Daemon : j < k => dpc'[j] = "gone"
        /\ dpc'[k] \notin Early \cup {"gone"} => semName' = k
        /\ dpc'[k] \notin Early \cup {"gone", "unlinkshm", "openshm", "leavesem"} => shmName' = k
    BY DEF NamesInv
  <2>0. dpc[i] \notin {"off", "gone"}
    BY <1>5 DEF OpenShm
  <2>1. k # i => dpc[k] \in {"off", "gone"} /\ dpc'[k] = dpc[k]
    <3>1. k # i => k < i \/ i < k
      OBVIOUS
    <3>2. dpc'[k] = dpc[k] \/ k = i
      BY <1>5 DEF OpenShm, IpcInv, TypeOK
    <3> QED
      BY <2>0, <3>1, <3>2 DEF IpcInv, NamesInv
  <2>2. \A j \in Daemon : j < i => dpc[j] = "gone"
    BY <1>5 DEF OpenShm, IpcInv, NamesInv
  <2>3. dpc'[i] \notin Early \cup {"gone"} => semName' = i
    BY <1>5 DEF OpenShm, IpcInv, NamesInv, Early
  <2>4. dpc'[i] \notin Early \cup {"gone", "unlinkshm", "openshm", "leavesem"} => shmName' = i
    BY <1>5 DEF OpenShm, IpcInv, TypeOK, NamesInv, Early
  <2>5. \A j \in Daemon : dpc[j] = "gone" /\ j # i => dpc'[j] = "gone"
    BY <1>5 DEF OpenShm, IpcInv, TypeOK
  <2>6. dpc[k] # "off" => \A j \in Daemon : j < k => dpc[j] = "gone"
    BY DEF IpcInv, NamesInv
  <2>8. CASE k # i
    BY <2>1, <2>5, <2>6, <2>0, <2>8 DEF Early
  <2>9. CASE k = i
    BY <2>2, <2>3, <2>4, <2>5, <2>9
  <2> QED
    BY <2>8, <2>9
<1>6. ASSUME NEW i \in Daemon, Truncate(i) PROVE NamesInv'
  BY <1>6 DEF Truncate, IpcInv, NamesInv, Early
<1>7. ASSUME NEW i \in Daemon, InitWait(i) PROVE NamesInv'
  BY <1>7 DEF InitWait, IpcInv, NamesInv, Early
<1>8. ASSUME NEW i \in Daemon, MarkSlotFree(i) PROVE NamesInv'
  BY <1>8 DEF MarkSlotFree, IpcInv, NamesInv, Early
<1>9. ASSUME NEW i \in Daemon, InitPost(i) PROVE NamesInv'
  BY <1>9 DEF InitPost, IpcInv, NamesInv, Early
<1>10. ASSUME NEW i \in Daemon, TryWait(i) PROVE NamesInv'
  BY <1>10 DEF TryWait, IpcInv, NamesInv, Early
<1>11. ASSUME NEW i \in Daemon, Look(i) PROVE NamesInv'
  BY <1>11 DEF Look, IpcInv, NamesInv, Early
<1>12. ASSUME NEW i \in Daemon, TakeCommand(i) PROVE NamesInv'
  BY <1>12 DEF TakeCommand, IpcInv, NamesInv, Early
<1>13. ASSUME NEW i \in Daemon, Post(i) PROVE NamesInv'
  BY <1>13 DEF Post, IpcInv, NamesInv, Early
<1>14. ASSUME NEW i \in Daemon, LeaveShm(i) PROVE NamesInv'
  BY <1>14 DEF LeaveShm, IpcInv, TypeOK, NamesInv, Early
<1>15. ASSUME NEW i \in Daemon, LeaveSem(i) PROVE NamesInv'
  BY <1>15 DEF LeaveSem, IpcInv, TypeOK, NamesInv, Early
<1>16. ASSUME NEW i \in Daemon, IdleExit(i) PROVE NamesInv'
  BY <1>16 DEF IdleExit, IpcInv, TypeOK, NamesInv, Early
<1>17. ASSUME NEW i \in Daemon, DaemonDies(i) PROVE NamesInv'
  BY <1>17 DEF DaemonDies, Alive, IpcInv, NamesInv, Alive
<1>18. ASSUME NEW c \in Client, OpenSemC(c) PROVE NamesInv'
  BY <1>18 DEF OpenSemC, IpcInv, NamesInv, Alive
<1>19. ASSUME NEW c \in Client, OpenShmC(c) PROVE NamesInv'
  BY <1>19 DEF OpenShmC, IpcInv, NamesInv
<1>20. ASSUME NEW c \in Client, Wait(c) PROVE NamesInv'
  BY <1>20 DEF Wait, IpcInv, NamesInv
<1>21. ASSUME NEW c \in Client, Compare(c) PROVE NamesInv'
  BY <1>21 DEF Compare, IpcInv, NamesInv
<1>22. ASSUME NEW c \in Client, Write(c) PROVE NamesInv'
  BY <1>22 DEF Write, IpcInv, NamesInv
<1>23. ASSUME NEW c \in Client, PostC(c) PROVE NamesInv'
  BY <1>23 DEF PostC, IpcInv, NamesInv
<1>24. ASSUME NEW c \in Client, ClientDies(c) PROVE NamesInv'
  BY <1>24 DEF ClientDies, IpcInv, NamesInv
<1> QED
  BY <1>1, <1>2, <1>3, <1>4, <1>5, <1>6, <1>7, <1>8, <1>9, <1>10, <1>11, <1>12,
     <1>13, <1>14, <1>15, <1>16, <1>17, <1>18, <1>19, <1>20, <1>21, <1>22, <1>23,
     <1>24 DEF Next, Serve, Submit

-----------------------------------------------------------------------------
(* The invariant.                                                          *)

\* Nothing is created and nobody has anything at first.
LEMMA IpcInit == Init => IpcInv
<1> SUFFICES ASSUME Init PROVE IpcInv
  OBVIOUS
<1> USE IpcAssumption
<1>1. TypeOK
  BY DEF Init, TypeOK
<1>2. SemaphoreIsBinary
  BY DEF Init, SemaphoreIsBinary, Holding, Locked, Critical
<1>3. CreationInv
  BY DEF Init, CreationInv, Daemon
<1>4. PageInv
  BY DEF Init, PageInv
<1>5. ClientInv
  BY DEF Init, ClientInv, Critical
<1>6. NamesInv
  BY DEF Init, NamesInv, Early
<1> QED
  BY <1>1, <1>2, <1>3, <1>4, <1>5, <1>6 DEF IpcInv

\* A step that changes nothing keeps the invariant.
LEMMA IpcStutter == IpcInv /\ UNCHANGED vars => IpcInv'
<1> SUFFICES ASSUME IpcInv, UNCHANGED vars PROVE IpcInv'
  OBVIOUS
<1> USE DEF vars, names, daemonVars, clientVars
<1>1. TypeOK'
  BY DEF IpcInv, TypeOK
<1>2. SemaphoreIsBinary'
  BY DEF IpcInv, SemaphoreIsBinary, Holding
<1>3. CreationInv'
  BY DEF IpcInv, CreationInv
<1>4. PageInv'
  BY DEF IpcInv, PageInv, Spoiled
<1>5. ClientInv'
  BY DEF IpcInv, ClientInv
<1>6. NamesInv'
  BY DEF IpcInv, NamesInv
<1> QED
  BY <1>1, <1>2, <1>3, <1>4, <1>5, <1>6 DEF IpcInv

\* The invariant holds for any number of clients and of runs of the daemon, with
\* or without deaths, and whenever the next daemon is started.
THEOREM IpcInvariance == Spec => []IpcInv
<1>1. IpcInv /\ Next => IpcInv'
  BY TypeStep, BinaryStep, CreationStep, PageStep, ClientStep, NamesStep DEF IpcInv
<1>2. IpcInv /\ [Next]_vars => IpcInv'
  BY <1>1, IpcStutter
<1> QED
  BY <1>2, IpcInit, PTL DEF Spec

\* The variables have their types.
THEOREM IpcTypes == Spec => []TypeOK
<1>1. IpcInv => TypeOK
  BY DEF IpcInv
<1> QED
  BY <1>1, IpcInvariance, PTL

\* Whoever dies where, the semaphore of a run never lets two into its page.
THEOREM SemaphoreExcludes == Spec => []SemaphoreIsBinary
<1>1. IpcInv => SemaphoreIsBinary
  BY DEF IpcInv
<1> QED
  BY <1>1, IpcInvariance, PTL

\* Where a daemon is started only when its predecessor has ended, the names lead
\* to the daemon that polls.
THEOREM NamesLeadToTheDaemon == Spec => [](~QuickRestart => DaemonIsReachable)
<1>1. IpcInv => (~QuickRestart => DaemonIsReachable)
  BY DEF IpcInv, NamesInv, DaemonIsReachable, Early
<1> QED
  BY <1>1, IpcInvariance, PTL

-----------------------------------------------------------------------------
(* The protocol implements the slot.                                       *)

box == [i \in Daemon |-> Box(i)]
taken == [i \in Daemon |-> Taken(i)]

\* A step that touches no page, takes nothing and opens nothing is a stutter.
LEMMA QuietStep ==
    ASSUME UNCHANGED <<slot, got, csem, cshm>>
    PROVE  UNCHANGED <<box, taken>>
<1>1. ASSUME NEW i \in Daemon PROVE Box(i)' = Box(i) /\ Taken(i)' = Taken(i)
  BY DEF Box, Taken, Spoiled
<1> QED
  BY <1>1 DEF box, taken

\* A step changes the slot of one run only, if it opens nothing and changes the
\* page and the commands taken of that run only.
LEMMA PageStepFrame ==
    ASSUME IpcInv, NEW i \in Daemon, UNCHANGED <<csem, cshm>>,
           \A j \in Daemon : j # i => slot'[j] = slot[j] /\ got'[j] = got[j]
    PROVE  /\ Spoiled(i)' = Spoiled(i)
           /\ box' = [box EXCEPT ![i] = Box(i)']
           /\ taken' = [taken EXCEPT ![i] = Taken(i)']
<1>1. \A j \in Daemon : Spoiled(j)' = Spoiled(j)
  BY DEF Spoiled
<1>2. ASSUME NEW j \in Daemon, j # i PROVE Box(j)' = Box(j) /\ Taken(j)' = Taken(j)
  BY <1>1, <1>2 DEF Box, Taken
<1> QED
  BY <1>1, <1>2 DEF box, taken

\* The page of a run that becomes ready holds no command, before and after.
LEMMA PreparingStutters ==
    ASSUME IpcInv, NEW i \in Daemon, Truncate(i) \/ MarkSlotFree(i)
    PROVE  UNCHANGED <<box, taken>>
<1>1. /\ UNCHANGED <<csem, cshm, got>> /\ slot'[i] \in {"zero", "free"}
      /\ \A j \in Daemon : j # i => slot'[j] = slot[j]
  BY DEF Truncate, MarkSlotFree, clientVars, IpcInv, TypeOK
<1>2. Spoiled(i) \/ slot[i] \in {"none", "zero"}
  BY DEF Truncate, MarkSlotFree, IpcInv, CreationInv, PageInv
<1>3. Spoiled(i)' = Spoiled(i) /\ Taken(i)' = Taken(i) /\ Box(i)' = Box(i)
  BY <1>1, <1>2, PageStepFrame, IpcAssumption DEF Box, Taken, Spoiled
<1> QED
  BY <1>1, <1>3, PageStepFrame DEF box, taken

\* The daemon that copies a message takes the command from the slot.
LEMMA TakeCommandTakes ==
    ASSUME IpcInv, NEW i \in Daemon, TakeCommand(i)
    PROVE  Slot!Take(i) \/ UNCHANGED <<box, taken>>
<1>1. /\ UNCHANGED <<csem, cshm>> /\ slot'[i] = "free" /\ got'[i] = got[i] \cup {slot[i]}
      /\ \A j \in Daemon : j # i => slot'[j] = slot[j] /\ got'[j] = got[j]
  BY DEF TakeCommand, clientVars, IpcInv, TypeOK
<1>2. slot[i] \in Client
  BY DEF TakeCommand, IpcInv, PageInv
<1>3. /\ Spoiled(i)' = Spoiled(i)
      /\ box' = [box EXCEPT ![i] = Box(i)'] /\ taken' = [taken EXCEPT ![i] = Taken(i)']
  BY <1>1, PageStepFrame
<1>4. CASE Spoiled(i)
  BY <1>3, <1>4 DEF Box, Taken, box, taken
<1>5. CASE ~Spoiled(i)
  <2>1. Box(i) = slot[i] /\ Taken(i) = got[i]
    BY <1>2, <1>5 DEF Box, Taken
  <2>2. Box(i)' = "empty" /\ Taken(i)' = Taken(i) \cup {Box(i)}
    BY <1>1, <1>3, <1>5, <2>1, IpcAssumption DEF Box, Taken
  <2>3. box[i] = Box(i) /\ taken[i] = Taken(i)
    BY DEF box, taken
  <2>4. /\ box[i] \in Client
        /\ taken' = [taken EXCEPT ![i] = taken[i] \cup {box[i]}]
        /\ box' = [box EXCEPT ![i] = "empty"]
    BY <1>2, <1>3, <2>1, <2>2, <2>3
  <2> QED
    BY <2>4 DEF Slot!Take, box, taken
<1> QED
  BY <1>4, <1>5

\* The client that found the slot free and writes puts its command there.
LEMMA WritePuts ==
    ASSUME IpcInv, NEW c \in Client, Write(c)
    PROVE  (\E i \in Daemon : Slot!Put(i, c)) \/ UNCHANGED <<box, taken>>
<1>0. cshm[c] \in Daemon
  BY DEF Write, IpcInv, TypeOK, ClientInv, Critical, Daemon
<1> PICK i \in Daemon : i = cshm[c]
  BY <1>0
<1>1. /\ UNCHANGED <<csem, cshm, got>> /\ slot'[i] = c
      /\ \A j \in Daemon : j # i => slot'[j] = slot[j]
  BY DEF Write, daemonVars, IpcInv, TypeOK
<1>2. /\ Spoiled(i)' = Spoiled(i) /\ Taken(i)' = Taken(i)
      /\ box' = [box EXCEPT ![i] = Box(i)'] /\ taken' = [taken EXCEPT ![i] = Taken(i)']
  BY <1>1, PageStepFrame DEF Taken
<1>3. taken' = taken
  BY <1>2 DEF taken
<1>4. CASE Spoiled(i)
  BY <1>2, <1>3, <1>4 DEF Box, box
<1>5. CASE ~Spoiled(i)
  <2>1. slot[i] = "free"
    BY <1>5 DEF Write, IpcInv, PageInv
  <2>2. box[i] = "empty" /\ Box(i)' = c
    BY <1>1, <1>2, <1>5, <2>1, IpcAssumption DEF Box, box
  <2>3. ASSUME NEW j \in Daemon PROVE box[j] # c /\ c \notin taken[j]
    <3>1. slot[j] # c /\ c \notin got[j]
      BY DEF Write, IpcInv, ClientInv
    <3> QED
      BY <3>1, IpcAssumption DEF box, taken, Box, Taken
  <2>4. Slot!Put(i, c)
    BY <1>2, <1>3, <2>2, <2>3 DEF Slot!Put, box, taken
  <2> QED
    BY <2>4
<1> QED
  BY <1>4, <1>5

\* The client that opens the semaphore has no page yet.
LEMMA OpenSemStutters ==
    ASSUME IpcInv, NEW c \in Client, OpenSemC(c)
    PROVE  UNCHANGED <<box, taken>>
<1>1. /\ UNCHANGED <<slot, got, cshm>> /\ cshm[c] = 0
      /\ \A d \in Client : d # c => csem'[d] = csem[d]
  BY DEF OpenSemC, daemonVars, IpcInv, TypeOK, ClientInv
<1>2. ASSUME NEW i \in Daemon PROVE Spoiled(i)' = Spoiled(i)
  <2>1. i # 0
    BY DEF Daemon
  <2> QED
    BY <1>1, <2>1 DEF Spoiled
<1>3. ASSUME NEW i \in Daemon PROVE Box(i)' = Box(i) /\ Taken(i)' = Taken(i)
  BY <1>1, <1>2 DEF Box, Taken
<1> QED
  BY <1>3 DEF box, taken

\* The client that opens the page spoils the slot, if its semaphore is of
\* another run.
LEMMA OpenShmSpoils ==
    ASSUME IpcInv, NEW c \in Client, OpenShmC(c)
    PROVE  (\E i \in Daemon : Slot!Spoil(i)) \/ UNCHANGED <<box, taken>>
<1>1. /\ UNCHANGED <<slot, got, csem>> /\ cshm[c] = 0 /\ cshm'[c] = shmName
      /\ \A d \in Client : d # c => cshm'[d] = cshm[d]
  BY DEF OpenShmC, daemonVars, IpcInv, TypeOK, ClientInv
<1>2. ASSUME NEW i \in Daemon, i # shmName \/ csem[c] = shmName
      PROVE  Box(i)' = Box(i) /\ Taken(i)' = Taken(i)
  <2>1. i # 0
    BY DEF Daemon
  <2>2. Spoiled(i)' = Spoiled(i)
    BY <1>1, <1>2, <2>1 DEF Spoiled
  <2> QED
    BY <1>1, <2>2 DEF Box, Taken
<1>3. CASE shmName = csem[c] \/ shmName \notin Daemon
  BY <1>2, <1>3 DEF box, taken
<1>4. CASE shmName # csem[c] /\ shmName \in Daemon
  <2> PICK i \in Daemon : i = shmName
    BY <1>4
  <2>1. Spoiled(i)'
    BY <1>1, <1>4 DEF Spoiled
  <2>2. Box(i)' = "spoiled" /\ Taken(i)' = {}
    BY <2>1 DEF Box, Taken
  <2>3. /\ box' = [box EXCEPT ![i] = "spoiled"]
        /\ taken' = [taken EXCEPT ![i] = {}]
    BY <1>2, <2>2 DEF box, taken
  <2> QED
    BY <2>3 DEF Slot!Spoil, box, taken
<1> QED
  BY <1>3, <1>4

\* Every step of the protocol is a step of the slot or a stutter.
LEMMA SlotStep ==
    ASSUME IpcInv, [Next]_vars
    PROVE  [Slot!Next]_(Slot!slotVars)
<1>1. Slot!slotVars = <<box, taken>>
  BY DEF Slot!slotVars, box, taken
<1>2. SUFFICES Slot!Next \/ UNCHANGED <<box, taken>>
  BY DEF Slot!slotVars, box, taken
<1>3. CASE UNCHANGED vars
  BY <1>3, QuietStep DEF vars, daemonVars, clientVars
<1>4. ASSUME NEW i \in Daemon, Start(i) \/ Serve(i) \/ InitWait(i) \/ TryWait(i)
                                 \/ IdleExit(i) \/ DaemonDies(i)
      PROVE  Slot!Next \/ UNCHANGED <<box, taken>>
  <2>1. CASE Truncate(i) \/ MarkSlotFree(i)
    BY <2>1, PreparingStutters
  <2>2. CASE TakeCommand(i)
    BY <2>2, TakeCommandTakes DEF Slot!Next
  <2>3. CASE \/ Start(i) \/ UnlinkSem(i) \/ OpenSem(i) \/ UnlinkShm(i) \/ OpenShm(i)
             \/ InitWait(i) \/ InitPost(i) \/ TryWait(i) \/ Look(i) \/ Post(i)
             \/ LeaveShm(i) \/ LeaveSem(i) \/ IdleExit(i) \/ DaemonDies(i)
    <3>1. UNCHANGED <<slot, got, csem, cshm>>
      BY <2>3 DEF Start, UnlinkSem, OpenSem, UnlinkShm, OpenShm, InitWait, InitPost,
                  TryWait, Look, Post, LeaveShm, LeaveSem, IdleExit, DaemonDies, clientVars
    <3> QED
      BY <3>1, QuietStep
  <2> QED
    BY <1>4, <2>1, <2>2, <2>3 DEF Serve
<1>5. ASSUME NEW c \in Client, OpenSemC(c) \/ Submit(c) \/ Wait(c) \/ ClientDies(c)
      PROVE  Slot!Next \/ UNCHANGED <<box, taken>>
  <2>1. CASE OpenSemC(c)
    BY <2>1, OpenSemStutters
  <2>2. CASE OpenShmC(c)
    BY <2>2, OpenShmSpoils DEF Slot!Next
  <2>3. CASE Write(c)
    BY <2>3, WritePuts DEF Slot!Next
  <2>4. CASE Compare(c) \/ PostC(c) \/ Wait(c) \/ ClientDies(c)
    <3>1. UNCHANGED <<slot, got, csem, cshm>>
      BY <2>4 DEF Compare, PostC, Wait, ClientDies, daemonVars
    <3> QED
      BY <3>1, QuietStep
  <2> QED
    BY <1>5, <2>1, <2>2, <2>3, <2>4 DEF Submit
<1> QED
  BY <1>3, <1>4, <1>5 DEF Next

\* Every step of the protocol is one of the slot of some run of the daemon or
\* changes none: what CedrRuntime and DagRuntime take for granted of the command
\* they read.
THEOREM ProtocolImplementsSlot == Spec => SlotSpec
<1>1. Init => Slot!Init
  <2> SUFFICES ASSUME Init PROVE Slot!Init
    OBVIOUS
  <2>1. ASSUME NEW i \in Daemon PROVE Box(i) = "empty" /\ Taken(i) = {}
    BY <2>1, IpcAssumption DEF Init, Box, Taken, Spoiled, Daemon
  <2> QED
    BY <2>1 DEF Slot!Init
<1>2. IpcInv /\ [Next]_vars => [Slot!Next]_(Slot!slotVars)
  BY SlotStep
<1> QED
  BY <1>1, <1>2, IpcInvariance, PTL DEF Spec, SlotSpec, Slot!Spec

=============================================================================
