SPECIFICATION FairSpec

CONSTANTS
    sub = sub
    kill = kill
    Client <- OneOfEach
    Kills <- KillOnly
    Runs = 2
    ExitWhenIdle = TRUE
    QuickRestart = FALSE
    Dying = TRUE

INVARIANTS
    IpcInv
    SemaphoreIsBinary
    DaemonIsReachable

PROPERTIES
    SlotSpec
    SubmissionsEnd
    CommandsAreRead

\* When all clients are done and the daemon is gone nothing moves any more.
CHECK_DEADLOCK FALSE
