SPECIFICATION Spec

CONSTANTS
    sub = sub
    kill = kill
    Client <- OneOfEach
    Kills <- KillOnly
    Runs = 2
    ExitWhenIdle = TRUE
    QuickRestart = TRUE
    Dying = FALSE

INVARIANT DaemonIsReachable

\* When all clients are done and the daemon is gone nothing moves any more.
CHECK_DEADLOCK FALSE
