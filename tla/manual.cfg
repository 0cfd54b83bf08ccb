SPECIFICATION FairSpec
CONSTANTS
    Node = {n1}
    Task = {t1}
    None = None
    Features = {"run_now", "delete", "shutdown", "skip", "cron_ends", "no_worker"}
    Delays = {1}
    Grace = 0
    DefaultRetries = 2
    MaxTime = 2
    MaxExec = 2
    MaxFaults = 1
    RetryChoices = {2}
    MaxEdits = 1
INVARIANT RunningRowsHaveAWorker
INVARIANT CleanShutdown
PROPERTY LifecycleHolds
PROPERTY StopCompletes
CHECK_DEADLOCK FALSE
