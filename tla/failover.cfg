SPECIFICATION FairSpec
CONSTANTS
    Node = {n1, n2}
    Task = {t1}
    None = None
    Features = {"crash", "db"}
    Delays = {1}
    Grace = 0
    DefaultRetries = 2
    MaxTime = 2
    MaxExec = 3
    MaxFaults = 1
    RetryChoices = {2}
    MaxEdits = 1
INVARIANT RetryBudget
PROPERTY RecoveryTakesOnlyOrphans
PROPERTY RunningEnds
PROPERTY DueIsServed
CHECK_DEADLOCK FALSE
