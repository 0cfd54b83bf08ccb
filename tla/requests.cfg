SPECIFICATION Spec
CONSTANTS
    Node = {n1, n2}
    Task = {t1}
    None = None
    Features = {"cancel", "enable", "update"}
    Delays = {1}
    Grace = 0
    DefaultRetries = 2
    MaxTime = 2
    MaxExec = 2
    MaxFaults = 1
    RetryChoices = {2}
    MaxEdits = 1
SYMMETRY Symmetry
INVARIANT NoOverlap
INVARIANT RetriesAreRecorded
PROPERTY CancelSticks
CHECK_DEADLOCK FALSE
