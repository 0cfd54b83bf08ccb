SPECIFICATION Spec
CONSTANTS
    Node = {n1, n2}
    Task = {t1}
    None = None
    Features = {"lapse", "crash", "db", "redis"}
    Delays = {1}
    Grace = 0
    DefaultRetries = 2
    MaxTime = 1
    MaxExec = 2
    MaxFaults = 1
    RetryChoices = {2}
    MaxEdits = 1
SYMMETRY Symmetry
INVARIANT SlotsAreNotRepeated
INVARIANT HolderInv
INVARIANT NoLeakedLease
PROPERTY CleanupIsOwn
CHECK_DEADLOCK FALSE
