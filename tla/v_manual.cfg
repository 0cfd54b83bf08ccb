SPECIFICATION Spec
CONSTANTS
    Node = {n1, n2}
    Task = {t1}
    None = None
    Features = {"run_now"}
    Delays = {1}
    Grace = 0
    DefaultRetries = 2
    MaxTime = 1
    MaxExec = 3
    MaxFaults = 1
    RetryChoices = {2}
    MaxEdits = 1
SYMMETRY Symmetry
INVARIANT SlotsAreNotRepeated
CHECK_DEADLOCK FALSE
