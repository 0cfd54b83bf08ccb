SPECIFICATION Spec
CONSTANTS
    Node = {n1, n2}
    Task = {t1}
    None = None
    Features = {"shutdown"}
    Delays = {1}
    Grace = 0
    DefaultRetries = 2
    MaxTime = 1
    MaxExec = 2
    MaxFaults = 1
    RetryChoices = {2}
    MaxEdits = 1
SYMMETRY Symmetry
PROPERTY SuccessAdvances
CHECK_DEADLOCK FALSE
