SPECIFICATION FairSpec
CONSTANTS
    Caller = {c1, c2}
    Task = {1, 2, 3}
    Thread = {w1, w2, w3, w4}
    None = None
    InitThreads = 1
    MaxThreads = 3
    Backlog = 0
    MaxPending = 2
    MaxFaults = 1
INVARIANT ThreadsAccounted
INVARIANT StopDrains
PROPERTY AcceptedRuns
PROPERTY StopEnds
CHECK_DEADLOCK FALSE
