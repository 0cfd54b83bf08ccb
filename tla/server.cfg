SPECIFICATION FairSpec
CONSTANTS
    Conn = {1, 2, 3}
    None = None
    MaxConns = 2
    MaxPending = 1
    Threads = 1
    MaxInputs = 2
INVARIANT NothingLeaks
INVARIANT RefusedIsNotRun
PROPERTY FramesAreAnswered
PROPERTY StopEnds
CHECK_DEADLOCK FALSE
