SPECIFICATION FairSpec
CONSTANTS
    Process = {p1, p2}
    Service = {worker, handler}
    Features = {"crash", "redis", "lapse"}
    MaxFaults = 1
INVARIANT LeftIsForgotten
PROPERTY RunningIsFound
PROPERTY GoneIsNotFound
CHECK_DEADLOCK FALSE
