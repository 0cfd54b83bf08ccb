SPECIFICATION UnitsSpec
CONSTANTS
    Jobs <- PlainJobs
    FirstYear = 2023
    LastYear = 2035
    Message <- Protocol
    Client = {r1, r2}
    Slots = 1
    MaxLocks = 2
    MaxDrops = 2
    Free = Free
    Observer = {o1, o2}
    Durations = {40, 150}
    Ended = {0, 20, 101}
    MaxObservations = 3
    MaxScrapes = 1
    kSampleWindowSize = 101
    min_task_executions = 2
    task_failure_rate_percent = 50
    task_duration_p99_ms = 150
    MaxConns = 2
    MaxRequests = 4
    Totals = {2}
INVARIANT NextIsLeast
 
INVARIANT WhatIsSentArrives
INVARIANT CopiesAreWhole
INVARIANT MergeIsConcatenation
INVARIANT HeldIsOwned
INVARIANT ReplyIsOwn
INVARIANT ReportIsTrue
 
INVARIANT FramesAreWhole
INVARIANT PagesAgree
CHECK_DEADLOCK FALSE
