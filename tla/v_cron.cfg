SPECIFICATION CronSpec
CONSTANT Jobs <- AllJobs
CONSTANT FirstYear = 2023
CONSTANT LastYear = 2035
INVARIANT NextIsLeast
CHECK_DEADLOCK FALSE
