-------------------------------- MODULE MCUnits --------------------------------
(* The components that share no state with the others, checked side by side:  *)
(* a behaviour is one of a single unit, and the others stay where they start. *)
EXTENDS MCCron, MCCodec, RedisClient, Metrics, Console

VARIABLE unit       \* the component that runs

unitsVars == <<unit, cronVars, sample, redisVars, metricsVars, consoleVars>>

UnitsInit ==
    /\ unit \in {"cron", "codec", "redis", "metrics", "console"}
    /\ CronInit /\ (unit # "cron" => job = CHOOSE j \in Jobs : TRUE)
    /\ MetricsInit /\ (unit # "metrics" => samples_total = 0)
    /\ CodecInit /\ RedisInit /\ ConsoleInit

CronUnit    == unit = "cron" /\ CronNext /\ UNCHANGED <<unit, sample, redisVars, metricsVars, consoleVars>>
CodecUnit   == unit = "codec" /\ CodecNext /\ UNCHANGED <<unit, cronVars, redisVars, metricsVars, consoleVars>>
RedisUnit   == unit = "redis" /\ RedisNext /\ UNCHANGED <<unit, cronVars, sample, metricsVars, consoleVars>>
MetricsUnit == unit = "metrics" /\ MetricsNext /\ UNCHANGED <<unit, cronVars, sample, redisVars, consoleVars>>
ConsoleUnit == unit = "console" /\ ConsoleNext /\ UNCHANGED <<unit, cronVars, sample, redisVars, metricsVars>>

UnitsNext == CronUnit \/ CodecUnit \/ RedisUnit \/ MetricsUnit \/ ConsoleUnit

\* A search is a loop of the thread that calls nextExecution: it takes its steps.
UnitsSpec == UnitsInit /\ [][UnitsNext]_unitsVars /\ WF_unitsVars(CronUnit)
=============================================================================
