--------------------------------- MODULE Metrics ---------------------------------
(***************************************************************************)
(* The run-time metrics (src/metrics/metrics.cpp) and the alerts computed  *)
(* from them (alert_rules.cpp): executions observe their duration and      *)
(* count their outcome without a common lock, while a scrape takes its     *)
(* snapshot counter by counter.                                            *)
(*                                                                         *)
(* Durations stand for the schedule delays too, and the task counters for  *)
(* the RPC and lock counters: they are kept and judged by the same code.   *)
(* The counters are atomics that only this code changes; samples_mutex_ is *)
(* held for one step.                                                      *)
(***************************************************************************)
EXTENDS Integers, Sequences, FiniteSets, TLC

CONSTANTS
    Observer,           \* threads that end an execution
    Durations,          \* what they observe
    Ended,             \* how many executions ended before
    MaxObservations,    \* bound: executions that end
    MaxScrapes,         \* bound: snapshots taken
    kSampleWindowSize,
    \* AlertRuleConfig
    min_task_executions, task_failure_rate_percent, task_duration_p99_ms

VARIABLES
    obs,                \* the threads
    max_task_duration_ms,
    samples, samples_total,
    task_success_total, task_failure_total,
    scrape,             \* the snapshot being taken, and its verdict
    durations,          \* history: what was sampled, in order
    observed, scrapes   \* counted against the bounds

metricsVars == <<obs, max_task_duration_ms, samples, samples_total, task_success_total,
                 task_failure_total, scrape, durations, observed, scrapes>>

-----------------------------------------------------------------------------
(* observeTaskDuration, and the outcome *)

\* updateMax begins: the load.
Observe(o) ==
    /\ obs[o].at = "idle" /\ observed < MaxObservations
    /\ observed' = observed + 1
    /\ \E d \in Durations : obs' = [obs EXCEPT ![o] = [at |-> "cas", d |-> d, current |-> max_task_duration_ms]]
    /\ UNCHANGED <<max_task_duration_ms, samples, samples_total, task_success_total, task_failure_total,
                   scrape, durations, scrapes>>

\* Mutant: the maximum is stored without a comparison.
updateMax_Stores(o) ==
    /\ obs[o].at = "cas"
    /\ obs' = [obs EXCEPT ![o].at = "sample"]
    /\ max_task_duration_ms' = IF obs[o].d > obs[o].current THEN obs[o].d ELSE max_task_duration_ms
    /\ UNCHANGED <<samples, samples_total, task_success_total, task_failure_total, scrape, durations,
                   observed, scrapes>>

\* One round of its loop: compare_exchange_weak may fail for no reason, and then loads again.
updateMax(o) ==
    /\ obs[o].at = "cas"
    /\ \/ obs[o].d <= obs[o].current /\ obs' = [obs EXCEPT ![o].at = "sample"] /\ UNCHANGED max_task_duration_ms
       \/ /\ obs[o].d > obs[o].current /\ obs[o].current = max_task_duration_ms
          /\ max_task_duration_ms' = obs[o].d
          /\ obs' = [obs EXCEPT ![o].at = "sample"]
       \/ /\ obs[o].d > obs[o].current
          /\ obs' = [obs EXCEPT ![o].current = max_task_duration_ms]
          /\ UNCHANGED max_task_duration_ms
    /\ UNCHANGED <<samples, samples_total, task_success_total, task_failure_total, scrape, durations,
                   observed, scrapes>>

Sample(o) ==
    /\ obs[o].at = "sample"
    /\ samples' = [samples EXCEPT ![samples_total % kSampleWindowSize] = obs[o].d]
    /\ samples_total' = samples_total + 1
    /\ durations' = Append(durations, obs[o].d)
    /\ obs' = [obs EXCEPT ![o].at = "count"]
    /\ UNCHANGED <<max_task_duration_ms, task_success_total, task_failure_total, scrape, observed, scrapes>>

Count(o) ==
    /\ obs[o].at = "count"
    /\ \/ task_success_total' = task_success_total + 1 /\ UNCHANGED task_failure_total
       \/ task_failure_total' = task_failure_total + 1 /\ UNCHANGED task_success_total
    /\ obs' = [obs EXCEPT ![o].at = "idle"]
    /\ UNCHANGED <<max_task_duration_ms, samples, samples_total, scrape, durations, observed, scrapes>>

-----------------------------------------------------------------------------
(* snapshot and evaluate *)

\* The quantile in percent; rank is the ceiling of quantile * size.
percentile(values, quantile) ==
    LET n     == Len(values)
        rank  == (quantile * n + 99) \div 100
        index == IF rank <= 1 THEN 0 ELSE rank - 1
    IN  IF n = 0 THEN 0
        ELSE SortSeq(values, <)[(IF index >= n THEN n - 1 ELSE index) + 1]

percent(part, all) == IF all = 0 THEN 0 ELSE (part * 100) \div all

addRatioAlert(all, part) ==
    all >= min_task_executions /\ percent(part, all) >= task_failure_rate_percent

addLatencyAlert(count, ms) ==
    count # 0 /\ task_duration_p99_ms # 0 /\ ms >= task_duration_p99_ms

\* A snapshot: first the successes...
LoadSuccesses ==
    /\ scrape.at = "idle" /\ scrapes < MaxScrapes
    /\ scrapes' = scrapes + 1
    /\ scrape' = [at |-> "failures", successes |-> task_success_total,
                  began |-> [successes |-> task_success_total, failures |-> task_failure_total]]
    /\ UNCHANGED <<obs, max_task_duration_ms, samples, samples_total, task_success_total,
                   task_failure_total, durations, observed>>

\* Mutant: the failures are loaded first.
LoadFailures_First ==
    /\ scrape.at = "failures"
    /\ scrape' = [at |-> "samples", successes |-> task_success_total, failures |-> scrape.began.failures, began |-> scrape.began]
    /\ UNCHANGED <<obs, max_task_duration_ms, samples, samples_total, task_success_total,
                   task_failure_total, durations, observed, scrapes>>

\* ... then the failures...
LoadFailures ==
    /\ scrape.at = "failures"
    /\ scrape' = [at |-> "samples", successes |-> scrape.successes, failures |-> task_failure_total, began |-> scrape.began]
    /\ UNCHANGED <<obs, max_task_duration_ms, samples, samples_total, task_success_total,
                   task_failure_total, durations, observed, scrapes>>

\* ... and the samples; evaluate works on the copy.
CopySamples ==
    /\ scrape.at = "samples"
    /\ \E n \in {IF samples_total < kSampleWindowSize THEN samples_total ELSE kSampleWindowSize} :
       \E values \in {[i \in 1..n |-> samples[i - 1]]} :
       \E p99 \in {percentile(values, 99)} :
        scrape' = [at |-> "idle", began |-> scrape.began, seen |-> Len(durations),
                   p95 |-> percentile(values, 95), p99 |-> p99,
                   failing |-> addRatioAlert(scrape.successes + scrape.failures, scrape.failures),
                   slow |-> addLatencyAlert(samples_total, p99)]
    /\ UNCHANGED <<obs, max_task_duration_ms, samples, samples_total, task_success_total,
                   task_failure_total, durations, observed, scrapes>>

-----------------------------------------------------------------------------

\* Some executions have ended; the durations of the last were all different, half of them failed.
Earlier(n) == [i \in 1..n |-> (37 * i) % kSampleWindowSize]

MetricsInit ==
    \E n \in Ended :
        /\ durations = Earlier(n) /\ samples_total = n
        /\ samples = [i \in 0..(kSampleWindowSize - 1) |->
                        IF {k \in 1..n : (k - 1) % kSampleWindowSize = i} = {} THEN 0
                        ELSE (37 * (i + 1)) % kSampleWindowSize]
        /\ max_task_duration_ms = (CHOOSE m \in {0} \cup {durations[i] : i \in 1..n} : \A i \in 1..n : durations[i] <= m)
        /\ task_failure_total = n \div 2 /\ task_success_total = n - n \div 2
        /\ obs = [o \in Observer |-> [at |-> "idle", d |-> 0, current |-> 0]]
        /\ scrape = [at |-> "idle"] /\ observed = 0 /\ scrapes = 0

MetricsNext ==
    \/ \E o \in Observer : Observe(o) \/ updateMax(o) \/ Sample(o) \/ Count(o)
    \/ LoadSuccesses \/ LoadFailures \/ CopySamples

-----------------------------------------------------------------------------

Scraped == "p99" \in DOMAIN scrape

\* The durations a scrape saw: the last kSampleWindowSize of them.
LastSeen ==
    LET first == IF scrape.seen > kSampleWindowSize THEN scrape.seen - kSampleWindowSize + 1 ELSE 1
    IN  SubSeq(durations, first, scrape.seen)

\* A nearest-rank percentile: at least q% of the values are at most v, and fewer are below it.
IsPercentile(v, values, q) ==
    IF values = <<>> THEN v = 0
    ELSE /\ 100 * Cardinality({i \in 1..Len(values) : values[i] <= v}) >= q * Len(values)
         /\ 100 * Cardinality({i \in 1..Len(values) : values[i] < v}) < q * Len(values)

\* What is reported is true.  p95 and p99 are the nearest-rank percentiles of the last
\* kSampleWindowSize durations at every fill of the window, and the latency alert fires when more
\* than 1% of them reach the threshold; and when no execution is being observed, the maximum is
\* the longest duration, however the updates raced.
ReportIsTrue ==
    /\ Scraped =>
        /\ IsPercentile(scrape.p95, LastSeen, 95)
        /\ IsPercentile(scrape.p99, LastSeen, 99)
        /\ scrape.slow <=> 100 * Cardinality({i \in 1..Len(LastSeen) : LastSeen[i] >= task_duration_p99_ms}) > Len(LastSeen)
    /\ (\A o \in Observer : obs[o].at = "idle") =>
        /\ \A i \in 1..Len(durations) : durations[i] <= max_task_duration_ms
        /\ durations # <<>> => \E i \in 1..Len(durations) : durations[i] = max_task_duration_ms

\* A failure rate at its threshold when a scrape begins is reported by it, although executions end
\* between its loads: the failures are loaded after the successes.
FailuresAreNotMissed ==
    Scraped =>
        LET all == scrape.began.successes + scrape.began.failures
        IN  all >= min_task_executions /\ 100 * scrape.began.failures >= task_failure_rate_percent * all
                => scrape.failing
=============================================================================
