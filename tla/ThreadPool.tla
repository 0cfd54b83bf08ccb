------------------------------ MODULE ThreadPool ------------------------------
(***************************************************************************)
(* DynamicThreadPool (src/common/thread_pool.cpp), which runs the RPC      *)
(* handlers of a server and the executions of a scheduler.  Callers        *)
(* enqueue tasks and may stop the pool; worker threads wait, run tasks,    *)
(* and leave when there are too many of them or the pool stops.            *)
(*                                                                         *)
(* A step is one critical section of mutex_, or a task, or the end of a    *)
(* thread.  The idle timeout may pass at any time a thread waits.          *)
(***************************************************************************)
EXTENDS Integers, Sequences, FiniteSets, FiniteSetsExt

CONSTANTS
    Caller,         \* threads that use the pool
    Task,           \* the tasks they enqueue, each once, numbered in that order
    Thread,         \* bound: worker threads that have not been joined
    None,
    InitThreads, MaxThreads, Backlog,   \* init_threads_, max_threads_, backlog_threshold_
    MaxPending,     \* max_pending_tasks_; 0 is no limit
    MaxFaults       \* bound: threads the system refuses to start

ASSUME PoolAssumption ==
    /\ InitThreads \in Nat \ {0} /\ MaxThreads \in Nat /\ InitThreads <= MaxThreads
    /\ Backlog \in Nat /\ MaxPending \in Nat /\ MaxFaults \in Nat
    /\ IsFiniteSet(Thread) /\ Cardinality(Thread) >= InitThreads
    /\ Task \subseteq Nat /\ None \notin Caller

VARIABLES
    tasks,          \* the queue
    fate,           \* task: new, refused, queued, running or ran
    thread,         \* worker thread: what it does, and the task it runs
    idle_count, current_threads, stopping, stopped,
    lifecycle,      \* the caller that holds lifecycle_mutex_
    caller,         \* caller: idle, adjusting (in enqueue), joining (in stop) or back (stop returned)
    faults          \* threads that could not be started

vars == <<tasks, fate, thread, idle_count, current_threads, stopping, stopped, lifecycle, caller, faults>>

\* absent: not started or joined; top: about to take mutex_; leaving: out of the loop, flag not yet set.
ThreadState == [pc : {"absent", "top", "wait", "run", "leaving", "finished"}, task : Task \cup {None}]
In(pc)      == [pc |-> pc, task |-> None]
At(pc)      == {w \in Thread : thread[w].pc = pc}
Working     == At("top") \cup At("wait") \cup At("run")

Init ==
    /\ tasks = <<>> /\ fate = [t \in Task |-> "new"]
    /\ \E W \in kSubset(InitThreads, Thread) : thread = [w \in Thread |-> In(IF w \in W THEN "top" ELSE "absent")]
    /\ idle_count = 0 /\ current_threads = InitThreads
    /\ stopping = FALSE /\ stopped = FALSE /\ lifecycle = None
    /\ caller = [c \in Caller |-> "idle"] /\ faults = 0

-----------------------------------------------------------------------------
(* The callers *)

Refuses == stopping \/ (MaxPending > 0 /\ Len(tasks) >= MaxPending)

enqueue(c, t) ==
    /\ caller[c] \in {"idle", "back"}
    /\ fate[t] = "new" /\ \A u \in Task : u < t => fate[u] # "new"
    /\ \/ Refuses /\ fate' = [fate EXCEPT ![t] = "refused"] /\ UNCHANGED <<tasks, caller>>
       \/ /\ ~Refuses
          /\ fate' = [fate EXCEPT ![t] = "queued"]
          /\ tasks' = Append(tasks, t)
          /\ caller' = [caller EXCEPT ![c] = "adjusting"]
    /\ UNCHANGED <<thread, idle_count, current_threads, stopping, stopped, lifecycle, faults>>

\* How many threads to add: at most two at a time.
Wanted ==
    IF Len(tasks) > Backlog /\ current_threads < MaxThreads
    THEN Min({MaxThreads, current_threads + 2}) - current_threads
    ELSE 0

\* Finished threads are taken out of workers_ and joined, which is immediate; threads are added
\* until one cannot be started.
adjustPoolSize(c) ==
    /\ caller[c] = "adjusting"
    /\ caller' = [caller EXCEPT ![c] = "idle"]
    /\ \/ stopping /\ UNCHANGED <<thread, current_threads, faults>>
       \/ /\ ~stopping
          /\ LET free == At("absent") \cup At("finished")
             IN  \E W \in SUBSET free :
                   /\ \/ Cardinality(W) = Wanted /\ UNCHANGED faults
                      \/ Cardinality(W) < Wanted /\ faults < MaxFaults /\ faults' = faults + 1
                   /\ thread' = [w \in Thread |-> IF w \in W THEN In("top")
                                                  ELSE IF w \in free THEN In("absent") ELSE thread[w]]
                   /\ current_threads' = current_threads + Cardinality(W)
    /\ UNCHANGED <<tasks, fate, idle_count, stopping, stopped, lifecycle>>

\* Mutant: a second caller returns at once because the first one is already stopping the pool.
stop_ReturnsEarly(c) ==
    /\ caller[c] = "idle"
    /\ IF stopping
       THEN caller' = [caller EXCEPT ![c] = "back"] /\ UNCHANGED <<stopping, lifecycle>>
       ELSE stopping' = TRUE /\ lifecycle' = c /\ caller' = [caller EXCEPT ![c] = "joining"]
    /\ UNCHANGED <<tasks, fate, thread, idle_count, current_threads, stopped, faults>>

stop(c) ==
    /\ caller[c] = "idle" /\ lifecycle = None
    /\ IF stopped
       THEN caller' = [caller EXCEPT ![c] = "back"] /\ UNCHANGED <<stopping, lifecycle>>
       ELSE stopping' = TRUE /\ lifecycle' = c /\ caller' = [caller EXCEPT ![c] = "joining"]
    /\ UNCHANGED <<tasks, fate, thread, idle_count, current_threads, stopped, faults>>

\* Every thread in workers_ has been joined.
StopReturns(c) ==
    /\ caller[c] = "joining" /\ \A w \in Thread : thread[w].pc \in {"absent", "finished"}
    /\ thread' = [w \in Thread |-> In("absent")]
    /\ stopped' = TRUE /\ lifecycle' = None /\ caller' = [caller EXCEPT ![c] = "back"]
    /\ UNCHANGED <<tasks, fate, idle_count, current_threads, stopping, faults>>

-----------------------------------------------------------------------------
(* workerLoop *)

Take(w) ==
    /\ thread' = [thread EXCEPT ![w] = [pc |-> "run", task |-> Head(tasks)]]
    /\ fate' = [fate EXCEPT ![Head(tasks)] = "running"]
    /\ tasks' = Tail(tasks)
    /\ UNCHANGED current_threads

Leave(w) ==
    /\ current_threads' = current_threads - 1
    /\ thread' = [thread EXCEPT ![w] = In("leaving")]
    /\ UNCHANGED <<tasks, fate>>

\* The loop body from the top, or from the wait on: leave when told to stop and nothing is left.
Go(w) ==
    \/ tasks # <<>> /\ Take(w)
    \/ tasks = <<>> /\ stopping /\ Leave(w)

LoopTop(w) ==
    /\ thread[w].pc = "top"
    /\ \/ Go(w) /\ UNCHANGED idle_count
       \/ /\ tasks = <<>> /\ ~stopping
          /\ thread' = [thread EXCEPT ![w] = In("wait")] /\ idle_count' = idle_count + 1
          /\ UNCHANGED <<tasks, fate, current_threads>>
    /\ UNCHANGED <<stopping, stopped, lifecycle, caller, faults>>

\* Mutant: any thread that timed out leaves.
Surplus_Always(idle) == TRUE

\* A thread that timed out is one too many.
Surplus(idle) == idle > 0 /\ current_threads > InitThreads

\* Mutant: the wait is for tasks only.
Wake_TasksOnly(w) ==
    /\ thread[w].pc = "wait" /\ tasks # <<>> /\ Take(w) /\ idle_count' = idle_count - 1
    /\ UNCHANGED <<stopping, stopped, lifecycle, caller, faults>>

\* wait_for returns: notified with something to do, or timed out with nothing.
Wake(w) ==
    /\ thread[w].pc = "wait"
    /\ idle_count' = idle_count - 1
    /\ \/ Go(w)
       \/ /\ tasks = <<>> /\ ~stopping
          /\ IF Surplus(idle_count - 1) THEN Leave(w)
             ELSE thread' = [thread EXCEPT ![w] = In("top")] /\ UNCHANGED <<tasks, fate, current_threads>>
    /\ UNCHANGED <<stopping, stopped, lifecycle, caller, faults>>

\* The task returns, or throws, which is caught.
Ran(w) ==
    /\ thread[w].pc = "run"
    /\ fate' = [fate EXCEPT ![thread[w].task] = "ran"]
    /\ thread' = [thread EXCEPT ![w] = In("top")]
    /\ UNCHANGED <<tasks, idle_count, current_threads, stopping, stopped, lifecycle, caller, faults>>

Finish(w) ==
    /\ thread[w].pc = "leaving"
    /\ thread' = [thread EXCEPT ![w] = In("finished")]
    /\ UNCHANGED <<tasks, fate, idle_count, current_threads, stopping, stopped, lifecycle, caller, faults>>

WorkerStep(w) == LoopTop(w) \/ Wake(w) \/ Ran(w) \/ Finish(w)

Next ==
    \/ \E c \in Caller : (\E t \in Task : enqueue(c, t)) \/ adjustPoolSize(c) \/ stop(c) \/ StopReturns(c)
    \/ \E w \in Thread : WorkerStep(w)

Spec == Init /\ [][Next]_vars

\* Threads run and waits time out; a task comes to an end.  Nothing makes a caller enqueue or stop.
FairSpec ==
    /\ Spec
    /\ \A w \in Thread : WF_vars(WorkerStep(w))
    /\ \A c \in Caller : WF_vars(StopReturns(c)) /\ WF_vars(adjustPoolSize(c)) /\ WF_vars(stopping /\ stop(c))

-----------------------------------------------------------------------------
(* Properties *)

\* The types of the pool's members, the threads and the tasks (part of ThreadsAccounted).
TypeOK ==
    /\ tasks \in Seq(Task) /\ (MaxPending > 0 => Len(tasks) <= MaxPending)
    /\ fate \in [Task -> {"new", "refused", "queued", "running", "ran"}]
    /\ thread \in [Thread -> ThreadState]
    /\ idle_count \in Nat /\ current_threads \in Nat /\ faults \in 0..MaxFaults
    /\ stopping \in BOOLEAN /\ stopped \in BOOLEAN /\ lifecycle \in Caller \cup {None}
    /\ caller \in [Caller -> {"idle", "adjusting", "joining", "back"}]

\* The counters that adjustPoolSize and the idle timeout decide by are the truth about the threads,
\* whatever order threads leave, fail to start and are reaped in: between init and max of them work
\* as long as the pool is not stopping.
ThreadsAccounted ==
    /\ TypeOK
    /\ current_threads = Cardinality(Working) /\ idle_count = Cardinality(At("wait"))
    /\ current_threads <= MaxThreads
    /\ ~stopping => InitThreads <= current_threads

\* When stop() has returned to one caller, even the second of two that called it together, every
\* task the pool ever accepted has run to its end and no thread of the pool is left to touch it.
StopDrains ==
    (\E c \in Caller : caller[c] = "back") =>
        /\ \A t \in Task : fate[t] \in {"new", "refused", "ran"}
        /\ \A w \in Thread : thread[w].pc = "absent"

\* An accepted task runs, although threads leave when idle and leave when the pool is stopped.
AcceptedRuns == \A t \in Task : fate[t] = "queued" ~> fate[t] = "ran"

\* stop() returns, although a thread it waits for may have just been told that nothing is there.
StopEnds == \A c \in Caller : caller[c] = "joining" ~> caller[c] = "back"
=============================================================================
