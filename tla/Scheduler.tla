------------------------------- MODULE Scheduler -------------------------------
(***************************************************************************)
(* TaskScheduler on every control node (src/scheduler/task_scheduler.cpp): *)
(* the scan thread, the pool threads that run a dispatched task, the lock  *)
(* renewer thread, and the Redis lock and MySQL rows the nodes share.      *)
(*                                                                         *)
(* A step is one Redis or MySQL call together with the local work up to    *)
(* the next one; that is where the threads of this program interleave.     *)
(* Durations are abstract: a lock may expire and a running row may be old  *)
(* enough to be stale at any time the code's own renewals do not exclude.  *)
(* The clock `now` only orders next_run_at against the present.            *)
(***************************************************************************)
EXTENDS TaskStore, FiniteSets

CONSTANTS
    Node,           \* control nodes
    Task,           \* task ids
    None,           \* no lock owner
    Features,       \* what the environment does besides submitting tasks (see FeatureNames)
    Delays,         \* how far ahead cron, and the retry back-off, may put next_run_at
    Grace,          \* scheduler.misfire_grace_seconds
    DefaultRetries, \* TaskMeta::max_retries of a submitted task
    MaxTime,        \* bound: the clock stops here
    MaxExec,        \* bound: executions started, by the scheduler or by hand
    MaxFaults       \* bound: crashes and failed storage calls

FeatureNames == {"cancel", "enable", "update", "delete", "run_now", "shutdown",
                 "skip", "cron_ends", "no_worker", "crash", "db", "redis", "lapse"}

ASSUME ConstantsAssumption ==
    /\ None \notin Node
    /\ Features \subseteq FeatureNames
    /\ Delays \subseteq Nat \ {0}
    /\ Grace \in Nat /\ MaxTime \in Nat /\ MaxExec \in Nat /\ MaxFaults \in Nat
    /\ DefaultRetries \in Nat \ {0}

VARIABLES
    now,        \* the wall clock, NOW() of the database included
    row,        \* tasks: one row per task id
    hist,       \* task_history: what was recorded for an execution id
    lock,       \* Redis: the value of lock:task:<id>
    mode,       \* node: up, stopping (in TaskScheduler::stop), closing (in TcpServer::stop) or down
    loop,       \* node: where schedulerLoop is, and the lists it scanned
    lease,      \* node: LockRenewer::leases_
    lost,       \* node: leases the renewer found lost and has yet to act on
    reg,        \* node: TaskCancellationRegistry
    att,        \* execution id: the thread that works on it and its locals
    nextExec,   \* the next execution id
    faults,     \* crashes and failed calls so far
    done        \* history: slots (next_run_at values) a success has moved the task past

storeVars == <<row, hist, done>>
nodeVars  == <<mode, lease, lost, reg>>
schedVars == <<now, row, hist, lock, mode, loop, lease, lost, reg, att, nextExec, faults, done>>

Exec == 1..MaxExec

Owner == [by : {"task", "recovery"}, node : Node, exec : Nat]
TaskOwner(n, e)     == [by |-> "task", node |-> n, exec |-> e]
RecoveryOwner(n, e) == [by |-> "recovery", node |-> n, exec |-> e]

\* None is no task and no lock value either.
ASSUME NoneAssumption == None \notin Task /\ None \notin Owner

\* What one round of the scan thread works on: a stale execution, or a planned misfire update.
Current   == [task : Task \cup {None}, exec : Nat, row : Row]
NoCurrent == [task |-> None, exec |-> NoExec, row |-> NoRow]
IdleLoop  == [pc |-> "scan", stale |-> {}, due |-> {}, cur |-> NoCurrent]
LoopState ==
    [pc : {"scan", "recovering", "unlocking", "skip"},
     stale : SUBSET (Task \X Nat), due : SUBSET (Task \X Row), cur : Current]

\* A scheduled execution goes claim, claimed, queued, rpc, record, complete, cleanup, done; the
\* ways out before the queue go through restore and unlock.  A manual one has no lock: manual,
\* rpc, record, complete, done.  dead: its process crashed.
PCs == {"new", "claim", "claimed", "restore", "unlock", "queued", "rpc", "record",
        "complete", "cleanup", "manual", "done", "dead"}
Outcomes == {"none", "ok", "failed", "no_worker"}    \* ExecutionOutcome
Record   == [task : Task \cup {None}, out : Outcomes]
NoRecord == [task |-> None, out |-> "none"]
Attempt ==
    [pc : PCs, kind : {"sched", "manual"}, node : Node \cup {None}, task : Task \cup {None},
     snap : Row, cancelled : BOOLEAN, out : Outcomes, end : Nat]
NoAttempt ==
    [pc |-> "new", kind |-> "sched", node |-> None, task |-> None,
     snap |-> NoRow, cancelled |-> FALSE, out |-> "none", end |-> 0]
Gone(pc) == [NoAttempt EXCEPT !.pc = pc]    \* the locals go with the thread's stack frame

Begin(pc, kind, n, t, r) ==
    [NoAttempt EXCEPT !.pc = pc, !.kind = kind, !.node = n, !.task = t, !.snap = r]
At(a, pc)     == [a EXCEPT !.pc = pc]           \* the thread has got as far as pc
Cancelled(a)  == [a EXCEPT !.cancelled = TRUE]  \* CancellationSource::cancel

Live(e)     == att[e].pc \notin {"new", "done", "dead"}
Stopping(n) == mode[n] \in {"stopping", "closing"}   \* shutdown_cancellation_.isCancellationRequested()

\* The scan thread is inside the loop body for this execution until it is queued or undone.
Dispatching(n) == \E e \in Exec : att[e].node = n /\ att[e].pc \in {"claim", "claimed", "restore", "unlock"}

\* It is between two tasks of a list, or between two scans.
Scanning(n) == loop[n].pc = "scan" /\ ~Dispatching(n)
BetweenScans(n) == Scanning(n) /\ loop[n].stale = {} /\ loop[n].due = {}

\* CronParser::nextExecution and retry_delay_seconds: some time after t.
Later(t) == {t + d : d \in Delays}

\* A storage call that fails, or whose reply is lost; every other step leaves the count alone.
Fault(kind) == kind \in Features /\ faults < MaxFaults /\ faults' = faults + 1
NoFault     == UNCHANGED faults

-----------------------------------------------------------------------------
(* RedisClient: the task lock *)

\* Mutant: SET instead of SETNX.
Lockable_Always(t) == TRUE

\* RedisClient::lock succeeds on a free key only.
Lockable(t) == lock[t] = None

\* RedisClient::unlock deletes the key of its owner only.
Unlocked(t, owner) == IF lock[t] = owner THEN [lock EXCEPT ![t] = None] ELSE lock

unlock(t, owner) ==
    \/ NoFault /\ lock' = Unlocked(t, owner)
    \/ Fault("redis") /\ UNCHANGED lock

\* A lock that its holder is renewing, or has only just taken for a recovery, outlives its holder's
\* work unless renewals come late ("lapse").
Renewed(t) ==
    /\ lock[t] # None
    /\ LET n == lock[t].node  e == lock[t].exec
       IN  /\ mode[n] # "down"
           /\ IF lock[t].by = "task"
              THEN lease[n][t] = e
              ELSE loop[n].pc \in {"recovering", "unlocking"} /\ loop[n].cur.task = t /\ loop[n].cur.exec = e

\* Mutant: SETNX without the EXPIRE.
ExpireLock_NoTtl(t) == FALSE /\ UNCHANGED schedVars

ExpireLock(t) ==
    /\ lock[t] # None
    /\ Renewed(t) => "lapse" \in Features
    /\ lock' = [lock EXCEPT ![t] = None]
    /\ UNCHANGED <<now, storeVars, nodeVars, loop, att, nextExec, faults>>

-----------------------------------------------------------------------------
(* recoverStaleExecutions *)

Running == {t \in Task : row[t].status = "running"}

\* getStaleRunningTasks: the rows that have been running for long enough.  An empty answer is a
\* scan that goes straight on to getDueTasks.
ScanStale(n, S) ==
    /\ mode[n] = "up" /\ BetweenScans(n)
    /\ S # {} /\ S \subseteq Running
    /\ loop' = [loop EXCEPT ![n].stale = {<<t, row[t].exec>> : t \in S}]
    /\ UNCHANGED <<now, storeVars, lock, nodeVars, att, nextExec, faults>>

RecoverLock(n) ==
    /\ Scanning(n)
    /\ \E p \in loop[n].stale :
         LET t == p[1]  e == p[2]  owner == RecoveryOwner(n, e)  rest == loop[n].stale \ {p}
         IN  \/ /\ NoFault /\ Lockable(t)
                /\ lock' = [lock EXCEPT ![t] = owner]
                /\ loop' = [loop EXCEPT ![n] = [@ EXCEPT !.pc = "recovering", !.stale = rest,
                                                        !.cur = [task |-> t, exec |-> e, row |-> NoRow]]]
             \/ /\ NoFault /\ ~Lockable(t)
                /\ loop' = [loop EXCEPT ![n].stale = rest]
                /\ UNCHANGED lock
             \/ /\ Fault("redis") /\ Lockable(t)
                /\ lock' \in {lock, [lock EXCEPT ![t] = owner]}
                /\ loop' = [loop EXCEPT ![n].stale = rest]
    /\ UNCHANGED <<now, storeVars, nodeVars, att, nextExec>>

RecoverRow(n) ==
    /\ loop[n].pc = "recovering"
    /\ \/ /\ NoFault
          /\ LET t == loop[n].cur.task
             IN  row' = [row EXCEPT ![t] = recoverTaskExecution(@, loop[n].cur.exec)]
       \/ Fault("db") /\ UNCHANGED row
    /\ loop' = [loop EXCEPT ![n].pc = "unlocking"]
    /\ UNCHANGED <<now, hist, done, lock, nodeVars, att, nextExec>>

RecoverUnlock(n) ==
    /\ loop[n].pc = "unlocking"
    /\ unlock(loop[n].cur.task, RecoveryOwner(n, loop[n].cur.exec))
    /\ loop' = [loop EXCEPT ![n] = [@ EXCEPT !.pc = "scan", !.cur = NoCurrent]]
    /\ UNCHANGED <<now, storeVars, nodeVars, att, nextExec>>

-----------------------------------------------------------------------------
(* scanAndDispatch *)

Due == {t \in Task : IsDue(row[t], now)}

\* getDueTasks.  The loop checks running_ only between two scans.
ScanDue(n) ==
    /\ mode[n] = "up" /\ BetweenScans(n)
    /\ Due # {}
    /\ loop' = [loop EXCEPT ![n].due = {<<t, row[t]>> : t \in Due}]
    /\ UNCHANGED <<now, storeVars, lock, nodeVars, att, nextExec, faults>>

Overdue(s) == "skip" \in Features /\ now - s[2].next > Grace

\* misfire_policy "skip": the new schedule is computed from the scanned row and written by WriteSkip.
SkippedRows(r) ==
    {[r EXCEPT !.next = next] : next \in Later(now)}
    \cup (IF "cron_ends" \in Features THEN {[r EXCEPT !.status = "disabled"]} ELSE {})

PlanSkip(n) ==
    /\ Scanning(n)
    /\ \E s \in loop[n].due :
         /\ Overdue(s)
         /\ \E r \in SkippedRows(s[2]) :
              loop' = [loop EXCEPT ![n] = [@ EXCEPT !.pc = "skip", !.due = loop[n].due \ {s},
                                                   !.cur = [task |-> s[1], exec |-> NoExec, row |-> r]]]
    /\ UNCHANGED <<now, storeVars, lock, nodeVars, att, nextExec, faults>>

WriteSkip(n) ==
    /\ loop[n].pc = "skip"
    /\ LET t == loop[n].cur.task  r == loop[n].cur.row
       IN  \/ NoFault /\ row' = [row EXCEPT ![t] = updateTaskRuntime(@, r.status, r.next, r.retry)]
           \/ Fault("db") /\ UNCHANGED row
    /\ loop' = [loop EXCEPT ![n] = [@ EXCEPT !.pc = "scan", !.cur = NoCurrent]]
    /\ UNCHANGED <<now, hist, done, lock, nodeVars, att, nextExec>>

\* discoverServices("worker:<handler>") is empty: the task waits for a later scan.
NoWorker(n) ==
    /\ "no_worker" \in Features /\ Scanning(n)
    /\ \E s \in loop[n].due : ~Overdue(s) /\ loop' = [loop EXCEPT ![n].due = @ \ {s}]
    /\ UNCHANGED <<now, storeVars, lock, nodeVars, att, nextExec, faults>>

\* The lock is taken; the renewer and the cancellation registry know the execution before the
\* row is claimed.
LockTask(n) ==
    /\ Scanning(n)
    /\ nextExec <= MaxExec
    /\ \E s \in loop[n].due :
         LET t == s[1]
         IN  /\ ~Overdue(s)
             /\ Lockable(t)
             /\ lock' = [lock EXCEPT ![t] = TaskOwner(n, nextExec)]
             /\ lease' = [lease EXCEPT ![n][t] = nextExec]
             /\ reg' = [reg EXCEPT ![n][t] = nextExec]
             /\ att' = [att EXCEPT ![nextExec] = Begin("claim", "sched", n, t, s[2])]
             /\ loop' = [loop EXCEPT ![n].due = @ \ {s}]
    /\ nextExec' = nextExec + 1
    /\ UNCHANGED <<now, storeVars, mode, lost, faults>>

\* The lock is held by someone else, or Redis fails: SETNX may have been applied all the same,
\* because RedisClient::command sends a command whose reply was lost a second time.  (When the bound
\* leaves no execution id, the task counts as locked.)
LockBusy(n) ==
    /\ Scanning(n)
    /\ \E s \in loop[n].due :
         LET t == s[1]
         IN  /\ ~Overdue(s)
             /\ \/ NoFault /\ (~Lockable(t) \/ nextExec > MaxExec) /\ UNCHANGED <<lock, att, nextExec>>
                \/ /\ Fault("redis") /\ Lockable(t) /\ nextExec <= MaxExec
                   /\ lock' \in {lock, [lock EXCEPT ![t] = TaskOwner(n, nextExec)]}
                   /\ att' = [att EXCEPT ![nextExec] = Gone("done")]
                   /\ nextExec' = nextExec + 1
             /\ loop' = [loop EXCEPT ![n].due = @ \ {s}]
    /\ UNCHANGED <<now, storeVars, nodeVars>>

-----------------------------------------------------------------------------
(* One dispatched execution, up to the pool's queue: the scan thread *)

\* Mutants: the lease is not removed; whatever the renewer and the registry have is removed.
Forget_RegistryOnly(n, t, e) ==
    reg' = [reg EXCEPT ![n][t] = IF @ = e THEN NoExec ELSE @] /\ UNCHANGED lease
Forget_Whatever(n, t, e) ==
    lease' = [lease EXCEPT ![n][t] = NoExec] /\ reg' = [reg EXCEPT ![n][t] = NoExec]

\* TaskCancellationRegistry::unregisterTask and LockRenewer::remove: only this execution's entries.
Forget(n, t, e) ==
    /\ lease' = [lease EXCEPT ![n][t] = IF @ = e THEN NoExec ELSE @]
    /\ reg' = [reg EXCEPT ![n][t] = IF @ = e THEN NoExec ELSE @]

ClaimTask(e) ==
    /\ att[e].pc = "claim"
    /\ LET a == att[e]  t == a.task
           matches == ClaimMatches(row[t], "scheduled", a.snap.next, now)
           claimed == [row EXCEPT ![t] = claimTaskExecution(@, e)]
           skipped == att' = [att EXCEPT ![e] = At(@, "unlock")] /\ Forget(a.node, t, e)
       IN  \/ /\ NoFault /\ matches
              /\ row' = claimed /\ att' = [att EXCEPT ![e] = At(@, "claimed")]
              /\ UNCHANGED <<lease, reg>>
           \/ NoFault /\ ~matches /\ skipped /\ UNCHANGED row
           \/ /\ Fault("db") /\ skipped
              /\ UNCHANGED row \/ (matches /\ row' = claimed)
    /\ UNCHANGED <<now, hist, done, lock, mode, lost, loop, nextExec>>

\* Cancelled since it was registered: undo.  The scheduler's pool has no queue limit and is only
\* stopped after this thread, so it never refuses the task.
EnqueueTask(e) ==
    /\ att[e].pc = "claimed"
    /\ att' = [att EXCEPT ![e] = At(@, IF att[e].cancelled THEN "restore" ELSE "queued")]
    /\ UNCHANGED <<now, storeVars, lock, nodeVars, loop, nextExec, faults>>

\* Mutant: an execution that is put back is charged as a failure.
RestoreTask_Charges(e) ==
    /\ att[e].pc = "restore"
    /\ LET a == att[e]
       IN  /\ Forget(a.node, a.task, e)
           /\ row' = [row EXCEPT ![a.task] = completeTaskExecution(@, e, "scheduled", a.snap.next, a.snap.retry + 1)]
    /\ att' = [att EXCEPT ![e] = At(@, "unlock")]
    /\ UNCHANGED <<now, hist, done, lock, mode, lost, loop, nextExec, faults>>

\* enqueue_cleanup after a claim: the row goes back to what the scan saw, if it is still ours.
RestoreTask(e) ==
    /\ att[e].pc = "restore"
    /\ LET a == att[e]
       IN  /\ Forget(a.node, a.task, e)
           /\ \/ /\ NoFault
                 /\ row' = [row EXCEPT ![a.task] = completeTaskExecution(@, e, "scheduled", a.snap.next, a.snap.retry)]
              \/ Fault("db") /\ UNCHANGED row
    /\ att' = [att EXCEPT ![e] = At(@, "unlock")]
    /\ UNCHANGED <<now, hist, done, lock, mode, lost, loop, nextExec>>

UnlockTask(e) ==
    /\ att[e].pc = "unlock"
    /\ unlock(att[e].task, TaskOwner(att[e].node, e))
    /\ att' = [att EXCEPT ![e] = Gone("done")]
    /\ UNCHANGED <<now, storeVars, nodeVars, loop, nextExec>>

-----------------------------------------------------------------------------
(* One queued execution: a pool thread *)

Ended(a, out) == [a EXCEPT !.pc = "record", !.out = out, !.end = now]

\* Mutant: the pool's threads leave at stop() with tasks in the queue.
StartTask_NoDrain(e) ==
    /\ att[e].pc = "queued" /\ ~Stopping(att[e].node)
    /\ att' = [att EXCEPT ![e] = At(@, "rpc")]
    /\ UNCHANGED <<now, storeVars, lock, nodeVars, loop, nextExec, faults>>

\* executeTask up to the RPC: not when cancelled or stopping, nor when no worker is left.
StartTask(e) ==
    /\ att[e].pc = "queued"
    /\ LET stopped == att[e].cancelled \/ Stopping(att[e].node)
           ends(out) == att' = [att EXCEPT ![e] = Ended(@, out)]
       IN  \/ stopped /\ ends("failed")
           \/ ~stopped /\ "no_worker" \in Features /\ ends("no_worker")
           \/ ~stopped /\ att' = [att EXCEPT ![e] = At(@, "rpc")]
    /\ UNCHANGED <<now, storeVars, lock, nodeVars, loop, nextExec, faults>>

\* The call ends: a response, an error, the deadline or the cancellation.  A worker that was sent
\* the request may have run the handler in every case.
FinishRpc(e, out) ==
    /\ att[e].pc = "rpc"
    /\ att' = [att EXCEPT ![e] = Ended(@, out)]
    /\ UNCHANGED <<now, storeVars, lock, nodeVars, loop, nextExec, faults>>

RecordHistory(e) ==
    /\ att[e].pc = "record"
    /\ \/ NoFault /\ hist' = [hist EXCEPT ![e] = [task |-> att[e].task, out |-> att[e].out]]
       \/ Fault("db") /\ UNCHANGED hist
    /\ att' = [att EXCEPT ![e] = At(@, "complete")]
    /\ UNCHANGED <<now, row, done, lock, nodeVars, loop, nextExec>>

\* Mutant: one failure too many.
Exhausted_OffByOne(retry, max) == retry > max

Exhausted(retry, max) == retry >= max

\* The rows a scheduled execution may ask for.
NextRows(a) ==
    LET retry == a.snap.retry + 1
        with(status, next, rc) == [a.snap EXCEPT !.status = status, !.next = next, !.retry = rc]
    IN  IF Stopping(a.node) THEN {with("scheduled", a.snap.next, a.snap.retry)}
        ELSE IF a.out = "ok"
        THEN {with("scheduled", next, 0) : next \in Later(a.end)}
             \cup (IF "cron_ends" \in Features THEN {with("disabled", a.end, 0)} ELSE {})
        ELSE IF Exhausted(retry, a.snap.max) THEN {with("disabled", a.end, retry)}
        ELSE {with("scheduled", next, retry) : next \in Later(a.end)}

CompleteTask(e) ==
    /\ att[e].pc = "complete" /\ att[e].kind = "sched"
    /\ LET a == att[e]  t == a.task
       IN  \/ /\ NoFault
              /\ \E r \in NextRows(a) :
                   row' = [row EXCEPT ![t] = completeTaskExecution(@, e, r.status, r.next, r.retry)]
              /\ done' = IF a.out = "ok" /\ ~Stopping(a.node) /\ row[t].exec = e
                         THEN [done EXCEPT ![t] = @ \cup {a.snap.next}]
                         ELSE done
           \/ Fault("db") /\ UNCHANGED <<row, done>>
    /\ att' = [att EXCEPT ![e] = At(@, "cleanup")]
    /\ UNCHANGED <<now, hist, lock, nodeVars, loop, nextExec>>

\* execution_cleanup runs last, after the row is complete.
CleanupTask(e) ==
    /\ att[e].pc = "cleanup"
    /\ Forget(att[e].node, att[e].task, e)
    /\ unlock(att[e].task, TaskOwner(att[e].node, e))
    /\ att' = [att EXCEPT ![e] = Gone("done")]
    /\ UNCHANGED <<now, storeVars, mode, lost, loop, nextExec>>

-----------------------------------------------------------------------------
(* LockRenewer::loop: the leases that are due are copied and renewed without the mutex, and only
   then the lost ones are acted on, if the lease is still the same one. *)

RenewLease(n, t) ==
    /\ lease[n][t] # NoExec
    /\ LET e == lease[n][t]  lostNow == lost' = [lost EXCEPT ![n] = @ \cup {<<t, e>>}]
       IN  \/ NoFault /\ lock[t] # TaskOwner(n, e) /\ lostNow
           \/ Fault("redis") /\ lostNow
    /\ UNCHANGED <<now, storeVars, lock, mode, lease, reg, loop, att, nextExec>>

ApplyLost(n) ==
    /\ lost[n] # {}
    /\ LET hit == {p \in lost[n] : lease[n][p[1]] = p[2]}
       IN  /\ att' = [e \in Exec |-> IF \E p \in hit : p[2] = e
                                     THEN Cancelled(att[e]) ELSE att[e]]
           /\ lease' = [lease EXCEPT ![n] = [t \in Task |-> IF \E p \in hit : p[1] = t
                                                           THEN NoExec ELSE @[t]]]
    /\ lost' = [lost EXCEPT ![n] = {}]
    /\ UNCHANGED <<now, storeVars, lock, mode, reg, loop, nextExec, faults>>

-----------------------------------------------------------------------------

Tick ==
    /\ now < MaxTime /\ now' = now + 1
    /\ UNCHANGED <<storeVars, lock, nodeVars, loop, att, nextExec, faults>>

SchedulerInit ==
    /\ now = 0 /\ nextExec = 1 /\ faults = 0
    /\ row = [t \in Task |-> NoRow]
    /\ hist = [e \in Exec |-> NoRecord]
    /\ done = [t \in Task |-> {}]
    /\ lock = [t \in Task |-> None]
    /\ mode = [n \in Node |-> "up"]
    /\ loop = [n \in Node |-> IdleLoop]
    /\ lease = [n \in Node |-> [t \in Task |-> NoExec]]
    /\ reg = [n \in Node |-> [t \in Task |-> NoExec]]
    /\ lost = [n \in Node |-> {}]
    /\ att = [e \in Exec |-> NoAttempt]

LoopStep(n) ==
    \/ \E S \in SUBSET Running : ScanStale(n, S)
    \/ RecoverLock(n) \/ RecoverRow(n) \/ RecoverUnlock(n)
    \/ ScanDue(n) \/ PlanSkip(n) \/ WriteSkip(n) \/ NoWorker(n)
    \/ LockTask(n) \/ LockBusy(n)

AttemptStep(e) ==
    \/ ClaimTask(e) \/ EnqueueTask(e) \/ RestoreTask(e) \/ UnlockTask(e)
    \/ StartTask(e) \/ (\E out \in {"ok", "failed"} : FinishRpc(e, out)) \/ RecordHistory(e)
    \/ CompleteTask(e) \/ CleanupTask(e)

RenewerStep(n) == (\E t \in Task : RenewLease(n, t)) \/ ApplyLost(n)

SchedulerNext ==
    \/ \E n \in Node : LoopStep(n) \/ RenewerStep(n)
    \/ \E e \in Exec : AttemptStep(e)
    \/ \E t \in Task : ExpireLock(t)
    \/ Tick
=============================================================================
