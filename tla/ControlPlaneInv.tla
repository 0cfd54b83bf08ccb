---------------------------- MODULE ControlPlaneInv ----------------------------
(***************************************************************************)
(* The inductive invariants behind the theorems about ControlPlane.        *)
(* HolderInv (who holds a row), DispatchInv (what is leased) and WorkInv   *)
(* (what is running or locked) are kept by every step.  The others are     *)
(* kept where some features are not used: SlotInv (the schedule) without   *)
(* RunTaskNow and the misfire policy "skip", which write a next_run_at     *)
(* that was read before other executions ran; LockInv where locks can be   *)
(* relied upon; BudgetInv where only the scheduler changes max_retries and *)
(* retry_count; RecordInv where no database call fails.                    *)
(***************************************************************************)
EXTENDS ControlPlane

\* What a thread may hold of a row between reading and writing it.
Idle(r) == r.status \in {"scheduled", "disabled"}
Held(r) == r.status = "running" <=> r.exec # NoExec

Past(a) == a.pc \notin {"new", "claim", "manual"}   \* it has tried to claim
Busy(a) == a.pc \notin {"new", "done", "dead"}

FreshExecs   == \A e \in Exec : e >= nextExec => att[e].pc = "new" /\ att[e].node = None
ClaimedOnce  == \A t \in Task, e \in Exec : row[t].exec = e => Past(att[e])
RowsHeld     == \A t \in Task : Held(row[t])
PlannedRows ==
    /\ \A ed \in edit : Idle(ed.row)
    /\ \A n \in Node : \A s \in loop[n].due : Idle(s[2])
    /\ \A n \in Node : loop[n].pc = "skip" => Idle(loop[n].cur.row)
    /\ \A e \in Exec : Busy(att[e]) => Idle(att[e].snap)

\* Execution ids are claimed with once: an id that has not been drawn has no thread, an id in a row
\* belongs to a thread past its claim (src/scheduler/task_scheduler.cpp, next_execution_id and
\* claimTaskExecution), a row is running exactly while it names one, and no thread plans to write
\* a running row.
HolderInv == FreshExecs /\ ClaimedOnce /\ RowsHeld /\ PlannedRows

-----------------------------------------------------------------------------

\* The slot the row is held for is the one its execution read.
HeldSlot ==
    \A t \in Task, e \in Exec :
        row[t].exec = e /\ Live(e) => att[e].task = t /\ att[e].snap.next = row[t].next

\* A task that may still run is scheduled after everything it is done with.
AheadOf(r, slots) ==
    /\ r.status = "unborn" => slots = {}
    /\ r.status \in {"scheduled", "running"} => \A s \in slots : s < r.next
Ahead == \A t \in Task : AheadOf(row[t], done[t])

\* An execution only starts, and so only ends, after its slot.
StartedBy(a, time) ==
    /\ a.pc \in {"claimed", "restore", "queued", "rpc"} => a.snap.next <= time
    /\ a.pc \in {"record", "complete"} => a.snap.next <= a.end
Started == \A e \in Exec : StartedBy(att[e], now)

\* Where RunTaskNow and the misfire policy "skip" are not used.
OnlyScheduled ==
    /\ \A e \in Exec : att[e].kind = "sched" /\ att[e].pc # "manual"
    /\ \A n \in Node : loop[n].pc # "skip"

\* Every slot a task has succeeded in lies before its next_run_at, and a claim takes over exactly
\* the next_run_at it compared (completeTaskExecution and claimTaskExecution, src/mysql/mysql_client.cpp).
SlotInv == HeldSlot /\ Ahead /\ Started /\ OnlyScheduled
-----------------------------------------------------------------------------

\* A scheduled execution has its lock from before its claim until it has cleaned up.
Locked == {"claim", "claimed", "restore", "queued", "rpc", "record", "complete", "cleanup"}

\* An execution that is worked on has a node and a task, and so has what the scan thread works on.
Placed ==
    /\ \A e \in Exec : Busy(att[e]) => att[e].node \in Node /\ att[e].task \in Task
    /\ \A n \in Node : loop[n].pc # "scan" => loop[n].cur.task \in Task

\* A scheduler that has stopped has nothing in hand, a process that is down serves no request either.
Quiet(n)   == loop[n].pc = "scan" /\ loop[n].stale = {} /\ loop[n].due = {}
Stopped ==
    \A n \in Node :
        /\ mode[n] \in {"closing", "down"} =>
             Quiet(n) /\ \A e \in Exec : att[e].node = n => att[e].kind = "manual"
        /\ mode[n] = "down" => \A e \in Exec : att[e].node # n

\* Leases and registrations belong to executions in progress, and a node that has stopped has none of
\* those (scanAndDispatch and its scope guards, TaskScheduler::stop, src/scheduler/task_scheduler.cpp).
DispatchInv == Placed /\ NoLeakedLease /\ Stopped

\* The execution a row names works on that task, as long as it works on anything.
HeldTask ==
    \A t \in Task : row[t].exec # NoExec =>
        row[t].exec \in Exec /\ (Live(row[t].exec) => att[row[t].exec].task = t)

\* Unless something failed, a lock in Redis is that of an execution, or a recovery, in progress.
LockOfWork(t) ==
    LET n == lock[t].node  e == lock[t].exec
    IN  IF lock[t].by = "task"
        THEN /\ e \in Exec /\ att[e].node = n /\ att[e].task = t
             /\ att[e].kind = "sched" /\ att[e].pc \in Locked \cup {"unlock"}
        ELSE loop[n].pc \in {"recovering", "unlocking"} /\ loop[n].cur.task = t /\ loop[n].cur.exec = e
LocksInUse == faults = 0 => \A t \in Task : lock[t] # None => LockOfWork(t)

\* Nothing is left behind: no running row without its execution, no lock without its holder.
WorkInv == HeldTask /\ RunningRowsHaveAWorker /\ LocksInUse

\* Where RunTaskNow is not used, Redis answers and renewals come in time, an execution and a recovery
\* hold the lock of their task for as long as they act on it (RedisClient::lock, LockRenewer).
HoldsLock ==
    \A e \in Exec : att[e].pc \in Locked =>
        lock[att[e].task] = TaskOwner(att[e].node, e) /\ lease[att[e].node][att[e].task] = e
RecoveryHoldsLock ==
    \A n \in Node : loop[n].pc \in {"recovering", "unlocking"} =>
        lock[loop[n].cur.task] = RecoveryOwner(n, loop[n].cur.exec)
LockInv ==
    /\ \A e \in Exec : att[e].kind = "sched" /\ att[e].pc # "manual"
    /\ \A n \in Node : lost[n] = {}
    /\ HoldsLock /\ RecoveryHoldsLock
-----------------------------------------------------------------------------

\* Where EnableTask, UpdateTask and RunTaskNow are not used, max_retries is what the task was submitted
\* with, and a row that may run, like every copy that was read of one, has a retry left.
HasRetries(r) == r.max = DefaultRetries /\ r.retry < r.max
BudgetInv ==
    /\ edit = {} /\ \A e \in Exec : att[e].kind = "sched" /\ att[e].pc # "manual"
    /\ \A t \in Task : /\ Exists(row[t]) => row[t].max = DefaultRetries
                       /\ row[t].status \in {"scheduled", "running"} => HasRetries(row[t])
    /\ \A n \in Node : \A s \in loop[n].due : HasRetries(s[2])
    /\ \A n \in Node : loop[n].pc = "skip" => HasRetries(loop[n].cur.row)
    /\ \A e \in Exec : Busy(att[e]) => HasRetries(att[e].snap)

\* Where no database call fails, an execution has a record exactly once it has passed RecordHistory, and the
\* retries in a row or in a copy of it are no more than the failures recorded for its task: for the copy an
\* execution works from, not counting its own.
Failed(h, t) == {e \in Exec : h[e].task = t /\ h[e].out # "ok"}
Charged(r, S) == r.retry <= Cardinality(S)
Recorded ==
    \A e \in Exec :
        /\ att[e].pc \notin {"complete", "cleanup", "done", "dead"} => hist[e] = NoRecord
        /\ att[e].pc = "complete" => hist[e] = [task |-> att[e].task, out |-> att[e].out]
RecordInv ==
    /\ Recorded
    /\ \A t \in Task : Charged(row[t], Failed(hist, t))
    /\ \A ed \in edit : Charged(ed.row, Failed(hist, ed.task))
    /\ \A n \in Node : \A s \in loop[n].due : Charged(s[2], Failed(hist, s[1]))
    /\ \A n \in Node : loop[n].pc = "skip" => Charged(loop[n].cur.row, Failed(hist, loop[n].cur.task))
    /\ \A e \in Exec : Busy(att[e]) => Charged(att[e].snap, Failed(hist, att[e].task) \ {e})
=============================================================================
