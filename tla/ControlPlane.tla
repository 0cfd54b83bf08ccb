----------------------------- MODULE ControlPlane -----------------------------
(***************************************************************************)
(* The control plane: the schedulers of all nodes (Scheduler) composed     *)
(* with the task RPCs that RpcDispatcher serves on the same nodes          *)
(* (src/rpc/rpc_dispatcher.cpp) and with nodes that stop, crash and start  *)
(* (src/app/server_app.cpp).  The handlers share the rows with the         *)
(* schedulers, take no lock, and read a row before they write it.          *)
(***************************************************************************)
EXTENDS Scheduler

CONSTANTS
    RetryChoices,   \* max_retries an UpdateTask request may ask for
    MaxEdits        \* bound: EnableTask and UpdateTask requests in flight

ASSUME DispatcherAssumption ==
    /\ RetryChoices \subseteq Nat \ {0}
    /\ MaxEdits \in Nat

VARIABLES
    edit,       \* EnableTask / UpdateTask requests that have read the row and not yet written it
    cancelling  \* CancelTask requests that have written the row and not yet used the registry

dispVars == <<edit, cancelling>>
vars == <<now, row, hist, lock, mode, loop, lease, lost, reg, att, nextExec, faults, done, edit, cancelling>>

Edit == [op : {"enable", "update"}, node : Node, task : Task, row : Row]

Serving(n) == mode[n] \in {"up", "stopping"}

-----------------------------------------------------------------------------
(* RpcDispatcher *)

handleSubmitTask(n, t) ==
    /\ Serving(n)
    /\ row[t].status = "unborn"
    /\ \E next \in Later(now) : row' = [row EXCEPT ![t] = addTask(next, DefaultRetries)]
    /\ UNCHANGED <<now, hist, done, lock, nodeVars, loop, att, nextExec, faults, dispVars>>

\* CancelTask, and EnableTask with enabled = false.  A lost reply skips the registry.
handleCancelTask(n, t) ==
    /\ "cancel" \in Features /\ Serving(n) /\ Exists(row[t])
    /\ row' = [row EXCEPT ![t] = cancelTask(@)]
    /\ \/ NoFault /\ cancelling' = cancelling \cup {<<n, t>>}
       \/ Fault("db") /\ UNCHANGED cancelling
    /\ UNCHANGED <<now, hist, done, lock, nodeVars, loop, att, nextExec, edit>>

\* TaskCancellationRegistry::cancel: whatever execution of the task this process has registered now.
CancelRegistered(n, t) ==
    /\ <<n, t>> \in cancelling
    /\ cancelling' = cancelling \ {<<n, t>>}
    /\ att' = [e \in Exec |-> IF e = reg[n][t] THEN Cancelled(att[e]) ELSE att[e]]
    /\ UNCHANGED <<now, storeVars, lock, nodeVars, loop, nextExec, faults, edit>>

\* EnableTask with enabled = true: getTask and the new schedule; a running task is left alone.
EnabledRows(r) == {[r EXCEPT !.status = "scheduled", !.next = next] : next \in Later(now)}

handleEnableTask(n, t) ==
    /\ "enable" \in Features /\ Serving(n) /\ NotRunning(row[t])
    /\ Cardinality(edit) < MaxEdits
    /\ \E r \in EnabledRows(row[t]) :
         edit' = edit \cup {[op |-> "enable", node |-> n, task |-> t, row |-> r]}
    /\ UNCHANGED <<now, storeVars, lock, nodeVars, loop, att, nextExec, faults, cancelling>>

\* UpdateTask: a scheduled task gets a new schedule, a disabled one keeps the one that was read.
UpdatedRows(r, max) ==
    {[r EXCEPT !.status = "scheduled", !.next = next, !.max = max] : next \in Later(now)}
    \cup {[r EXCEPT !.status = "disabled", !.max = max]}

handleUpdateTask(n, t) ==
    /\ "update" \in Features /\ Serving(n) /\ NotRunning(row[t])
    /\ Cardinality(edit) < MaxEdits
    /\ \E max \in RetryChoices : \E r \in UpdatedRows(row[t], max) :
         edit' = edit \cup {[op |-> "update", node |-> n, task |-> t, row |-> r]}
    /\ UNCHANGED <<now, storeVars, lock, nodeVars, loop, att, nextExec, faults, cancelling>>

\* The statement the request ends with.  An edit starts a new schedule, so `done` starts over.
WriteEdit(ed) ==
    /\ ed \in edit /\ edit' = edit \ {ed}
    /\ LET t == ed.task  r == ed.row
       IN  \/ /\ NoFault
              /\ row' = [row EXCEPT ![t] = IF ed.op = "enable"
                                           THEN updateTaskRuntime(@, r.status, r.next, r.retry)
                                           ELSE updateTaskDefinition(@, r.status, r.next, r.retry, r.max)]
              /\ done' = IF NotRunning(row[t]) THEN [done EXCEPT ![t] = {}] ELSE done
           \/ Fault("db") /\ UNCHANGED <<row, done>>
    /\ UNCHANGED <<now, hist, lock, nodeVars, loop, att, nextExec, cancelling>>

\* The row was read before, and may have come to run since: the statement refuses that one.
handleDeleteTask(n, t) ==
    /\ "delete" \in Features /\ Serving(n) /\ Exists(row[t])
    /\ row' = [row EXCEPT ![t] = deleteTask(@)]
    /\ UNCHANGED <<now, hist, done, lock, nodeVars, loop, att, nextExec, faults, dispVars>>

\* RunTaskNow: the row is read and kept; no lock, no lease, no cancellation.
handleRunTaskNow(n, t) ==
    /\ "run_now" \in Features /\ Serving(n) /\ NotRunning(row[t])
    /\ nextExec <= MaxExec
    /\ att' = [att EXCEPT ![nextExec] = Begin("manual", "manual", n, t, row[t])]
    /\ nextExec' = nextExec + 1
    /\ UNCHANGED <<now, storeVars, lock, nodeVars, loop, faults, dispVars>>

\* The claim compares the status that was read, but not next_run_at.
ClaimManual(e) ==
    /\ att[e].pc = "manual"
    /\ LET t == att[e].task
           matches == ClaimMatches(row[t], att[e].snap.status, NoTime, now)
           claimed == [row EXCEPT ![t] = claimTaskExecution(@, e)]
       IN  \/ NoFault /\ matches /\ row' = claimed /\ att' = [att EXCEPT ![e] = At(@, "rpc")]
           \/ NoFault /\ ~matches /\ UNCHANGED row /\ att' = [att EXCEPT ![e] = Gone("done")]
           \/ /\ Fault("db") /\ att' = [att EXCEPT ![e] = Gone("done")]
              /\ UNCHANGED row \/ (matches /\ row' = claimed)
    /\ UNCHANGED <<now, hist, done, lock, nodeVars, loop, nextExec, dispVars>>

\* Mutant: the handler returns early when the call has failed.
CompleteManual_OnSuccess(e) ==
    /\ att[e].pc = "complete" /\ att[e].kind = "manual"
    /\ LET a == att[e]
       IN  row' = [row EXCEPT ![a.task] =
                     IF a.out = "ok" THEN completeTaskExecution(@, e, a.snap.status, a.snap.next, a.snap.retry) ELSE @]
    /\ att' = [att EXCEPT ![e] = Gone("done")]
    /\ UNCHANGED <<now, hist, done, lock, nodeVars, loop, nextExec, faults, dispVars>>

\* The row goes back to what was read before the claim.
CompleteManual(e) ==
    /\ att[e].pc = "complete" /\ att[e].kind = "manual"
    /\ LET a == att[e]
       IN  \/ /\ NoFault
              /\ row' = [row EXCEPT ![a.task] =
                           completeTaskExecution(@, e, a.snap.status, a.snap.next, a.snap.retry)]
           \/ Fault("db") /\ UNCHANGED row
    /\ att' = [att EXCEPT ![e] = Gone("done")]
    /\ UNCHANGED <<now, hist, done, lock, nodeVars, loop, nextExec, dispVars>>

-----------------------------------------------------------------------------
(* The life of a node *)

\* Mutant: the queue and the running executions are not waited for.
Drained_LoopOnly(n) == BetweenScans(n)

\* The scan thread is joined and the pool has run what was queued.
Drained(n) == BetweenScans(n) /\ \A e \in Exec : ~(att[e].node = n /\ att[e].kind = "sched")

\* No request is being served.
Answered(n) ==
    /\ \A e \in Exec : att[e].node # n
    /\ \A ed \in edit : ed.node # n
    /\ \A c \in cancelling : c[1] # n

\* ServerApp::stop -> TaskScheduler::stop cancels the shutdown token; the scan in progress goes on.
StopNode(n) ==
    /\ "shutdown" \in Features /\ mode[n] = "up"
    /\ mode' = [mode EXCEPT ![n] = "stopping"]
    /\ UNCHANGED <<now, storeVars, lock, lease, lost, reg, loop, att, nextExec, faults, dispVars>>

\* Once the scheduler has drained the renewer stops, and then the server takes no more requests.
CloseServer(n) ==
    /\ mode[n] = "stopping" /\ Drained(n)
    /\ mode' = [mode EXCEPT ![n] = "closing"]
    /\ lease' = [lease EXCEPT ![n] = [t \in Task |-> NoExec]]
    /\ lost' = [lost EXCEPT ![n] = {}]
    /\ UNCHANGED <<now, storeVars, lock, reg, loop, att, nextExec, faults, dispVars>>

StoppedNode(n) ==
    /\ mode[n] = "closing" /\ Answered(n)
    /\ mode' = [mode EXCEPT ![n] = "down"]
    /\ UNCHANGED <<now, storeVars, lock, lease, lost, reg, loop, att, nextExec, faults, dispVars>>

CrashNode(n) ==
    /\ mode[n] # "down" /\ Fault("crash")
    /\ mode' = [mode EXCEPT ![n] = "down"]
    /\ loop' = [loop EXCEPT ![n] = IdleLoop]
    /\ lease' = [lease EXCEPT ![n] = [t \in Task |-> NoExec]]
    /\ reg' = [reg EXCEPT ![n] = [t \in Task |-> NoExec]]
    /\ lost' = [lost EXCEPT ![n] = {}]
    /\ att' = [e \in Exec |-> IF att[e].node = n THEN Gone("dead") ELSE att[e]]
    /\ edit' = {ed \in edit : ed.node # n}
    /\ cancelling' = {c \in cancelling : c[1] # n}
    /\ UNCHANGED <<now, storeVars, lock, nextExec>>

StartNode(n) ==
    /\ mode[n] = "down"
    /\ mode' = [mode EXCEPT ![n] = "up"]
    /\ UNCHANGED <<now, storeVars, lock, lease, lost, reg, loop, att, nextExec, faults, dispVars>>

-----------------------------------------------------------------------------

Init == SchedulerInit /\ edit = {} /\ cancelling = {}

RequestStep(n, t) ==
    \/ handleSubmitTask(n, t)
    \/ handleCancelTask(n, t) \/ CancelRegistered(n, t)
    \/ handleEnableTask(n, t) \/ handleUpdateTask(n, t)
    \/ handleDeleteTask(n, t) \/ handleRunTaskNow(n, t)

ManualStep(e) == ClaimManual(e) \/ CompleteManual(e)

DispatcherNext ==
    \/ \E n \in Node, t \in Task : RequestStep(n, t)
    \/ \E ed \in edit : WriteEdit(ed)
    \/ \E e \in Exec : ManualStep(e)

NodeStep(n) == StopNode(n) \/ CloseServer(n) \/ StoppedNode(n) \/ CrashNode(n) \/ StartNode(n)

NodeNext == \E n \in Node : NodeStep(n)

Next ==
    \/ SchedulerNext /\ UNCHANGED dispVars
    \/ DispatcherNext
    \/ NodeNext

Spec == Init /\ [][Next]_vars

\* Threads that can go on do: the scan loop has a timed wait, an RPC a deadline, the pools and the
\* renewer run while the process does.  Every scan starts by asking for stale executions, and a
\* row that stays running is one in the end.  A lock nobody renews expires.  Nothing makes a user
\* send requests, a node stop, crash or come back, or a call fail.
Fairness ==
    /\ \A n \in Node :
         /\ WF_vars(LoopStep(n) /\ UNCHANGED dispVars) /\ WF_vars(RenewerStep(n) /\ UNCHANGED dispVars)
         /\ SF_vars(ScanStale(n, Running) /\ UNCHANGED dispVars)
         /\ WF_vars(CloseServer(n)) /\ WF_vars(StoppedNode(n))
         /\ \A t \in Task : WF_vars(CancelRegistered(n, t))
    /\ \A e \in Exec : WF_vars(AttemptStep(e) /\ UNCHANGED dispVars) /\ WF_vars(ManualStep(e))
    /\ \A t \in Task : WF_vars(~Renewed(t) /\ ExpireLock(t) /\ UNCHANGED dispVars)
    /\ WF_vars(\E ed \in edit : WriteEdit(ed))

FairSpec == Spec /\ Fairness

\* The table alone, with the executions that are past their claim as the used ones.
Lifecycle == INSTANCE TaskLifecycle WITH
    status <- [t \in Task |-> row[t].status],
    holder <- [t \in Task |-> row[t].exec],
    used   <- {e \in Exec : att[e].pc \notin {"new", "claim", "manual"}}

-----------------------------------------------------------------------------
(* Properties *)

\* The types of the shared store, the node state and the threads' locals.
TypeOK ==
    /\ now \in 0..MaxTime /\ nextExec \in 1..(MaxExec + 1) /\ faults \in 0..MaxFaults
    /\ row \in [Task -> Row] /\ hist \in [Exec -> Record] /\ done \in [Task -> SUBSET Nat]
    /\ lock \in [Task -> Owner \cup {None}]
    /\ mode \in [Node -> {"up", "stopping", "closing", "down"}]
    /\ loop \in [Node -> LoopState]
    /\ lease \in [Node -> [Task -> 0..MaxExec]] /\ reg \in [Node -> [Task -> 0..MaxExec]]
    /\ lost \in [Node -> SUBSET (Task \X Exec)]
    /\ att \in [Exec -> Attempt]
    /\ edit \subseteq Edit /\ cancelling \subseteq Node \X Task

\* Once a scheduled execution has succeeded and moved the task past a slot, no execution comes to
\* hold the row for that slot again, whatever nodes hold an old scan of the row and whatever
\* happens to the Redis locks: what the comparison of next_run_at in claimTaskExecution
\* and the execution id in completeTaskExecution are for.
SlotsAreNotRepeated ==
    \A t \in Task, e \in Exec :
        row[t].exec = e /\ Live(e) /\ att[e].kind = "sched" => att[e].snap.next \notin done[t]

\* A row is running exactly while it names an execution, and unless a call has failed or a node
\* has crashed that execution is being worked on and will complete or restore the row: no path
\* through scanAndDispatch, its scope guards or RunTaskNow leaves the row running behind it.
RunningRowsHaveAWorker ==
    \A t \in Task :
        /\ row[t].status = "running" <=> row[t].exec # NoExec
        /\ row[t].status = "running" /\ faults = 0 =>
             LET a == att[row[t].exec]
             IN  a.task = t /\ a.pc \in {"claimed", "restore", "queued", "rpc", "record", "complete"}

\* The renewer and the cancellation registry only know executions this node is still working on.
\* A lease left behind by scanAndDispatch would renew the Redis lock for ever, and no node could
\* run or recover the task again.
NoLeakedLease ==
    \A n \in Node, t \in Task : \A e \in {lease[n][t], reg[n][t]} \ {NoExec} :
        /\ att[e].node = n /\ att[e].task = t /\ att[e].kind = "sched"
        /\ att[e].pc \in {"claim", "claimed", "restore", "queued", "rpc", "record", "complete", "cleanup"}

\* Cleaning up after an execution takes away only that execution's lease and registration: an old
\* execution whose lock was lost and taken over, on the same node, leaves its successor's alone.
CleanupIsOwn ==
    [][\A n \in Node, t \in Task, e \in Exec :
         /\ reg[n][t] = e => reg'[n][t] # NoExec \/ att'[e].pc \in {"unlock", "done", "dead"}
         /\ lease[n][t] = e => lease'[n][t] # NoExec \/ att'[e].pc \in {"unlock", "done", "dead"}
                                                   \/ <<t, e>> \in lost[n]]_vars

\* The rows behave as TaskLifecycle says, whatever the schedulers, the requests and the failures do:
\* an execution id holds a row once, for one stretch, and a held row is not edited or deleted.
LifecycleHolds == Lifecycle!Spec

\* At most one control node has an execution of a task outstanding at the workers, through crashes,
\* cancellations, edits and recoveries, as long as locks are renewed in time and Redis answers.
NoOverlap ==
    \A e, f \in Exec :
        att[e].pc = "rpc" /\ att[f].pc = "rpc" /\ att[e].task = att[f].task => e = f

\* recoverStaleExecutions takes a row only from an execution nobody works on any more (under the
\* same conditions): of a live one the row changes only by its own step or by a cancellation.
RecoveryTakesOnlyOrphans ==
    [][\A t \in Task, e \in Exec :
         row[t].exec = e /\ row'[t].exec # e /\ Live(e) /\ att[e].pc \notin {"unlock", "cleanup"} =>
            att'[e].pc # att[e].pc \/ row'[t].status = "disabled"]_vars

\* A cancelled task stays disabled until an EnableTask or UpdateTask request writes the row:
\* nothing that an execution, a recovery or an old scan still has to write turns it on again.
CancelSticks ==
    [][\A t \in Task :
         row[t].status = "disabled" /\ row'[t].status \in {"scheduled", "running"} =>
            \E ed \in edit : ed.task = t /\ ed.row.status = "scheduled" /\ ed \notin edit']_vars

\* Every retry the row has been charged stands in task_history as an execution that did not
\* succeed: shutdowns, lost locks and old completions never charge one twice or unrecorded.
RetriesAreRecorded ==
    \A t \in Task :
        row[t].retry <= Cardinality({e \in Exec : hist[e].task = t /\ hist[e].out # "ok"})

\* An execution that ends in success and still holds its row moves the task on to the next cron
\* time (docs/reference/design.md:69).
SuccessAdvances ==
    [][\A t \in Task, e \in Exec :
         /\ row[t].exec = e /\ att[e].kind = "sched" /\ att[e].pc = "complete" /\ att[e].out = "ok"
         /\ row'[t].status = "scheduled" /\ att'[e].pc = "cleanup"
         => row'[t].next # row[t].next]_vars

\* The scheduler itself never leaves a task scheduled that has used up its retries.
RetryBudget == \A t \in Task : row[t].status = "scheduled" => row[t].retry < row[t].max

\* A scheduler that has stopped in good order leaves no task lock and no running row of its own behind,
\* so that the others need not wait for a lock to expire or a row to become stale.
CleanShutdown ==
    \A n \in Node, t \in Task :
        mode[n] \in {"closing", "down"} /\ faults = 0 =>
            /\ lock[t] # None => lock[t].node # n
            /\ row[t].status = "running" =>
                 LET a == att[row[t].exec] IN a.node # n \/ (a.kind = "manual" /\ mode[n] = "closing")

\* A row does not stay running: its execution completes it, or, when a crash or a failed call left
\* it behind, recoverStaleExecutions of a surviving node puts it back.
RunningEnds == \A t \in Task : row[t].status = "running" ~> row[t].status # "running"

\* A due task is claimed, even when the node that locked it crashes before the claim.
DueIsServed ==
    \A t \in Task : IsDue(row[t], now) ~> ~IsDue(row[t], now) \/ nextExec > MaxExec

\* TaskScheduler::stop and the process come to an end, whatever is queued or in flight.
StopCompletes == \A n \in Node : mode[n] = "stopping" ~> mode[n] = "down"
=============================================================================
