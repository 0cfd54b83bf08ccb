----------------------------- MODULE RetryProofs ------------------------------
(***************************************************************************)
(* The retries of a task stay within max_retries and stand in the history. *)
(* Both need what becomes of the copies of a row that are read and written *)
(* back later.                                                             *)
(***************************************************************************)
EXTENDS DispatchProofs, FiniteSetTheorems

-----------------------------------------------------------------------------
(* The copies of a row that are still to be written *)

\* The scan thread works from rows it read while they were scheduled; a skipped slot changes neither
\* retry_count nor max_retries.
LEMMA LoopCopies ==
    ASSUME TypeOK, [Next]_vars, NEW n \in Node
    PROVE  /\ \A s \in loop'[n].due : \/ s \in loop[n].due
                                      \/ \E t \in Task : row[t].status = "scheduled" /\ s = <<t, row[t]>>
           /\ loop'[n].pc = "skip" =>
                \/ loop[n].pc = "skip" /\ loop'[n].cur = loop[n].cur
                \/ \E s \in loop[n].due :
                     /\ loop'[n].cur.task = s[1]
                     /\ loop'[n].cur.row.retry = s[2].retry /\ loop'[n].cur.row.max = s[2].max
<1> DEFINE Goal == /\ \A s \in loop'[n].due : \/ s \in loop[n].due
                                              \/ \E t \in Task : row[t].status = "scheduled" /\ s = <<t, row[t]>>
                   /\ loop'[n].pc = "skip" =>
                        \/ loop[n].pc = "skip" /\ loop'[n].cur = loop[n].cur
                        \/ \E s \in loop[n].due :
                             /\ loop'[n].cur.task = s[1]
                             /\ loop'[n].cur.row.retry = s[2].retry /\ loop'[n].cur.row.max = s[2].max
<1>loop. loop \in [Node -> LoopState] /\ loop[n] \in LoopState
  BY DEF TypeOK
<1>same. ASSUME loop'[n] = loop[n] PROVE Goal
  BY <1>same, Zenon
<1>less. ASSUME loop'[n].due \subseteq loop[n].due, loop'[n].pc # "skip" PROVE Goal
  BY <1>less, Zenon
<1>1. ASSUME LoopStep(n) PROVE Goal
  <2>1. ASSUME NEW S \in SUBSET Running, ScanStale(n, S) PROVE Goal
    <3>1. loop'[n] = [loop[n] EXCEPT !.stale = {<<t, row[t].exec>> : t \in S}] /\ loop[n].pc = "scan"
      BY <2>1, <1>loop DEF ScanStale, BetweenScans, Scanning
    <3> QED
      BY <3>1, <1>loop, <1>less DEF LoopState
  <2>2. CASE RecoverLock(n)
    <3>1. loop[n].pc = "scan"
      BY <2>2 DEF RecoverLock, Scanning
    <3>2. PICK p \in loop[n].stale :
            \/ loop' = [loop EXCEPT ![n].stale = loop[n].stale \ {p}]
            \/ loop' = [loop EXCEPT ![n] = [@ EXCEPT !.pc = "recovering", !.stale = loop[n].stale \ {p},
                                              !.cur = [task |-> p[1], exec |-> p[2], row |-> NoRow]]]
      BY <2>2, Zenon DEF RecoverLock
    <3>3. loop'[n].due = loop[n].due /\ loop'[n].pc \in {"scan", "recovering"}
      <4>1. CASE loop' = [loop EXCEPT ![n].stale = loop[n].stale \ {p}]
        BY <4>1, <3>1, <1>loop DEF LoopState
      <4>2. CASE loop' = [loop EXCEPT ![n] = [@ EXCEPT !.pc = "recovering", !.stale = loop[n].stale \ {p},
                                                !.cur = [task |-> p[1], exec |-> p[2], row |-> NoRow]]]
        BY <4>2, <1>loop DEF LoopState
      <4> QED
        BY <3>2, <4>1, <4>2
    <3> QED
      BY <3>3, <1>less
  <2>3. CASE RecoverRow(n) \/ RecoverUnlock(n) \/ WriteSkip(n)
    <3>1. loop'[n].due = loop[n].due /\ loop'[n].pc \in {"scan", "unlocking"}
      <4>1. CASE RecoverRow(n)
        BY <4>1, <1>loop DEF RecoverRow, LoopState
      <4>2. CASE RecoverUnlock(n) \/ WriteSkip(n)
        <5>1. loop' = [loop EXCEPT ![n] = [@ EXCEPT !.pc = "scan", !.cur = NoCurrent]]
          BY <4>2 DEF RecoverUnlock, WriteSkip
        <5> QED
          BY <5>1, <1>loop DEF LoopState
      <4> QED
        BY <2>3, <4>1, <4>2
    <3> QED
      BY <3>1, <1>less
  <2>4. CASE ScanDue(n)
    <3>1. loop[n].pc = "scan" /\ loop'[n] = [loop[n] EXCEPT !.due = {<<t, row[t]>> : t \in Due}]
      BY <2>4, <1>loop DEF ScanDue, BetweenScans, Scanning
    <3>2. loop'[n].due = {<<t, row[t]>> : t \in Due} /\ loop'[n].pc = "scan"
      BY <3>1, <1>loop DEF LoopState
    <3> QED
      BY <3>2 DEF Due, IsDue
  <2>5. CASE PlanSkip(n)
    <3>1. PICK s \in loop[n].due : \E r \in SkippedRows(s[2]) :
            loop' = [loop EXCEPT ![n] = [@ EXCEPT !.pc = "skip", !.due = loop[n].due \ {s},
                                           !.cur = [task |-> s[1], exec |-> NoExec, row |-> r]]]
      BY <2>5, Zenon DEF PlanSkip
    <3>2. PICK r \in SkippedRows(s[2]) :
            loop' = [loop EXCEPT ![n] = [@ EXCEPT !.pc = "skip", !.due = loop[n].due \ {s},
                                           !.cur = [task |-> s[1], exec |-> NoExec, row |-> r]]]
      BY <3>1, Zenon
    <3>3. s[2] \in Row
      BY <1>loop DEF LoopState
    <3>4. r.retry = s[2].retry /\ r.max = s[2].max
      BY <3>3 DEF SkippedRows, Row
    <3>5. loop'[n].due = loop[n].due \ {s} /\ loop'[n].cur.task = s[1] /\ loop'[n].cur.row = r
      BY <3>2, <1>loop DEF LoopState
    <3> QED
      BY <3>4, <3>5, Zenon
  <2>6. CASE NoWorker(n) \/ LockTask(n) \/ LockBusy(n)
    <3>1. PICK s \in loop[n].due : loop' = [loop EXCEPT ![n].due = @ \ {s}]
      BY <2>6, Zenon DEF NoWorker, LockTask, LockBusy
    <3>2. loop[n].pc = "scan"
      BY <2>6, Zenon DEF NoWorker, LockTask, LockBusy, Scanning
    <3>3. loop'[n].due = loop[n].due \ {s} /\ loop'[n].pc = "scan"
      BY <3>1, <3>2, <1>loop DEF LoopState
    <3> QED
      BY <3>3, <1>less
  <2> QED
    BY <1>1, <2>1, <2>2, <2>3, <2>4, <2>5, <2>6 DEF LoopStep
<1>2. ASSUME NEW m \in Node, LoopStep(m), m # n PROVE Goal
  BY <1>2, <1>same, LoopShape
<1>3. ASSUME NEW m \in Node, NodeStep(m) PROVE Goal
  <2>1. loop'[n] = loop[n] \/ loop'[n] = IdleLoop
    BY <1>3, NodeShape DEF Crashes
  <2>2. IdleLoop.due = {} /\ IdleLoop.pc # "skip"
    BY DEF IdleLoop
  <2> QED
    BY <2>1, <2>2, <1>same, <1>less
<1>4. ASSUME \/ \E m \in Node : RenewerStep(m) \/ \E t \in Task : RequestStep(m, t)
             \/ \E e \in Exec : AttemptStep(e) \/ ManualStep(e)
             \/ (\E t \in Task : ExpireLock(t)) \/ (\E ed \in edit : WriteEdit(ed)) \/ Tick \/ UNCHANGED vars
      PROVE  Goal
  <2>1. UNCHANGED loop
    BY <1>4, RenewerShape, RequestShape, AttemptShape, ManualShape, Zenon DEF ExpireLock, WriteEdit, Tick, vars
  <2> QED
    BY <2>1, <1>same
<1> QED
  BY <1>1, <1>2, <1>3, <1>4 DEF Next, SchedulerNext, DispatcherNext, NodeNext

\* An edit keeps the retry_count it read.
LEMMA EditCopies ==
    ASSUME TypeOK, [Next]_vars, NEW ed \in edit', ed \notin edit
    PROVE  /\ "enable" \in Features \/ "update" \in Features
           /\ ed.task \in Task /\ ed.row.retry = row[ed.task].retry
<1>1. PICK n \in Node, t \in Task : handleEnableTask(n, t) \/ handleUpdateTask(n, t)
  <2>1. ASSUME edit' \subseteq edit PROVE FALSE
    BY <2>1
  <2>2. ASSUME SchedulerNext /\ UNCHANGED dispVars PROVE FALSE
    BY <2>1, <2>2 DEF dispVars
  <2>3. ASSUME NEW n \in Node, NodeStep(n) PROVE FALSE
    BY <2>1, <2>3, Zenon DEF NodeStep, StopNode, CloseServer, StoppedNode, CrashNode, StartNode, dispVars
  <2>4. ASSUME NEW e \in Exec, ManualStep(e) PROVE FALSE
    BY <2>1, <2>4, Zenon DEF ManualStep, ClaimManual, CompleteManual, dispVars
  <2>5. ASSUME NEW d \in edit, WriteEdit(d) PROVE FALSE
    BY <2>1, <2>5, Zenon DEF WriteEdit
  <2>6. ASSUME NEW n \in Node, NEW t \in Task, RequestStep(n, t), ~handleEnableTask(n, t), ~handleUpdateTask(n, t) PROVE FALSE
    BY <2>1, <2>6, Zenon DEF RequestStep, handleSubmitTask, handleCancelTask, CancelRegistered, handleDeleteTask,
          handleRunTaskNow, dispVars
  <2>7. ASSUME UNCHANGED vars PROVE FALSE
    BY <2>1, <2>7 DEF vars
  <2> QED
    BY <2>2, <2>3, <2>4, <2>5, <2>6, <2>7 DEF Next, DispatcherNext, NodeNext
<1>2. row[t] \in Row
  BY DEF TypeOK
<1>3. CASE handleEnableTask(n, t)
  <2>1. PICK r \in EnabledRows(row[t]) : edit' = edit \cup {[op |-> "enable", node |-> n, task |-> t, row |-> r]}
    BY <1>3, Zenon DEF handleEnableTask
  <2>2. ed.task = t /\ ed.row = r
    BY <2>1
  <2>3. r.retry = row[t].retry
    BY <1>2 DEF EnabledRows, Row
  <2> QED
    BY <1>3, <2>2, <2>3 DEF handleEnableTask
<1>4. CASE handleUpdateTask(n, t)
  <2>1. PICK max \in RetryChoices : \E r \in UpdatedRows(row[t], max) :
          edit' = edit \cup {[op |-> "update", node |-> n, task |-> t, row |-> r]}
    BY <1>4, Zenon DEF handleUpdateTask
  <2>2. PICK r \in UpdatedRows(row[t], max) : edit' = edit \cup {[op |-> "update", node |-> n, task |-> t, row |-> r]}
    BY <2>1, Zenon
  <2>3. ed.task = t /\ ed.row = r
    BY <2>2
  <2>4. r.retry = row[t].retry
    BY <1>2 DEF UpdatedRows, Row
  <2> QED
    BY <1>4, <2>3, <2>4 DEF handleUpdateTask
<1> QED
  BY <1>1, <1>3, <1>4

\* An execution works from the row the scan or RunTaskNow read, and keeps that copy to its end.
LEMMA ThreadCopies ==
    ASSUME TypeOK, HolderInv, [Next]_vars, NEW e \in Exec, Busy(att'[e])
    PROVE  \/ Busy(att[e]) /\ att'[e].task = att[e].task /\ att'[e].snap = att[e].snap
           \/ /\ att[e].pc = "new"
              /\ \/ \E n \in Node : \E s \in loop[n].due : att'[e].task = s[1] /\ att'[e].snap = s[2]
                 \/ "run_now" \in Features /\ att'[e].task \in Task /\ att'[e].snap = row[att'[e].task]
<1> DEFINE Goal == \/ Busy(att[e]) /\ att'[e].task = att[e].task /\ att'[e].snap = att[e].snap
                   \/ /\ att[e].pc = "new"
                      /\ \/ \E n \in Node : \E s \in loop[n].due : att'[e].task = s[1] /\ att'[e].snap = s[2]
                         \/ "run_now" \in Features /\ att'[e].task \in Task /\ att'[e].snap = row[att'[e].task]
<1>att. att \in [Exec -> Attempt] /\ att[e] \in Attempt
  BY DEF TypeOK
<1>same. ASSUME att'[e] = att[e] \/ att'[e] = Cancelled(att[e]) \/ att'[e] = Gone("dead") PROVE Goal
  BY SMTT(30), <1>same, <1>att, LocalsKept, FieldsKept DEF Busy
<1>new. ASSUME NEW v, nextExec <= MaxExec, att' = [att EXCEPT ![nextExec] = v], e = nextExec
        PROVE  att[e].pc = "new" /\ att'[e] = v
  BY <1>new, <1>att, ExecsAreNotNoExec, ConstantsAssumption DEF HolderInv, FreshExecs, TypeOK
<1>begin. ASSUME NEW pc, NEW kind, NEW n, NEW t, NEW r
          PROVE  Begin(pc, kind, n, t, r).task = t /\ Begin(pc, kind, n, t, r).snap = r
  BY DEF Begin, NoAttempt
<1>1. ASSUME NEW n \in Node, LoopStep(n) PROVE Goal
  <2>1. CASE UNCHANGED att
    BY <2>1, <1>same
  <2>2. CASE LockTask(n)
    <3>1. PICK s \in loop[n].due : att' = [att EXCEPT ![nextExec] = Begin("claim", "sched", n, s[1], s[2])]
      BY <2>2, Zenon DEF LockTask
    <3>2. nextExec <= MaxExec
      BY <2>2 DEF LockTask
    <3>3. CASE e = nextExec
      <4>1. att[e].pc = "new" /\ att'[e] = Begin("claim", "sched", n, s[1], s[2])
        BY <3>1, <3>2, <3>3, <1>new, Zenon
      <4>2. att'[e].task = s[1] /\ att'[e].snap = s[2]
        BY SMTT(30), <4>1, <1>begin
      <4> QED
        BY <4>1, <4>2, Zenon
    <3>4. CASE e # nextExec
      BY <3>1, <3>4, <1>att, <1>same
    <3> QED
      BY <3>3, <3>4
  <2>3. CASE LockBusy(n) /\ att' # att
    <3>1. att' = [att EXCEPT ![nextExec] = Gone("done")]
      BY <2>3, Zenon DEF LockBusy
    <3>2. e # nextExec
      BY <3>1, <1>att, LocalsKept
    <3> QED
      BY <3>1, <3>2, <1>att, <1>same
  <2>4. UNCHANGED att \/ LockTask(n) \/ LockBusy(n)
    BY <1>1, Zenon DEF LoopStep, ScanStale, RecoverLock, RecoverRow, RecoverUnlock, ScanDue, PlanSkip, WriteSkip, NoWorker
  <2> QED
    BY <2>1, <2>2, <2>3, <2>4
<1>2. ASSUME NEW f \in Exec, AttemptStep(f) \/ ManualStep(f) PROVE Goal
  <2>1. Busy(att[f])
    BY <1>2 DEF AttemptStep, ManualStep, ClaimTask, EnqueueTask, RestoreTask, UnlockTask, StartTask, FinishRpc,
         RecordHistory, CompleteTask, CleanupTask, ClaimManual, CompleteManual, Busy
  <2>2. \/ \E pc : att' = [att EXCEPT ![f] = At(@, pc)]
        \/ \E out : att' = [att EXCEPT ![f] = Ended(@, out)]
        \/ att' = [att EXCEPT ![f] = Gone("done")]
    BY <1>2, Zenon DEF AttemptStep, ManualStep, ClaimTask, EnqueueTask, RestoreTask, UnlockTask, StartTask, FinishRpc,
         RecordHistory, CompleteTask, CleanupTask, ClaimManual, CompleteManual
  <2>3. CASE f # e
    BY <2>2, <2>3, <1>att, <1>same
  <2>4. CASE f = e
    <3>1. \/ \E pc : att'[e] = At(att[e], pc)
          \/ \E out : att'[e] = Ended(att[e], out)
          \/ att'[e] = Gone("done")
      BY <2>2, <2>4, <1>att, Zenon
    <3>2. att'[e].task = att[e].task /\ att'[e].snap = att[e].snap
      BY SMTT(30), <3>1, <1>att, LocalsKept, FieldsKept
    <3> QED
      BY <2>1, <2>4, <3>2
  <2> QED
    BY <2>3, <2>4
<1>3. ASSUME NEW n \in Node, NEW t \in Task, RequestStep(n, t) PROVE Goal
  <2>1. CASE handleRunTaskNow(n, t)
    <3>1. /\ att' = [att EXCEPT ![nextExec] = Begin("manual", "manual", n, t, row[t])]
          /\ nextExec <= MaxExec /\ "run_now" \in Features
      BY <2>1 DEF handleRunTaskNow
    <3>2. CASE e = nextExec
      <4>1. att[e].pc = "new" /\ att'[e] = Begin("manual", "manual", n, t, row[t])
        BY <3>1, <3>2, <1>new, Zenon
      <4>2. att'[e].task = t /\ att'[e].snap = row[t]
        BY <4>1, <1>begin
      <4> QED
        BY <3>1, <4>1, <4>2
    <3>3. CASE e # nextExec
      BY <3>1, <3>3, <1>att, <1>same
    <3> QED
      BY <3>2, <3>3
  <2>2. CASE ~handleRunTaskNow(n, t)
    <3>1. att'[e] = att[e] \/ att'[e] = Cancelled(att[e])
      BY <1>3, <2>2, Zenon DEF RequestStep, handleSubmitTask, handleCancelTask, CancelRegistered, handleEnableTask,
           handleUpdateTask, handleDeleteTask
    <3> QED
      BY <3>1, <1>same
  <2> QED
    BY <2>1, <2>2
<1>4. ASSUME \/ \E n \in Node : RenewerStep(n) \/ NodeStep(n)
             \/ (\E t \in Task : ExpireLock(t)) \/ (\E ed \in edit : WriteEdit(ed)) \/ Tick \/ UNCHANGED vars
      PROVE  Goal
  <2>1. att'[e] = att[e] \/ att'[e] = Cancelled(att[e]) \/ att'[e] = Gone("dead")
    BY <1>4, Zenon DEF RenewerStep, RenewLease, ApplyLost, NodeStep, StopNode, CloseServer, StoppedNode, CrashNode, StartNode,
         ExpireLock, WriteEdit, Tick, vars
  <2> QED
    BY <2>1, <1>same
<1> QED
  BY <1>1, <1>2, <1>3, <1>4 DEF Next, SchedulerNext, DispatcherNext, NodeNext

\* Where RunTaskNow is not used every execution is a scheduled one.
LEMMA KindsKept ==
    ASSUME "run_now" \notin Features, TypeOK, [Next]_vars, NEW e \in Exec, att[e].kind = "sched", att[e].pc # "manual"
    PROVE  att'[e].kind = "sched" /\ att'[e].pc # "manual"
<1>1. ASSUME NEW n \in Node, LoopStep(n) PROVE att'[e].kind = "sched" /\ att'[e].pc # "manual"
  BY <1>1, LoopShape DEF Draws, Leaves
<1>2. ASSUME NEW f \in Exec, AttemptStep(f) PROVE att'[e].kind = "sched" /\ att'[e].pc # "manual"
  BY <1>2, AttemptShape DEF Moves, Leaves, SameWork, Locked
<1>3. ASSUME NEW f \in Exec, ManualStep(f) PROVE att'[e].kind = "sched" /\ att'[e].pc # "manual"
  BY <1>3, ManualShape DEF Moves, Leaves, SameWork
<1>4. ASSUME NEW n \in Node, NEW t \in Task, RequestStep(n, t) PROVE att'[e].kind = "sched" /\ att'[e].pc # "manual"
  BY <1>4, RequestShape DEF Stays, SameWork
<1>5. ASSUME NEW n \in Node, RenewerStep(n) PROVE att'[e].kind = "sched" /\ att'[e].pc # "manual"
  BY <1>5, RenewerShape DEF Stays, SameWork
<1>6. ASSUME NEW n \in Node, NodeStep(n) PROVE att'[e].kind = "sched" /\ att'[e].pc # "manual"
  BY <1>6, NodeShape DEF Crashes, Gone, NoAttempt
<1>7. ASSUME (\E t \in Task : ExpireLock(t)) \/ (\E ed \in edit : WriteEdit(ed)) \/ Tick \/ UNCHANGED vars
      PROVE  att'[e].kind = "sched" /\ att'[e].pc # "manual"
  BY <1>7 DEF ExpireLock, WriteEdit, Tick, vars
<1> QED
  BY <1>1, <1>2, <1>3, <1>4, <1>5, <1>6, <1>7 DEF Next, SchedulerNext, DispatcherNext, NodeNext

-----------------------------------------------------------------------------
(* The retry budget *)

\* A completion charges at most one retry, for an execution that did not succeed, and leaves the task
\* scheduled only with a retry to spare.
LEMMA NextRowsCharge ==
    ASSUME NEW a \in Attempt, NEW r \in NextRows(a)
    PROVE  /\ r.retry = 0 \/ r.retry = a.snap.retry \/ (a.out # "ok" /\ r.retry = a.snap.retry + 1)
           /\ r.status = "scheduled" /\ HasRetries(a.snap) => r.retry < DefaultRetries
<1>1. a.snap \in Row /\ a.snap.retry \in Nat /\ a.snap.max \in Nat /\ DefaultRetries \in Nat /\ DefaultRetries > 0
  BY ConstantsAssumption DEF Attempt, Row
<1>2. \A st, next, rc : /\ [a.snap EXCEPT !.status = st, !.next = next, !.retry = rc].status = st
                        /\ [a.snap EXCEPT !.status = st, !.next = next, !.retry = rc].retry = rc
  BY <1>1 DEF Row
<1>3. \E st, next, rc :
        /\ r = [a.snap EXCEPT !.status = st, !.next = next, !.retry = rc]
        /\ \/ rc = a.snap.retry \/ rc = 0
           \/ a.out # "ok" /\ rc = a.snap.retry + 1 /\ (st = "disabled" \/ ~Exhausted(a.snap.retry + 1, a.snap.max))
  BY Zenon DEF NextRows
<1>4. \/ r.retry = a.snap.retry \/ r.retry = 0
      \/ a.out # "ok" /\ r.retry = a.snap.retry + 1 /\ (r.status = "disabled" \/ ~Exhausted(a.snap.retry + 1, a.snap.max))
  BY <1>2, <1>3
<1> QED
  BY SMTT(30), <1>1, <1>4 DEF HasRetries, Exhausted

\* What BudgetInv says of a row.
InBudget(r) ==
    /\ Exists(r) => r.max = DefaultRetries
    /\ r.status \in {"scheduled", "running"} => HasRetries(r)

\* The statements keep a row in its budget, where they write a retry_count below max_retries.
LEMMA StatementsInBudget ==
    ASSUME NEW r \in Row, InBudget(r)
    PROVE  /\ \A next \in Nat : InBudget(addTask(next, DefaultRetries))
           /\ InBudget(cancelTask(r)) /\ InBudget(deleteTask(r))
           /\ \A e \in Nat : InBudget(recoverTaskExecution(r, e)) /\ (r.status = "scheduled" => InBudget(claimTaskExecution(r, e)))
           /\ \A e \in Nat, status \in {"scheduled", "disabled"}, next \in Nat, retry \in Nat :
                (status = "scheduled" => retry < DefaultRetries) => InBudget(completeTaskExecution(r, e, status, next, retry))
           /\ \A status \in {"scheduled", "disabled"}, next \in Nat, retry \in Nat :
                (status = "scheduled" => retry < DefaultRetries) => InBudget(updateTaskRuntime(r, status, next, retry))
<1> USE DEF InBudget, HasRetries, Exists, Stored
<1>1. \A next \in Nat : InBudget(addTask(next, DefaultRetries))
  BY ConstantsAssumption DEF addTask
<1>2. InBudget(cancelTask(r)) /\ InBudget(deleteTask(r))
  BY DEF cancelTask, deleteTask, NoRow, NotRunning, Row
<1>3. \A e \in Nat : InBudget(recoverTaskExecution(r, e)) /\ (r.status = "scheduled" => InBudget(claimTaskExecution(r, e)))
  BY DEF recoverTaskExecution, claimTaskExecution, Row
<1>4. \A e \in Nat, status \in {"scheduled", "disabled"}, next \in Nat, retry \in Nat :
        (status = "scheduled" => retry < DefaultRetries) => InBudget(completeTaskExecution(r, e, status, next, retry))
  BY DEF completeTaskExecution, Row
<1>5. \A status \in {"scheduled", "disabled"}, next \in Nat, retry \in Nat :
        (status = "scheduled" => retry < DefaultRetries) => InBudget(updateTaskRuntime(r, status, next, retry))
  BY DEF updateTaskRuntime, NotRunning, Row
<1> HIDE DEF InBudget
<1> QED
  BY <1>1, <1>2, <1>3, <1>4, <1>5

\* Every row stays in its budget.
LEMMA BudgetRow ==
    ASSUME TypeOK, HolderInv, BudgetInv, [Next]_vars, NEW t \in Task
    PROVE  InBudget(row'[t])
<1>row. row[t] \in Row /\ InBudget(row[t])
  BY DEF TypeOK, BudgetInv, InBudget
<1>1. CASE row'[t] = row[t]
  BY <1>1, <1>row
<1>2. ASSUME NEW e \in Exec, WrittenByThread(t, e) PROVE InBudget(row'[t])
  <2> DEFINE a == att[e]
  <2>1. e \in Nat /\ a \in Attempt /\ a.pc # "manual" /\ a.kind = "sched"
    BY ExecsAreNotNoExec DEF TypeOK, BudgetInv
  <2>2. CASE a.pc = "claim"
    BY <1>2, <1>row, <2>1, <2>2, StatementsInBudget, Zenon DEF WrittenByThread
  <2>3. CASE a.pc \in {"restore", "complete"}
    <3>1. HasRetries(a.snap) /\ a.snap.retry \in Nat /\ a.snap.next \in Nat /\ a.snap.max \in Nat
      BY <2>1, <2>3 DEF BudgetInv, Busy, Attempt, Row
    <3>2. a.snap.retry < DefaultRetries
      BY <3>1 DEF HasRetries
    <3>3. CASE a.pc = "restore"
      <4>1. row'[t] = completeTaskExecution(row[t], e, "scheduled", a.snap.next, a.snap.retry)
        BY <1>2, <3>3, Zenon DEF WrittenByThread
      <4> QED
        BY <4>1, <1>row, <2>1, <3>1, <3>2, StatementsInBudget
    <3>4. CASE a.pc = "complete"
      <4>1. PICK r \in NextRows(a) : row'[t] = completeTaskExecution(row[t], e, r.status, r.next, r.retry)
        BY <1>2, <2>1, <3>4, Zenon DEF WrittenByThread
      <4>2. r.status \in {"scheduled", "disabled"} /\ r.next \in Nat /\ r.retry \in Nat
        BY <2>1, NextRowsTyped, NextRowsIdle DEF Row, Idle
      <4>3. r.status = "scheduled" => r.retry < DefaultRetries
        BY <2>1, <3>1, NextRowsCharge
      <4> QED
        BY <4>1, <4>2, <4>3, <1>row, <2>1, StatementsInBudget
    <3> QED
      BY <2>3, <3>3, <3>4
  <2> QED
    BY <1>2, <2>1, <2>2, <2>3, Zenon DEF WrittenByThread
<1>3. ASSUME NEW n \in Node, WrittenByLoop(t, n) PROVE InBudget(row'[t])
  <2> DEFINE c == loop[n].cur
  <2>1. c.exec \in Nat /\ c.row \in Row /\ c.row.next \in Nat /\ c.row.retry \in Nat /\ c.row.max \in Nat
    BY DEF TypeOK, LoopState, Current, Row
  <2>2. CASE loop[n].pc = "recovering"
    BY <1>3, <1>row, <2>1, <2>2, StatementsInBudget, Zenon DEF WrittenByLoop
  <2>3. CASE loop[n].pc = "skip"
    <3>1. c.row.status \in {"scheduled", "disabled"} /\ HasRetries(c.row)
      BY <2>3 DEF HolderInv, PlannedRows, Idle, BudgetInv
    <3>2. c.row.retry < DefaultRetries
      BY <2>1, <3>1 DEF HasRetries
    <3>3. row'[t] = updateTaskRuntime(row[t], c.row.status, c.row.next, c.row.retry)
      BY <1>3, <2>3, Zenon DEF WrittenByLoop
    <3> QED
      BY <1>row, <2>1, <3>1, <3>2, <3>3, StatementsInBudget
  <2> QED
    BY <1>3, <2>2, <2>3, Zenon DEF WrittenByLoop
<1>4. ASSUME WrittenByRequest(t) PROVE InBudget(row'[t])
  <2>1. edit = {}
    BY DEF BudgetInv
  <2> QED
    BY <1>4, <1>row, <2>1, StatementsInBudget, Zenon DEF WrittenByRequest
<1> QED
  BY <1>1, <1>2, <1>3, <1>4, RowWriters

\* BudgetInv is an invariant where EnableTask, UpdateTask and RunTaskNow are not used.
LEMMA BudgetNext ==
    ASSUME "enable" \notin Features, "update" \notin Features, "run_now" \notin Features,
           TypeOK, HolderInv, BudgetInv, [Next]_vars
    PROVE  BudgetInv'
<1>1. edit' = {}
  BY EditCopies DEF BudgetInv
<1>2. \A e \in Exec : att'[e].kind = "sched" /\ att'[e].pc # "manual"
  BY KindsKept DEF BudgetInv
<1>3. \A t \in Task : InBudget(row'[t])
  BY BudgetRow
<1>rows. \A t \in Task : row[t].status = "scheduled" => HasRetries(row[t])
  BY DEF BudgetInv
<1>due. \A n \in Node : \A s \in loop[n].due : HasRetries(s[2])
  BY DEF BudgetInv
<1>4. ASSUME NEW n \in Node, NEW s \in loop'[n].due PROVE HasRetries(s[2])
  BY <1>4, <1>rows, <1>due, LoopCopies
<1>5. ASSUME NEW n \in Node, loop'[n].pc = "skip" PROVE HasRetries(loop'[n].cur.row)
  <2>1. \/ loop[n].pc = "skip" /\ loop'[n].cur = loop[n].cur
        \/ \E s \in loop[n].due : loop'[n].cur.row.retry = s[2].retry /\ loop'[n].cur.row.max = s[2].max
    BY <1>5, LoopCopies
  <2> QED
    BY <2>1, <1>due DEF BudgetInv, HasRetries
<1>6. ASSUME NEW e \in Exec, Busy(att'[e]) PROVE HasRetries(att'[e].snap)
  <2>1. \/ Busy(att[e]) /\ att'[e].snap = att[e].snap
        \/ \E n \in Node : \E s \in loop[n].due : att'[e].snap = s[2]
    BY <1>6, ThreadCopies
  <2> QED
    BY <2>1, <1>due DEF BudgetInv
<1> QED
  BY <1>1, <1>2, <1>3, <1>4, <1>5, <1>6 DEF BudgetInv, InBudget

\* Initially there is no row and no copy of one.
LEMMA BudgetInit == Init => BudgetInv
<1> SUFFICES ASSUME Init PROVE BudgetInv
  OBVIOUS
<1>1. /\ att = [e \in Exec |-> NoAttempt] /\ row = [t \in Task |-> NoRow] /\ loop = [n \in Node |-> IdleLoop] /\ edit = {}
  BY DEF Init, SchedulerInit
<1> QED
  BY <1>1 DEF BudgetInv, Busy, NoAttempt, NoRow, IdleLoop, Exists, Stored

\* A task that has used up its retries is never left scheduled, through crashes, recoveries, lost locks, cancellations,
\* skipped slots and stopping nodes, where no EnableTask, UpdateTask or RunTaskNow request, which keep the retry_count
\* they read, is served (next_retry_count where a pool thread completes its task, src/scheduler/task_scheduler.cpp).
THEOREM BudgetIsKept ==
    ASSUME "enable" \notin Features, "update" \notin Features, "run_now" \notin Features
    PROVE  Spec => []RetryBudget
<1>1. TypeOK /\ HolderInv /\ BudgetInv /\ [Next]_vars => BudgetInv'
  BY BudgetNext
<1>2. BudgetInv => RetryBudget
  BY DEF BudgetInv, RetryBudget, HasRetries
<1> QED
  BY <1>1, <1>2, BudgetInit, TypeCorrect, HoldersAreClaimed, PTL DEF Spec

-----------------------------------------------------------------------------
(* The retries and the history *)

\* What comes after an execution has been recorded.
Late == {"complete", "cleanup", "done", "dead"}

\* Only RecordHistory takes a thread to its completion, and no thread goes back behind its record.
LEMMA ThreadsAreRecorded ==
    ASSUME TypeOK, HolderInv, [Next]_vars, \A f \in Exec : ~RecordHistory(f), NEW e \in Exec
    PROVE  /\ UNCHANGED hist
           /\ att'[e].pc \notin Late => att[e].pc \notin Late
           /\ att'[e].pc = "complete" =>
                att[e].pc = "complete" /\ att'[e].task = att[e].task /\ att'[e].out = att[e].out
<1> DEFINE Goal == /\ att'[e].pc \notin Late => att[e].pc \notin Late
                   /\ att'[e].pc = "complete" =>
                        att[e].pc = "complete" /\ att'[e].task = att[e].task /\ att'[e].out = att[e].out
<1>att. att[e] \in Attempt
  BY DEF TypeOK
<1>same. ASSUME att'[e] = att[e] \/ att'[e] = Cancelled(att[e]) \/ att'[e] = Gone("dead") PROVE Goal
  <2>1. Cancelled(att[e]).pc = att[e].pc /\ Cancelled(att[e]).task = att[e].task /\ Cancelled(att[e]).out = att[e].out
    BY <1>att DEF Cancelled, Attempt
  <2>2. Gone("dead").pc = "dead"
    BY LocalsKept
  <2> QED
    BY <1>same, <2>1, <2>2 DEF Late
<1>1. ASSUME NEW n \in Node, LoopStep(n) PROVE UNCHANGED hist /\ Goal
  <2>1. UNCHANGED hist
    BY <1>1, Zenon DEF LoopStep, ScanStale, RecoverLock, RecoverRow, RecoverUnlock, ScanDue, PlanSkip, WriteSkip,
       NoWorker, LockTask, LockBusy, storeVars
  <2>2. \/ att'[e] = att[e]
        \/ e = nextExec /\ att'[e].pc \in {"claim", "done"}
    BY <1>1, LoopShape DEF Draws, Leaves
  <2>3. e = nextExec => att[e].pc = "new"
    BY SMTT(30), ExecsAreNotNoExec, ConstantsAssumption DEF HolderInv, FreshExecs, TypeOK
  <2> QED
    BY <2>1, <2>2, <2>3, <1>same DEF Late
<1>2. ASSUME NEW f \in Exec, AttemptStep(f) PROVE UNCHANGED hist /\ Goal
  <2>1. UNCHANGED hist
    BY <1>2, Zenon DEF AttemptStep, ClaimTask, EnqueueTask, RestoreTask, UnlockTask, StartTask, FinishRpc,
       CompleteTask, CleanupTask, storeVars
  <2>2. \/ att[f].pc \notin Late /\ \E pc \in PCs \ Late : Moves(f, pc)
        \/ Moves(f, "cleanup") \/ Leaves(f)
    <3>1. CASE ClaimTask(f) \/ EnqueueTask(f) \/ RestoreTask(f)
      <4>1. att[f].pc \notin Late
        BY <3>1 DEF ClaimTask, EnqueueTask, RestoreTask, Late
      <4>2. Moves(f, "unlock") \/ Moves(f, "claimed") \/ Moves(f, "restore") \/ Moves(f, "queued")
        BY <3>1, MovesBy, Zenon DEF ClaimTask, EnqueueTask, RestoreTask
      <4> QED
        BY <4>1, <4>2 DEF PCs, Late
    <3>2. CASE StartTask(f) \/ \E out \in {"ok", "failed"} : FinishRpc(f, out)
      <4>1. att[f].pc \notin Late
        BY <3>2 DEF StartTask, FinishRpc, Late
      <4>2. Moves(f, "rpc") \/ Moves(f, "record")
        BY <3>2, MovesBy, Zenon DEF StartTask, FinishRpc
      <4> QED
        BY <4>1, <4>2 DEF PCs, Late
    <3>3. CASE CompleteTask(f) \/ UnlockTask(f) \/ CleanupTask(f)
      BY <3>3, MovesBy, Zenon DEF CompleteTask, UnlockTask, CleanupTask
    <3> QED
      BY <1>2, <3>1, <3>2, <3>3 DEF AttemptStep
  <2>3. CASE f = e
    BY <2>1, <2>2, <2>3 DEF Moves, Leaves, Late
  <2>4. CASE f # e
    BY <2>1, <2>2, <2>4, <1>same DEF Moves, Leaves
  <2> QED
    BY <2>1, <2>3, <2>4
<1>3. ASSUME NEW f \in Exec, ManualStep(f) PROVE UNCHANGED hist /\ Goal
  <2>1. UNCHANGED hist
    BY <1>3 DEF ManualStep, ClaimManual, CompleteManual
  <2>2. CASE f = e
    BY <1>3, <2>1, <2>2, ManualShape DEF Moves, Leaves, Late
  <2>3. CASE f # e
    BY <1>3, <2>1, <2>3, <1>same, ManualShape DEF Moves, Leaves
  <2> QED
    BY <2>1, <2>2, <2>3
<1>4. ASSUME NEW n \in Node, NEW t \in Task, RequestStep(n, t) PROVE UNCHANGED hist /\ Goal
  <2>1. UNCHANGED hist
    BY <1>4, Zenon DEF RequestStep, handleSubmitTask, handleCancelTask, CancelRegistered, handleEnableTask,
         handleUpdateTask, handleDeleteTask, handleRunTaskNow, storeVars
  <2>2. CASE handleRunTaskNow(n, t)
    <3>1. att' = [att EXCEPT ![nextExec] = Begin("manual", "manual", n, t, row[t])] /\ nextExec <= MaxExec
      BY <2>2 DEF handleRunTaskNow
    <3>2. CASE e # nextExec
      BY <2>1, <3>1, <3>2, <1>same DEF TypeOK
    <3>3. CASE e = nextExec
      <4>1. att[e].pc = "new"
        BY <3>3, ExecsAreNotNoExec, ConstantsAssumption DEF HolderInv, FreshExecs, TypeOK
      <4>2. att'[e].pc = "manual"
        <5>1. Begin("manual", "manual", n, t, row[t]).pc = "manual"
          BY DEF Begin, NoAttempt
        <5> QED
          BY <3>1, <3>3, <5>1 DEF TypeOK
      <4> QED
        BY <2>1, <4>1, <4>2 DEF Late
    <3> QED
      BY <2>1, <3>2, <3>3
  <2>3. CASE ~handleRunTaskNow(n, t)
    <3>1. att'[e] = att[e] \/ att'[e] = Cancelled(att[e])
      BY <1>4, <2>3, Zenon DEF RequestStep, handleSubmitTask, handleCancelTask, CancelRegistered, handleEnableTask,
           handleUpdateTask, handleDeleteTask
    <3> QED
      BY <2>1, <3>1, <1>same
  <2> QED
    BY <2>2, <2>3
<1>5. ASSUME \/ \E n \in Node : RenewerStep(n) \/ NodeStep(n)
             \/ (\E t \in Task : ExpireLock(t)) \/ (\E ed \in edit : WriteEdit(ed)) \/ Tick \/ UNCHANGED vars
      PROVE  UNCHANGED hist /\ Goal
  <2>1. UNCHANGED hist
    BY <1>5, Zenon DEF RenewerStep, RenewLease, ApplyLost, NodeStep, StopNode, CloseServer, StoppedNode, CrashNode, StartNode,
         ExpireLock, WriteEdit, Tick, storeVars, vars
  <2>2. att'[e] = att[e] \/ att'[e] = Cancelled(att[e]) \/ att'[e] = Gone("dead")
    BY <1>5, Zenon DEF RenewerStep, RenewLease, ApplyLost, NodeStep, StopNode, CloseServer, StoppedNode, CrashNode, StartNode,
         ExpireLock, WriteEdit, Tick, vars
  <2> QED
    BY <2>1, <2>2, <1>same
<1> QED
  BY <1>1, <1>2, <1>3, <1>4, <1>5 DEF Next, SchedulerNext, DispatcherNext, NodeNext

\* Where no database call fails, what is recorded is what the execution came to, and a record is written once.
LEMMA RecordedKept ==
    ASSUME "db" \notin Features, TypeOK, HolderInv, Recorded, [Next]_vars
    PROVE  Recorded' /\ \A e \in Exec : hist'[e] = hist[e] \/ (hist[e] = NoRecord /\ att[e].pc = "record")
<1>1. CASE \E f \in Exec : RecordHistory(f)
  <2>1. PICK f \in Exec : RecordHistory(f)
    BY <1>1
  <2>2. /\ att[f].pc = "record" /\ att' = [att EXCEPT ![f] = At(@, "complete")]
        /\ hist' = [hist EXCEPT ![f] = [task |-> att[f].task, out |-> att[f].out]]
    BY <2>1 DEF RecordHistory, Fault
  <2>3. /\ att'[f] = At(att[f], "complete") /\ \A e \in Exec : e # f => att'[e] = att[e] /\ hist'[e] = hist[e]
        /\ hist'[f] = [task |-> att[f].task, out |-> att[f].out] /\ att[f] \in Attempt
    BY <2>2 DEF TypeOK
  <2>4. att'[f].pc = "complete" /\ att'[f].task = att[f].task /\ att'[f].out = att[f].out
    BY <2>3 DEF At, Attempt
  <2>5. hist[f] = NoRecord
    BY <2>2 DEF Recorded
  <2> QED
    BY SMTT(30), <2>2, <2>3, <2>4, <2>5 DEF Recorded
<1>2. CASE \A f \in Exec : ~RecordHistory(f)
  <2>1. \A e \in Exec : /\ hist'[e] = hist[e]
                        /\ att'[e].pc \notin Late => att[e].pc \notin Late
                        /\ att'[e].pc = "complete" =>
                             att[e].pc = "complete" /\ att'[e].task = att[e].task /\ att'[e].out = att[e].out
    BY <1>2, ThreadsAreRecorded
  <2> QED
    BY <2>1 DEF Recorded, Late
<1> QED
  BY <1>1, <1>2

\* Counting executions.
LEMMA ExecSets ==
    /\ \A T \in SUBSET Exec : \A S \in SUBSET T :
         Cardinality(S) \in Nat /\ Cardinality(T) \in Nat /\ Cardinality(S) <= Cardinality(T)
    /\ \A T \in SUBSET Exec : \A e \in T : Cardinality(T) = Cardinality(T \ {e}) + 1
<1>1. IsFiniteSet(Exec)
  BY FS_Interval, ConstantsAssumption DEF Exec
<1>2. ASSUME NEW T \in SUBSET Exec PROVE IsFiniteSet(T) /\ Cardinality(T) \in Nat
  BY <1>1, FS_Subset, FS_CardinalityType
<1>3. ASSUME NEW T \in SUBSET Exec, NEW S \in SUBSET T
      PROVE  Cardinality(S) \in Nat /\ Cardinality(T) \in Nat /\ Cardinality(S) <= Cardinality(T)
  <2>1. IsFiniteSet(T) /\ Cardinality(T) \in Nat /\ S \in SUBSET Exec
    BY <1>2
  <2>2. Cardinality(S) <= Cardinality(T)
    BY <2>1, FS_Subset
  <2> QED
    BY <1>2, <2>1, <2>2
<1>4. ASSUME NEW T \in SUBSET Exec, NEW e \in T PROVE Cardinality(T) = Cardinality(T \ {e}) + 1
  <2>1. IsFiniteSet(T) /\ Cardinality(T) \in Nat
    BY <1>2
  <2>2. Cardinality(T \ {e}) = Cardinality(T) - 1
    BY <2>1, FS_RemoveElement
  <2> QED
    BY <2>1, <2>2
<1> QED
  BY <1>3, <1>4

\* What is charged to a set of failures is charged to a larger one.
LEMMA ChargedMore ==
    ASSUME NEW r, r.retry \in Nat, NEW T \in SUBSET Exec, NEW S \in SUBSET T, Charged(r, S)
    PROVE  Charged(r, T)
<1>1. Cardinality(S) \in Nat /\ Cardinality(T) \in Nat /\ Cardinality(S) <= Cardinality(T)
  BY ExecSets
<1> QED
  BY <1>1 DEF Charged

\* Whatever is written into a row is covered by the failures recorded so far.
LEMMA ChargedRow ==
    ASSUME TypeOK, RecordInv, [Next]_vars, NEW t \in Task
    PROVE  row'[t].retry \in Nat /\ row'[t].retry <= Cardinality(Failed(hist, t))
<1> DEFINE F == Failed(hist, t)  Fits(k) == k \in Nat /\ k <= Cardinality(F)
<1>row. row[t] \in Row /\ Fits(row[t].retry)
  BY DEF TypeOK, RecordInv, Charged, Row
<1>sets. F \in SUBSET Exec /\ Cardinality(F) \in Nat
  BY ExecSets DEF Failed
<1>zero. Fits(0)
  BY <1>sets
<1> HIDE DEF F, Fits
<1>1. ASSUME row'[t] = row[t] PROVE Fits(row'[t].retry)
  BY <1>1, <1>row
<1>2. ASSUME NEW e \in Exec, WrittenByThread(t, e) PROVE Fits(row'[t].retry)
  <2> DEFINE a == att[e]
  <2>1. a.task = t /\ a \in Attempt /\ a.snap.retry \in Nat
    BY <1>2 DEF WrittenByThread, TypeOK, Attempt, Row
  <2>2. Busy(a)
    BY <1>2 DEF WrittenByThread, Busy
  <2>3. a.snap.retry <= Cardinality(F \ {e})
    BY <2>1, <2>2 DEF RecordInv, Charged, F
  <2>4. Cardinality(F \ {e}) \in Nat /\ Cardinality(F \ {e}) <= Cardinality(F)
    BY <1>sets, ExecSets
  <2>5. Fits(a.snap.retry)
    BY <1>sets, <2>1, <2>3, <2>4 DEF Fits
  <2>6. ASSUME a.pc = "complete", a.out # "ok" PROVE Fits(a.snap.retry + 1)
    <3>1. hist[e] = [task |-> t, out |-> a.out]
      BY <2>1, <2>6 DEF RecordInv, Recorded
    <3>2. e \in F
      BY <2>6, <3>1 DEF Failed, F
    <3>3. Cardinality(F) = Cardinality(F \ {e}) + 1
      BY <1>sets, <3>2, ExecSets
    <3> QED
      BY <1>sets, <2>1, <2>3, <2>4, <3>3 DEF Fits
  <2>7. CASE a.pc = "complete" /\ a.kind = "sched"
    <3>1. PICK r \in NextRows(a) : row'[t] = completeTaskExecution(row[t], e, r.status, r.next, r.retry)
      BY <1>2, <2>7, Zenon DEF WrittenByThread
    <3>2. r.retry = 0 \/ r.retry = a.snap.retry \/ (a.out # "ok" /\ r.retry = a.snap.retry + 1)
      BY <2>1, NextRowsCharge
    <3>3. Fits(r.retry)
      BY <1>zero, <2>5, <2>6, <2>7, <3>2
    <3>4. row'[t].retry \in {row[t].retry, r.retry}
      BY <1>row, <3>1 DEF completeTaskExecution, Row
    <3> QED
      BY <1>row, <3>3, <3>4
  <2>8. CASE ~(a.pc = "complete" /\ a.kind = "sched")
    <3>1. \/ row'[t] = claimTaskExecution(row[t], e)
          \/ \E status : row'[t] = completeTaskExecution(row[t], e, status, a.snap.next, a.snap.retry)
      BY <1>2, <2>8, Zenon DEF WrittenByThread
    <3>2. row'[t].retry \in {row[t].retry, a.snap.retry}
      BY <1>row, <3>1 DEF claimTaskExecution, completeTaskExecution, Row
    <3> QED
      BY <1>row, <2>5, <3>2
  <2> QED
    BY <2>7, <2>8
<1>3. ASSUME NEW n \in Node, WrittenByLoop(t, n) PROVE Fits(row'[t].retry)
  <2> DEFINE c == loop[n].cur
  <2>1. CASE loop[n].pc = "recovering"
    <3>1. row'[t] = recoverTaskExecution(row[t], c.exec)
      BY <1>3, <2>1, Zenon DEF WrittenByLoop
    <3> QED
      BY <1>row, <3>1 DEF recoverTaskExecution, Row
  <2>2. CASE loop[n].pc = "skip"
    <3>1. c.task = t /\ row'[t] = updateTaskRuntime(row[t], c.row.status, c.row.next, c.row.retry)
      BY <1>3, <2>2, Zenon DEF WrittenByLoop
    <3>2. c.row.retry \in Nat
      BY DEF TypeOK, LoopState, Current, Row
    <3>3. Fits(c.row.retry)
      BY <2>2, <3>1, <3>2 DEF RecordInv, Charged, Fits, F
    <3>4. row'[t].retry \in {row[t].retry, c.row.retry}
      BY <1>row, <3>1 DEF updateTaskRuntime, Row
    <3> QED
      BY <1>row, <3>3, <3>4
  <2> QED
    BY <1>3, <2>1, <2>2, Zenon DEF WrittenByLoop
<1>4. ASSUME WrittenByRequest(t) PROVE Fits(row'[t].retry)
  <2>1. CASE \E ed \in edit : LET r == ed.row IN
               /\ ed \notin edit' /\ ed.task = t
               /\ \/ row'[t] = updateTaskRuntime(row[t], r.status, r.next, r.retry)
                  \/ row'[t] = updateTaskDefinition(row[t], r.status, r.next, r.retry, r.max)
    <3>1. PICK ed \in edit : LET r == ed.row IN
            /\ ed.task = t
            /\ \/ row'[t] = updateTaskRuntime(row[t], r.status, r.next, r.retry)
               \/ row'[t] = updateTaskDefinition(row[t], r.status, r.next, r.retry, r.max)
      BY <2>1, Zenon
    <3>2. ed.row.retry \in Nat
      BY DEF TypeOK, Edit, Row
    <3>3. Fits(ed.row.retry)
      BY <3>1, <3>2 DEF RecordInv, Charged, Fits, F
    <3>4. row'[t].retry \in {row[t].retry, ed.row.retry}
      BY <1>row, <3>1 DEF updateTaskRuntime, updateTaskDefinition, Row
    <3> QED
      BY <1>row, <3>3, <3>4
  <2>2. CASE \/ \E next \in Nat : row'[t] = addTask(next, DefaultRetries)
             \/ row'[t] = cancelTask(row[t]) \/ row'[t] = deleteTask(row[t])
    <3>1. row'[t].retry \in {0, row[t].retry}
      <4>1. CASE \E next \in Nat : row'[t] = addTask(next, DefaultRetries)
        BY <4>1 DEF addTask
      <4>2. CASE row'[t] = cancelTask(row[t])
        BY <1>row, <4>2 DEF cancelTask, Row
      <4>3. CASE row'[t] = deleteTask(row[t])
        BY <1>row, <4>3 DEF deleteTask, NoRow, Row
      <4> QED
        BY <2>2, <4>1, <4>2, <4>3
    <3> QED
      BY <1>row, <1>zero, <3>1
  <2> QED
    BY <1>4, <2>1, <2>2, Zenon DEF WrittenByRequest
<1> QED
  BY <1>1, <1>2, <1>3, <1>4, RowWriters DEF Fits, F

\* RecordInv is an invariant where no database call fails.
LEMMA RecordNext ==
    ASSUME "db" \notin Features, TypeOK, TypeOK', HolderInv, DispatchInv, RecordInv, [Next]_vars
    PROVE  RecordInv'
<1>1. Recorded' /\ \A e \in Exec : hist'[e] = hist[e] \/ (hist[e] = NoRecord /\ att[e].pc = "record")
  BY RecordedKept DEF RecordInv
<1>2. ASSUME NEW t \in Task
      PROVE  Failed(hist, t) \in SUBSET Failed(hist', t) /\ Failed(hist', t) \in SUBSET Exec
  <2>1. \A e \in Exec : hist[e].task = t => hist'[e] = hist[e]
    BY SMTT(30), <1>1, <1>2, NoneAssumption DEF NoRecord
  <2> QED
    BY <2>1 DEF Failed
<1>grow. ASSUME NEW r, r.retry \in Nat, NEW t \in Task, Charged(r, Failed(hist, t))
         PROVE  Charged(r, Failed(hist', t))
  BY <1>grow, <1>2, ChargedMore
<1>3. ASSUME NEW t \in Task PROVE Charged(row'[t], Failed(hist', t))
  <2>1. row'[t].retry \in Nat /\ Charged(row'[t], Failed(hist, t))
    BY ChargedRow DEF Charged
  <2> QED
    BY <2>1, <1>grow
<1>row. \A t \in Task : row[t].retry \in Nat /\ Charged(row[t], Failed(hist, t))
  BY DEF TypeOK, Row, RecordInv
<1>due. \A n \in Node : \A s \in loop[n].due : s[1] \in Task /\ s[2].retry \in Nat /\ Charged(s[2], Failed(hist, s[1]))
  <2>1. \A n \in Node : \A s \in loop[n].due : s \in Task \X Row
    BY DEF TypeOK, LoopState
  <2>2. \A s \in Task \X Row : s[1] \in Task /\ s[2].retry \in Nat
    BY DEF Row
  <2> QED
    BY <2>1, <2>2, Zenon DEF RecordInv
<1>4. ASSUME NEW ed \in edit' PROVE Charged(ed.row, Failed(hist', ed.task))
  <2>1. CASE ed \in edit
    <3>1. ed.task \in Task /\ ed.row.retry \in Nat /\ Charged(ed.row, Failed(hist, ed.task))
      BY <2>1 DEF TypeOK, Edit, Row, RecordInv
    <3> QED
      BY <3>1, <1>grow
  <2>2. CASE ed \notin edit
    <3>1. ed.task \in Task /\ ed.row.retry = row[ed.task].retry
      BY <1>4, <2>2, EditCopies
    <3>2. ed.row.retry \in Nat /\ Charged(ed.row, Failed(hist, ed.task))
      BY <3>1, <1>row DEF Charged
    <3> QED
      BY <3>1, <3>2, <1>grow
  <2> QED
    BY <2>1, <2>2
<1>5. ASSUME NEW n \in Node, NEW s \in loop'[n].due PROVE Charged(s[2], Failed(hist', s[1]))
  <2>1. s \in loop[n].due \/ \E t \in Task : s = <<t, row[t]>>
    BY <1>5, LoopCopies
  <2>2. s[1] \in Task /\ s[2].retry \in Nat /\ Charged(s[2], Failed(hist, s[1]))
    BY SMTT(30), <2>1, <1>due, <1>row
  <2> QED
    BY <2>2, <1>grow
<1>6. ASSUME NEW n \in Node, loop'[n].pc = "skip" PROVE Charged(loop'[n].cur.row, Failed(hist', loop'[n].cur.task))
  <2>1. CASE loop[n].pc = "skip" /\ loop'[n].cur = loop[n].cur
    <3>1. /\ loop[n].cur.task \in Task /\ loop[n].cur.row.retry \in Nat
          /\ Charged(loop[n].cur.row, Failed(hist, loop[n].cur.task))
      BY <2>1 DEF TypeOK, LoopState, Current, Row, RecordInv, DispatchInv, Placed
    <3> QED
      BY <2>1, <3>1, <1>grow
  <2>2. CASE \E s \in loop[n].due : loop'[n].cur.task = s[1] /\ loop'[n].cur.row.retry = s[2].retry
    <3>1. /\ loop'[n].cur.task \in Task /\ loop'[n].cur.row.retry \in Nat
          /\ Charged(loop'[n].cur.row, Failed(hist, loop'[n].cur.task))
      BY <2>2, <1>due DEF Charged
    <3> QED
      BY <3>1, <1>grow
  <2> QED
    BY <1>6, <2>1, <2>2, LoopCopies
<1>7. ASSUME NEW e \in Exec, Busy(att'[e]) PROVE Charged(att'[e].snap, Failed(hist', att'[e].task) \ {e})
  <2>1. CASE Busy(att[e]) /\ att'[e].task = att[e].task /\ att'[e].snap = att[e].snap
    <3>1. /\ att[e].task \in Task /\ att[e].snap.retry \in Nat
          /\ Charged(att[e].snap, Failed(hist, att[e].task) \ {e})
      BY <2>1 DEF DispatchInv, Placed, TypeOK, Attempt, Row, RecordInv
    <3>2. /\ Failed(hist, att[e].task) \ {e} \in SUBSET (Failed(hist', att[e].task) \ {e})
          /\ Failed(hist', att[e].task) \ {e} \in SUBSET Exec
      BY <3>1, <1>2
    <3> QED
      BY SMTT(30), <2>1, <3>1, <3>2, ChargedMore
  <2>2. CASE /\ att[e].pc = "new"
             /\ att'[e].task \in Task /\ att'[e].snap.retry \in Nat /\ Charged(att'[e].snap, Failed(hist, att'[e].task))
    <3>1. hist'[e] = NoRecord
      BY <1>1, <2>2 DEF RecordInv, Recorded
    <3>2. e \notin Failed(hist', att'[e].task)
      <4>1. hist'[e].task = None
        BY <3>1 DEF NoRecord
      <4> QED
        BY <2>2, <4>1, NoneAssumption DEF Failed
    <3>3. Failed(hist', att'[e].task) \ {e} = Failed(hist', att'[e].task)
      BY <3>2
    <3> QED
      BY <2>2, <3>3, <1>grow
  <2>3. \/ Busy(att[e]) /\ att'[e].task = att[e].task /\ att'[e].snap = att[e].snap
        \/ /\ att[e].pc = "new"
           /\ \/ \E n \in Node : \E s \in loop[n].due : att'[e].task = s[1] /\ att'[e].snap = s[2]
              \/ att'[e].task \in Task /\ att'[e].snap = row[att'[e].task]
    BY <1>7, ThreadCopies
  <2> QED
    BY <1>due, <1>row, <2>1, <2>2, <2>3
<1> QED
  BY <1>1, <1>3, <1>4, <1>5, <1>6, <1>7 DEF RecordInv

\* Initially nothing is charged.
LEMMA RecordInit == Init => RecordInv
<1> SUFFICES ASSUME Init PROVE RecordInv
  OBVIOUS
<1>1. /\ att = [e \in Exec |-> NoAttempt] /\ row = [t \in Task |-> NoRow] /\ loop = [n \in Node |-> IdleLoop] /\ edit = {}
      /\ hist = [e \in Exec |-> NoRecord]
  BY DEF Init, SchedulerInit
<1>2. Recorded
  BY <1>1 DEF Recorded, NoAttempt
<1>3. ASSUME NEW t \in Task PROVE Charged(row[t], Failed(hist, t))
  <2>1. row[t].retry = 0
    BY <1>1 DEF NoRow
  <2>2. Cardinality(Failed(hist, t)) \in Nat
    BY ExecSets DEF Failed
  <2> QED
    BY <2>1, <2>2 DEF Charged
<1>4. (\A e \in Exec : ~Busy(att[e])) /\ \A n \in Node : loop[n].due = {} /\ loop[n].pc # "skip"
  BY <1>1 DEF Busy, NoAttempt, IdleLoop
<1> QED
  BY <1>1, <1>2, <1>3, <1>4 DEF RecordInv

\* Through crashes, recoveries, lost locks, shutdowns, edits, skipped slots and RunTaskNow, every retry a row has been
\* charged stands in task_history as an execution of the task that did not succeed, where no database call fails
\* (recordExecution before completeTaskExecution in src/scheduler/task_scheduler.cpp).
THEOREM EveryRetryIsRecorded ==
    ASSUME "db" \notin Features
    PROVE  Spec => []RetriesAreRecorded
<1>1. TypeOK /\ TypeOK' /\ HolderInv /\ DispatchInv /\ RecordInv /\ [Next]_vars => RecordInv'
  BY RecordNext
<1>2. RecordInv => RetriesAreRecorded
  BY DEF RecordInv, RetriesAreRecorded, Charged, Failed
<1> QED
  BY <1>1, <1>2, RecordInit, DispatchAlways, PTL DEF Spec
=============================================================================
