------------------------------ MODULE WorkProofs ------------------------------
(***************************************************************************)
(* WorkInv and LockInv are invariants: what is running or locked is being  *)
(* worked on, and where the locks can be relied upon no two executions of  *)
(* a task are, and recovery takes only what nobody works on.               *)
(***************************************************************************)
EXTENDS DispatchProofs

\* Failed calls and crashes are counted one at a time.
LEMMA FaultsCount ==
    ASSUME TypeOK, [Next]_vars
    PROVE  faults' = faults \/ faults' = faults + 1
<1>1. ASSUME NEW n \in Node, LoopStep(n) PROVE faults' = faults \/ faults' = faults + 1
  BY <1>1, Zenon DEF LoopStep, ScanStale, RecoverLock, RecoverRow, RecoverUnlock, unlock, ScanDue, PlanSkip, WriteSkip,
     NoWorker, LockTask, LockBusy, NoFault, Fault
<1>2. ASSUME NEW e \in Exec, AttemptStep(e) PROVE faults' = faults \/ faults' = faults + 1
  BY <1>2, Zenon DEF AttemptStep, ClaimTask, EnqueueTask, RestoreTask, UnlockTask, unlock, StartTask, FinishRpc,
     RecordHistory, CompleteTask, CleanupTask, NoFault, Fault
<1>3. ASSUME NEW n \in Node, RenewerStep(n) PROVE faults' = faults \/ faults' = faults + 1
  BY <1>3, Zenon DEF RenewerStep, RenewLease, ApplyLost, NoFault, Fault
<1>4. ASSUME NEW n \in Node, NEW t \in Task, RequestStep(n, t) PROVE faults' = faults \/ faults' = faults + 1
  BY <1>4, Zenon DEF RequestStep, handleSubmitTask, handleCancelTask, CancelRegistered, handleEnableTask,
     handleUpdateTask, handleDeleteTask, handleRunTaskNow, NoFault, Fault
<1>5. ASSUME NEW e \in Exec, ManualStep(e) PROVE faults' = faults \/ faults' = faults + 1
  BY <1>5, Zenon DEF ManualStep, ClaimManual, CompleteManual, NoFault, Fault
<1>6. ASSUME NEW ed \in edit, WriteEdit(ed) PROVE faults' = faults \/ faults' = faults + 1
  BY <1>6, Zenon DEF WriteEdit, NoFault, Fault
<1>7. ASSUME NEW n \in Node, NodeStep(n) PROVE faults' = faults \/ faults' = faults + 1
  BY <1>7, NodeShape DEF Crashes
<1>8. ASSUME Tick \/ \E t \in Task : ExpireLock(t) PROVE faults' = faults
  BY <1>8 DEF Tick, ExpireLock
<1> QED
  BY <1>1, <1>2, <1>3, <1>4, <1>5, <1>6, <1>7, <1>8, Zenon DEF Next, SchedulerNext, DispatcherNext, NodeNext, vars

\* An execution that has been drawn keeps its node, its task and its kind, or ends.
LEMMA WorkKept ==
    ASSUME TypeOK, HolderInv, [Next]_vars, NEW e \in Exec, att[e].pc # "new"
    PROVE  Busy(att'[e]) => Busy(att[e]) /\ SameWork(att[e], att'[e])
<1> USE DEF Busy, SameWork
<1>fresh. e # nextExec
  BY ExecsAreNotNoExec, ConstantsAssumption DEF HolderInv, FreshExecs, TypeOK
<1>1. ASSUME NEW n \in Node, LoopStep(n) PROVE att'[e] = att[e]
  BY <1>1, <1>fresh, LoopShape DEF Leaves, Draws
<1>2. ASSUME NEW f \in Exec, AttemptStep(f) PROVE Busy(att'[e]) => Busy(att[e]) /\ SameWork(att[e], att'[e])
  BY <1>2, AttemptShape DEF Moves, Leaves, Locked
<1>3. ASSUME NEW n \in Node, RenewerStep(n) PROVE Busy(att'[e]) => Busy(att[e]) /\ SameWork(att[e], att'[e])
  BY <1>3, RenewerShape DEF Stays
<1>4. ASSUME NEW n \in Node, NEW t \in Task, RequestStep(n, t)
      PROVE  Busy(att'[e]) => Busy(att[e]) /\ SameWork(att[e], att'[e])
  BY <1>4, <1>fresh, RequestShape DEF Stays, Draws
<1>5. ASSUME NEW f \in Exec, ManualStep(f) PROVE Busy(att'[e]) => Busy(att[e]) /\ SameWork(att[e], att'[e])
  BY <1>5, ManualShape DEF Moves, Leaves
<1>6. ASSUME NEW n \in Node, NodeStep(n) PROVE Busy(att'[e]) => Busy(att[e]) /\ SameWork(att[e], att'[e])
  <2>1. att'[e] = att[e] \/ att'[e].pc = "dead"
    BY <1>6, NodeShape DEF Crashes, Gone, NoAttempt
  <2> QED
    BY <2>1
<1>7. ASSUME Tick \/ (\E t \in Task : ExpireLock(t)) \/ (\E ed \in edit : WriteEdit(ed)) \/ UNCHANGED vars
      PROVE  att'[e] = att[e]
  BY <1>7 DEF Tick, ExpireLock, WriteEdit, vars
<1> QED
  BY <1>1, <1>2, <1>3, <1>4, <1>5, <1>6, <1>7 DEF Next, SchedulerNext, DispatcherNext, NodeNext

\* A row is handed over only by a claim; every other step leaves it with its holder or free.
LEMMA HoldersChange ==
    ASSUME TypeOK, HolderInv, [Next]_vars, NEW t \in Task
    PROVE  \/ row'[t].exec = row[t].exec /\ (row'[t].status = "running" => row[t].status = "running")
           \/ row'[t].exec = NoExec
           \/ \E e \in Exec : row'[t].exec = e /\ ~Past(att[e]) /\ Past(att'[e])
<1> DEFINE status == [u \in Task |-> row[u].status]
           holder == [u \in Task |-> row[u].exec]
           used == {e \in Exec : att[e].pc \notin {"new", "claim", "manual"}}
<1>1. /\ status[t] = row[t].status /\ holder[t] = row[t].exec /\ \A e \in Exec : e \in used <=> Past(att[e])
      /\ status'[t] = row'[t].status /\ holder'[t] = row'[t].exec /\ \A e \in Exec : e \in used' <=> Past(att'[e])
  BY DEF Past
<1>2. LifeStep
  BY StepRefines
<1>3. \/ holder'[t] = holder[t] /\ (status'[t] = "running" => status[t] = "running")
      \/ holder'[t] = NoExec
      \/ \E e \in Exec : holder'[t] = e /\ e \notin used /\ e \in used'
  <2>1. CASE UNCHANGED Lifecycle!lifeVars
    BY <2>1 DEF Lifecycle!lifeVars
  <2>2. ASSUME NEW u \in Task, NEW e \in Exec, Lifecycle!Claim(u, e)
        PROVE  \/ holder'[t] = holder[t] /\ status'[t] = status[t]
               \/ holder'[t] = e /\ e \notin used /\ e \in used'
    BY <2>2 DEF Lifecycle!Claim
  <2>3. ASSUME NEW u \in Task, NEW s \in {"scheduled", "disabled"},
               Lifecycle!Release(u, s) \/ Lifecycle!Switch(u, s) \/ Lifecycle!Submit(u) \/ Lifecycle!Delete(u)
        PROVE \/ holder'[t] = holder[t] /\ (status'[t] = "running" => status[t] = "running")
              \/ holder'[t] = NoExec
    BY <2>3 DEF Lifecycle!Release, Lifecycle!Switch, Lifecycle!Submit, Lifecycle!Delete
  <2>4. ASSUME NEW S \in SUBSET Exec, Lifecycle!Discard(S) PROVE holder'[t] = holder[t] /\ status'[t] = status[t]
    BY <2>4 DEF Lifecycle!Discard
  <2> QED
    BY <1>2, <2>1, <2>2, <2>3, <2>4 DEF LifeStep, Lifecycle!Next
<1> QED
  BY <1>1, <1>3

\* The execution that comes to hold a row has just claimed it, for its own task.
LEMMA ClaimersClaim ==
    ASSUME TypeOK, HolderInv, [Next]_vars, NEW t \in Task, NEW e \in Exec, row'[t].exec = e, row[t].exec # e
    PROVE  att[e].pc # "new" /\ att[e].task = t /\ (faults' = faults => att'[e].pc \in {"claimed", "rpc"})
<1>past. ~Past(att[e]) /\ Past(att'[e])
  BY HoldersChange, ExecsAreNotNoExec
<1>row. row'[t] # row[t] /\ row \in [Task -> Row]
  BY DEF TypeOK
<1>1. ASSUME NEW f \in Exec, ClaimTask(f) \/ ClaimManual(f)
      PROVE  att[e].pc # "new" /\ att[e].task = t /\ (faults' = faults => att'[e].pc \in {"claimed", "rpc"})
  <2>1. AttemptStep(f) \/ ManualStep(f)
    BY <1>1 DEF AttemptStep, ManualStep
  <2>2. f = e
    BY <2>1, <1>past, AttemptShape, ManualShape DEF Moves, Leaves
  <2>3. att[e].pc \in {"claim", "manual"}
    BY <1>1, <2>2 DEF ClaimTask, ClaimManual
  <2>4. row' = [row EXCEPT ![att[e].task] = claimTaskExecution(@, e)]
    BY <1>1, <1>row, <2>2, Zenon DEF ClaimTask, ClaimManual
  <2>5. att[e].task = t
    BY <1>row, <2>4
  <2>6. faults' = faults => att' = [att EXCEPT ![e] = At(@, "claimed")] \/ att' = [att EXCEPT ![e] = At(@, "rpc")]
    <3>1. ~Fault("db") \/ faults' # faults
      BY ConstantsAssumption DEF Fault, TypeOK
    <3> QED
      BY <1>1, <1>row, <2>2, <3>1, Zenon DEF ClaimTask, ClaimManual
  <2> QED
    BY <2>3, <2>5, <2>6, MovesBy DEF Moves
<1>2. ASSUME NEW f \in Exec, AttemptStep(f) \/ ManualStep(f), ~ClaimTask(f), ~ClaimManual(f) PROVE FALSE
  <2>1. Past(att[f]) /\ \A g \in Exec : g # f => att'[g] = att[g]
    <3>1. att[f].pc \notin {"new", "claim", "manual"}
      BY <1>2 DEF AttemptStep, ManualStep, EnqueueTask, RestoreTask, UnlockTask, StartTask, FinishRpc, RecordHistory,
         CompleteTask, CleanupTask, CompleteManual
    <3> QED
      BY <1>2, <3>1, AttemptShape, ManualShape DEF Past, Moves, Leaves
  <2> QED
    BY <1>past, <2>1
<1>3. ASSUME UNCHANGED att \/ UNCHANGED row \/ Stays PROVE FALSE
  BY <1>past, <1>row, <1>3 DEF Stays, Past
<1>4. ASSUME NEW n \in Node, LoopStep(n) PROVE FALSE
  <2>1. UNCHANGED att \/ UNCHANGED row
    BY <1>4, Zenon DEF LoopStep, ScanStale, RecoverLock, RecoverRow, RecoverUnlock, ScanDue, PlanSkip,
       WriteSkip, NoWorker, LockTask, LockBusy, storeVars
  <2> QED
    BY <2>1, <1>3
<1>5. ASSUME Tick \/ (\E u \in Task : ExpireLock(u)) \/ (\E ed \in edit : WriteEdit(ed)) \/ UNCHANGED vars PROVE FALSE
  BY <1>3, <1>5 DEF Tick, ExpireLock, WriteEdit, vars
<1>6. ASSUME NEW n \in Node, NodeStep(n) PROVE FALSE
  BY <1>3, <1>6, NodeShape
<1>7. ASSUME NEW n \in Node, RenewerStep(n) PROVE FALSE
  BY <1>3, <1>7, RenewerShape
<1>8. ASSUME NEW n \in Node, NEW u \in Task, RequestStep(n, u) PROVE FALSE
  BY <1>3, <1>8, RequestShape
<1> QED
  BY <1>1, <1>2, <1>4, <1>5, <1>6, <1>7, <1>8 DEF Next, SchedulerNext, DispatcherNext, NodeNext

\* HeldTask is kept.
LEMMA HeldTaskKept ==
    ASSUME TypeOK, HolderInv, HeldTask, [Next]_vars
    PROVE  HeldTask'
<1> SUFFICES ASSUME NEW t \in Task, row'[t].exec # NoExec
             PROVE  row'[t].exec \in Exec /\ (Busy(att'[row'[t].exec]) => att'[row'[t].exec].task = t)
  BY Zenon DEF HeldTask, Live, Busy
<1> DEFINE e == row'[t].exec
<1>1. e \in Exec /\ att[e].pc # "new" /\ (Busy(att[e]) => att[e].task = t)
  <2>1. CASE row[t].exec = e
    <3>1. e \in Exec /\ (Live(e) => att[e].task = t)
      BY <2>1, Zenon DEF HeldTask
    <3>2. Past(att[e])
      BY <2>1, <3>1 DEF HolderInv, ClaimedOnce
    <3> QED
      BY <3>1, <3>2 DEF Past, Busy, Live
  <2>2. CASE row[t].exec # e
    BY <2>2, HoldersChange, ClaimersClaim
  <2> QED
    BY <2>1, <2>2
<1>2. Busy(att'[e]) => att'[e].task = t
  BY <1>1, WorkKept DEF SameWork
<1> QED
  BY <1>1, <1>2

\* Where an execution is that holds a row.
Working == {"claimed", "restore", "queued", "rpc", "record", "complete"}

\* completeTaskExecution takes the row from the execution it is called for.
LEMMA GivenBack ==
    ASSUME TypeOK, NEW t \in Task, NEW e \in Exec, NEW status, NEW next, NEW retry,
           row' = [row EXCEPT ![t] = completeTaskExecution(@, e, status, next, retry)],
           row[t].status = "running", row[t].exec = e
    PROVE  row'[t].exec # e
<1>1. row \in [Task -> Row] /\ row[t] \in Row /\ NoExec # e
  BY ExecsAreNotNoExec DEF TypeOK
<1> QED
  BY <1>1 DEF completeTaskExecution, Row

\* An execution that stops working on its row has given it back, unless the call failed.
LEMMA WorkerStep ==
    ASSUME TypeOK, HolderInv, [Next]_vars, NEW t \in Task, NEW e \in Exec, faults' = faults,
           row[t].status = "running", row[t].exec = e, att[e].task = t, att[e].pc \in Working
    PROVE  att'[e].pc \in Working \/ row'[t].exec # e
<1>row. row \in [Task -> Row] /\ row[t] \in Row /\ NoExec # e
  BY ExecsAreNotNoExec DEF TypeOK
<1>nofault. ~Fault("db") /\ e # nextExec
  BY ConstantsAssumption, ExecsAreNotNoExec DEF Fault, TypeOK, HolderInv, FreshExecs, Working
<1>1. ASSUME AttemptStep(e) PROVE att'[e].pc \in Working \/ row'[t].exec # e
  <2>1. CASE RestoreTask(e) \/ CompleteTask(e)
    <3>1. CASE RestoreTask(e)
      <4>1. row' = [row EXCEPT ![att[e].task] =
                      completeTaskExecution(@, e, "scheduled", att[e].snap.next, att[e].snap.retry)]
        BY <3>1, <1>nofault, Zenon DEF RestoreTask
      <4> QED
        BY <4>1, GivenBack
    <3>2. CASE CompleteTask(e)
      <4>1. PICK r : row' = [row EXCEPT ![att[e].task] = completeTaskExecution(@, e, r.status, r.next, r.retry)]
        BY <3>2, <1>nofault, Zenon DEF CompleteTask
      <4> QED
        BY <4>1, GivenBack
    <3> QED
      BY <2>1, <3>1, <3>2
  <2>2. CASE EnqueueTask(e) \/ StartTask(e) \/ RecordHistory(e) \/ \E out \in {"ok", "failed"} : FinishRpc(e, out)
    <3>1. \/ \E pc \in Working : att' = [att EXCEPT ![e] = At(@, pc)]
          \/ \E out : att' = [att EXCEPT ![e] = Ended(@, out)]
      BY <2>2, Zenon DEF EnqueueTask, StartTask, RecordHistory, FinishRpc, Working
    <3> QED
      BY <3>1, MovesBy DEF Moves, Working
  <2>3. CASE ClaimTask(e) \/ UnlockTask(e) \/ CleanupTask(e)
    BY <2>3 DEF ClaimTask, UnlockTask, CleanupTask, Working
  <2> QED
    BY <1>1, <2>1, <2>2, <2>3 DEF AttemptStep
<1>2. ASSUME ManualStep(e) PROVE row'[t].exec # e
  <2>1. CompleteManual(e)
    BY <1>2 DEF ManualStep, ClaimManual, Working
  <2>2. row' = [row EXCEPT ![att[e].task] =
                  completeTaskExecution(@, e, att[e].snap.status, att[e].snap.next, att[e].snap.retry)]
    BY <2>1, <1>nofault, Zenon DEF CompleteManual
  <2> QED
    BY <2>2, GivenBack
<1>3. ASSUME NEW f \in Exec, AttemptStep(f) \/ ManualStep(f), f # e PROVE att'[e] = att[e]
  BY <1>3, AttemptShape, ManualShape DEF Moves, Leaves
<1>4. ASSUME NEW n \in Node, LoopStep(n) PROVE att'[e] = att[e]
  BY <1>4, <1>nofault, LoopShape DEF Leaves, Draws
<1>5. ASSUME Tick \/ (\E u \in Task : ExpireLock(u)) \/ (\E ed \in edit : WriteEdit(ed)) \/ UNCHANGED vars
      PROVE  att'[e] = att[e]
  BY <1>5 DEF Tick, ExpireLock, WriteEdit, vars
<1>6. ASSUME NEW n \in Node, NodeStep(n) PROVE att'[e] = att[e]
  <2>1. faults \in Nat
    BY ConstantsAssumption DEF TypeOK
  <2>2. ~Crashes(n)
    BY <2>1 DEF Crashes
  <2> QED
    BY <1>6, <2>2, NodeShape
<1>7. ASSUME NEW n \in Node, RenewerStep(n) PROVE att'[e].pc = att[e].pc
  BY <1>7, RenewerShape DEF Stays
<1>8. ASSUME NEW n \in Node, NEW u \in Task, RequestStep(n, u) PROVE att'[e].pc = att[e].pc
  BY <1>8, <1>nofault, RequestShape DEF Stays, Draws
<1> QED
  BY <1>1, <1>2, <1>3, <1>4, <1>5, <1>6, <1>7, <1>8 DEF Next, SchedulerNext, DispatcherNext, NodeNext

\* A running row is worked on after every step, or there was a fault.
LEMMA WorkersKept ==
    ASSUME TypeOK, HolderInv, HolderInv', HeldTask', RunningRowsHaveAWorker, [Next]_vars
    PROVE  RunningRowsHaveAWorker'
<1> SUFFICES ASSUME NEW t \in Task
             PROVE  /\ row'[t].status = "running" <=> row'[t].exec # NoExec
                    /\ row'[t].status = "running" /\ faults' = 0 =>
                         att'[row'[t].exec].task = t /\ att'[row'[t].exec].pc \in Working
  BY DEF RunningRowsHaveAWorker, Working
<1>1. row'[t].status = "running" <=> row'[t].exec # NoExec
  BY DEF HolderInv, RowsHeld, Held
<1>2. ASSUME row'[t].status = "running", faults' = 0
      PROVE  att'[row'[t].exec].task = t /\ att'[row'[t].exec].pc \in Working
  <2> DEFINE e == row'[t].exec
  <2>1. e \in Exec /\ (Busy(att'[e]) => att'[e].task = t)
    BY <1>1, <1>2, Zenon DEF HeldTask, Live, Busy
  <2>2. faults = 0 /\ faults' = faults
    BY SMTT(30), <1>2, FaultsCount, ConstantsAssumption DEF TypeOK
  <2>3. att'[e].pc \in Working
    <3>1. CASE row[t].exec = e
      <4>1. row[t].status = "running"
        BY <2>1, <3>1, ExecsAreNotNoExec DEF HolderInv, RowsHeld, Held
      <4>2. att[e].task = t /\ att[e].pc \in Working
        BY <2>2, <3>1, <4>1 DEF RunningRowsHaveAWorker, Working
      <4> QED
        BY <2>1, <2>2, <3>1, <4>1, <4>2, WorkerStep
    <3>2. CASE row[t].exec # e
      BY <2>1, <2>2, <3>2, ClaimersClaim DEF Working
    <3> QED
      BY <3>1, <3>2
  <2> QED
    BY <2>1, <2>3 DEF Busy, Working
<1> QED
  BY <1>1, <1>2

\* What the value of a lock says.
LEMMA OwnerFields ==
    ASSUME NEW n, NEW e
    PROVE  /\ TaskOwner(n, e).by = "task" /\ TaskOwner(n, e).node = n /\ TaskOwner(n, e).exec = e
           /\ RecoveryOwner(n, e).by = "recovery" /\ RecoveryOwner(n, e).node = n /\ RecoveryOwner(n, e).exec = e
BY DEF TaskOwner, RecoveryOwner

\* Whoever works under the lock of t goes on doing so.
GoesOn(t) ==
    /\ \A e \in Exec : e = lock[t].exec /\ att[e].kind = "sched" /\ att[e].pc \in Locked \cup {"unlock"} =>
         att'[e].pc \in Locked \cup {"unlock"} /\ SameWork(att[e], att'[e])
    /\ \A n \in Node : n = lock[t].node /\ loop[n].pc \in {"recovering", "unlocking"} =>
         loop'[n].pc \in {"recovering", "unlocking"} /\ loop'[n].cur = loop[n].cur

\* A lock is taken by a thread that then works under it, and given back before that thread is done.
LEMMA LockOfWorkKept ==
    ASSUME TypeOK, HolderInv, Placed, [Next]_vars, faults' = faults,
           NEW t \in Task, lock[t] # None => LockOfWork(t), lock'[t] # None
    PROVE  LockOfWork(t)'
<1>types. /\ lock[t] \in Owner \cup {None} /\ faults \in Nat /\ loop \in [Node -> LoopState]
          /\ \A e \in Exec : att[e] \in Attempt
  BY ConstantsAssumption DEF TypeOK
<1>fresh. \A e \in Exec : att[e].pc \in Locked \cup {"unlock"} => e # nextExec
  BY DEF HolderInv, FreshExecs, Locked, TypeOK, Exec
<1>keep. ASSUME lock'[t] = lock[t], GoesOn(t) PROVE LockOfWork(t)'
  <2>1. LockOfWork(t) /\ lock[t] \in Owner
    BY <1>keep, <1>types
  <2>2. CASE lock[t].by = "task"
    <3> DEFINE e == lock[t].exec
    <3>1. /\ e \in Exec /\ att[e].node = lock[t].node /\ att[e].task = t
          /\ att[e].kind = "sched" /\ att[e].pc \in Locked \cup {"unlock"}
      BY <2>1, <2>2, Zenon DEF LockOfWork
    <3>2. att'[e].pc \in Locked \cup {"unlock"} /\ SameWork(att[e], att'[e])
      BY <1>keep, <3>1, Zenon DEF GoesOn
    <3>3. att'[e].node = lock[t].node /\ att'[e].task = t /\ att'[e].kind = "sched"
      BY <3>1, <3>2 DEF SameWork
    <3> QED
      BY <1>keep, <2>2, <3>1, <3>2, <3>3, Zenon DEF LockOfWork
  <2>3. CASE lock[t].by # "task"
    <3> DEFINE n == lock[t].node
    <3>1. n \in Node
      BY <2>1 DEF Owner
    <3>2. loop[n].pc \in {"recovering", "unlocking"} /\ loop[n].cur.task = t /\ loop[n].cur.exec = lock[t].exec
      BY <2>1, <2>3, Zenon DEF LockOfWork
    <3>3. loop'[n].pc \in {"recovering", "unlocking"} /\ loop'[n].cur = loop[n].cur
      BY <1>keep, <3>1, <3>2, Zenon DEF GoesOn
    <3> QED
      BY <1>keep, <2>3, <3>2, <3>3, Zenon DEF LockOfWork
  <2> QED
    BY <2>2, <2>3
<1>owner. ASSUME LockOfWork(t), lock[t] # None
          PROVE  lock[t] = IF lock[t].by = "task" THEN TaskOwner(lock[t].node, lock[t].exec)
                           ELSE RecoveryOwner(lock[t].node, lock[t].exec)
  BY <1>types, <1>owner DEF Owner, TaskOwner, RecoveryOwner
<1>1. ASSUME NEW f \in Exec, AttemptStep(f) PROVE LockOfWork(t)'
  <2>1. UNCHANGED loop
    BY <1>1, AttemptShape
  <2>2. CASE att[f].pc \in {"unlock", "cleanup"} /\ Leaves(f) /\ unlock(att[f].task, TaskOwner(att[f].node, f))
    <3>1. att[f].node \in Node /\ att[f].task \in Task /\ TaskOwner(att[f].node, f) \in Owner
      <4>1. Busy(att[f])
        BY <2>2 DEF Busy
      <4>2. att[f].node \in Node /\ att[f].task \in Task
        BY <4>1 DEF Placed
      <4> QED
        BY <4>2, ExecsAreNotNoExec DEF TaskOwner, Owner
    <3>2. Released(att[f].task, TaskOwner(att[f].node, f))
      BY <2>2, <3>1, UnlockReleases
    <3>3. lock'[t] = lock[t] /\ (t = att[f].task => lock[t] # TaskOwner(att[f].node, f))
      BY <3>1, <3>2 DEF Released
    <3>4. LockOfWork(t)
      BY <3>3
    <3>5. CASE lock[t].by = "task"
      <4>1. lock[t].exec # f
        BY <3>3, <3>4, <3>5, <1>owner DEF LockOfWork
      <4> QED
        BY <1>keep, <2>1, <2>2, <3>3, <4>1 DEF GoesOn, Leaves, SameWork
    <3>6. CASE lock[t].by # "task"
      BY <2>1, <3>3, <3>4, <3>6 DEF LockOfWork
    <3> QED
      BY <3>5, <3>6
  <2>3. CASE (\E pc \in Locked \cup {"unlock"} : Moves(f, pc)) /\ UNCHANGED lock
    BY <1>keep, <2>1, <2>3 DEF GoesOn, Moves, SameWork
  <2> QED
    BY <1>1, <2>2, <2>3, AttemptShape
<1>2. ASSUME NEW f \in Exec, ManualStep(f) PROVE LockOfWork(t)'
  <2>1. UNCHANGED <<lock, loop>> /\ (\A e \in Exec : e # f => att'[e] = att[e])
        /\ ~(att[f].kind = "sched" /\ att[f].pc \in Locked \cup {"unlock"})
    BY <1>2, ManualShape DEF Moves, Leaves, Locked
  <2> QED
    BY <1>keep, <2>1 DEF GoesOn, SameWork
<1>3. ASSUME NEW n \in Node, LoopStep(n) PROVE LockOfWork(t)'
  <2>other. \A m \in Node : m # n => loop'[m] = loop[m]
    BY <1>3, LoopShape
  <2>1. CASE Looks(n) /\ UNCHANGED <<lock, lease, reg, att, nextExec>>
    BY <1>keep, <2>1, <2>other DEF GoesOn, SameWork, Looks
  <2>2. CASE TakesForRecovery(n) /\ UNCHANGED <<lease, reg, att, nextExec, faults>>
    <3>1. CASE t = loop'[n].cur.task
      <4>1. lock'[t] = RecoveryOwner(n, loop'[n].cur.exec) /\ loop'[n].pc = "recovering"
        BY <2>2, <3>1 DEF TakesForRecovery
      <4>2. lock'[t].by = "recovery" /\ lock'[t].node = n /\ lock'[t].exec = loop'[n].cur.exec
        BY SMTT(30), <4>1, OwnerFields
      <4> QED
        BY <3>1, <4>1, <4>2 DEF LockOfWork
    <3>2. CASE t # loop'[n].cur.task
      BY <1>keep, <2>2, <2>other, <3>2 DEF TakesForRecovery, GoesOn, SameWork
    <3> QED
      BY <3>1, <3>2
  <2>3. CASE loop[n].pc = "recovering" /\ loop'[n].pc = "unlocking" /\ loop'[n].cur = loop[n].cur
             /\ UNCHANGED <<lock, lease, reg, att, nextExec>>
    BY <1>keep, <2>3, <2>other DEF GoesOn, SameWork
  <2>4. CASE loop[n].pc = "unlocking" /\ loop'[n].pc = "scan"
             /\ unlock(loop[n].cur.task, RecoveryOwner(n, loop[n].cur.exec)) /\ UNCHANGED <<lease, reg, att, nextExec>>
    <3> DEFINE u == loop[n].cur.task  f == loop[n].cur.exec
    <3>1. u \in Task /\ RecoveryOwner(n, f) \in Owner
      <4>1. loop[n].cur \in Current
        BY <1>types DEF LoopState
      <4> QED
        BY <2>4, <4>1 DEF Placed, RecoveryOwner, Owner, Current
    <3>2. Released(u, RecoveryOwner(n, f))
      BY <2>4, <3>1, UnlockReleases
    <3>3. lock'[t] = lock[t] /\ (t = u => lock[t] # RecoveryOwner(n, f))
      BY <3>1, <3>2 DEF Released
    <3>4. LockOfWork(t)
      BY <3>3
    <3>5. CASE lock[t].by = "task"
      BY <2>4, <3>3, <3>4, <3>5 DEF LockOfWork
    <3>6. CASE lock[t].by # "task"
      <4>1. lock[t].node # n
        BY <3>3, <3>4, <3>6, <1>owner DEF LockOfWork
      <4> QED
        BY <1>keep, <2>4, <2>other, <3>3, <4>1 DEF GoesOn, SameWork
    <3> QED
      BY <3>5, <3>6
  <2>5. ASSUME NEW u \in Task, Takes(n, u), Draws("claim", "sched", n, u) PROVE LockOfWork(t)'
    <3>1. CASE t = u
      <4>1. lock'[t] = TaskOwner(n, nextExec)
        BY <2>5, <3>1 DEF Takes
      <4>2. lock'[t].by = "task" /\ lock'[t].node = n /\ lock'[t].exec = nextExec
        BY <4>1, OwnerFields
      <4>3. /\ nextExec \in Exec /\ att'[nextExec].node = n /\ att'[nextExec].task = t
            /\ att'[nextExec].kind = "sched" /\ att'[nextExec].pc \in Locked \cup {"unlock"}
        BY <2>5, <3>1 DEF Draws, Locked
      <4> QED
        BY <4>2, <4>3 DEF LockOfWork
    <3>2. CASE t # u
      BY <1>keep, <1>fresh, <2>5, <2>other, <3>2 DEF Takes, Draws, GoesOn, SameWork
    <3> QED
      BY <3>1, <3>2
  <2>6. ~Fault("redis")
    BY <1>types DEF Fault
  <2> QED
    BY <1>3, <2>1, <2>2, <2>3, <2>4, <2>5, <2>6, LoopShape
<1>4. ASSUME UNCHANGED <<lock, loop>>, Stays PROVE LockOfWork(t)'
  BY <1>keep, <1>4 DEF GoesOn, Stays
<1>5. ASSUME NEW n \in Node, RenewerStep(n) PROVE LockOfWork(t)'
  BY <1>4, <1>5, RenewerShape
<1>6. ASSUME NEW n \in Node, NEW u \in Task, RequestStep(n, u) PROVE LockOfWork(t)'
  <2>1. CASE Draws("manual", "manual", n, u)
    BY <1>6, <1>keep, <1>fresh, <2>1, RequestShape DEF Draws, GoesOn, SameWork
  <2> QED
    BY <1>4, <1>6, <2>1, RequestShape
<1>7. ASSUME NEW u \in Task, ExpireLock(u) PROVE LockOfWork(t)'
  <2>1. lock'[t] = lock[t] /\ UNCHANGED <<loop, att>>
    BY <1>7 DEF ExpireLock, TypeOK
  <2> QED
    BY <1>keep, <2>1 DEF GoesOn, SameWork
<1>8. ASSUME Tick \/ (\E ed \in edit : WriteEdit(ed)) \/ UNCHANGED vars PROVE LockOfWork(t)'
  BY <1>8, <1>4, CancelStays DEF Tick, WriteEdit, vars
<1>9. ASSUME NEW n \in Node, NodeStep(n) PROVE LockOfWork(t)'
  <2>1. ~Crashes(n)
    BY <1>types DEF Crashes
  <2> QED
    BY <1>4, <1>9, <2>1, NodeShape, CancelStays
<1> QED
  BY <1>1, <1>2, <1>3, <1>5, <1>6, <1>7, <1>8, <1>9 DEF Next, SchedulerNext, DispatcherNext, NodeNext

\* WorkInv holds at the start, and every step keeps it.
LEMMA WorkInit == Init => WorkInv
BY DEF Init, SchedulerInit, WorkInv, HeldTask, RunningRowsHaveAWorker, LocksInUse, NoRow

\* Every step keeps WorkInv.
LEMMA WorkNext ==
    ASSUME TypeOK, HolderInv, HolderInv', DispatchInv, WorkInv, [Next]_vars
    PROVE  WorkInv'
<1>1. HeldTask'
  BY HeldTaskKept DEF WorkInv
<1>2. RunningRowsHaveAWorker'
  BY <1>1, WorkersKept DEF WorkInv
<1>3. LocksInUse'
  <2> SUFFICES ASSUME faults' = 0, NEW t \in Task, lock'[t] # None PROVE LockOfWork(t)'
    BY DEF LocksInUse
  <2>1. faults = 0 /\ faults' = faults
    <3>1. faults \in Nat
      BY ConstantsAssumption DEF TypeOK
    <3> QED
      BY <3>1, FaultsCount
  <2>2. lock[t] # None => LockOfWork(t)
    BY <2>1 DEF WorkInv, LocksInUse
  <2> QED
    BY <2>1, <2>2, LockOfWorkKept DEF DispatchInv
<1> QED
  BY <1>1, <1>2, <1>3 DEF WorkInv

\* The invariants that need no assumption on Features, together.
LEMMA WorkAlways == Spec => [](TypeOK /\ HolderInv /\ DispatchInv /\ WorkInv)
<1>1. TypeOK /\ HolderInv /\ HolderInv' /\ DispatchInv /\ WorkInv /\ [Next]_vars => WorkInv'
  BY WorkNext
<1> QED
  BY <1>1, WorkInit, DispatchAlways, PTL DEF Spec

\* A row is running exactly while it names an execution, and, unless a call failed or a node crashed, that
\* execution works on it (scanAndDispatch and its scope guards, handleRunTaskNow): at any number of nodes,
\* tasks and executions, with any requests.
THEOREM RowsAreWorkedOn == Spec => []RunningRowsHaveAWorker
<1>1. TypeOK /\ HolderInv /\ DispatchInv /\ WorkInv => RunningRowsHaveAWorker
  BY DEF WorkInv
<1> QED
  BY <1>1, WorkAlways, PTL

\* CleanShutdown follows from the invariants: what a stopped node would have left is worked on by nobody.
LEMMA ShutdownIsClean ==
    ASSUME TypeOK, HolderInv, DispatchInv, WorkInv
    PROVE  CleanShutdown
<1> SUFFICES ASSUME NEW n \in Node, NEW t \in Task, mode[n] \in {"closing", "down"}, faults = 0
             PROVE  /\ lock[t] # None => lock[t].node # n
                    /\ row[t].status = "running" =>
                         att[row[t].exec].node # n \/ (att[row[t].exec].kind = "manual" /\ mode[n] = "closing")
  BY DEF CleanShutdown
<1>1. loop[n].pc = "scan" /\ \A e \in Exec : att[e].node = n => att[e].kind = "manual" /\ mode[n] = "closing"
  BY DEF DispatchInv, Stopped, Quiet
<1>2. ASSUME lock[t] # None, lock[t].node = n PROVE FALSE
  BY <1>1, <1>2 DEF WorkInv, LocksInUse, LockOfWork
<1>3. row[t].status = "running" => row[t].exec \in Exec
  BY DEF WorkInv, HeldTask, RunningRowsHaveAWorker
<1> QED
  BY <1>1, <1>2, <1>3

\* TaskScheduler::stop leaves no lock and no running row of its node behind, unless something failed.
THEOREM StoppedNodesLeaveNothing == Spec => []CleanShutdown
<1>1. TypeOK /\ HolderInv /\ DispatchInv /\ WorkInv => CleanShutdown
  BY ShutdownIsClean
<1> QED
  BY <1>1, WorkAlways, PTL

-----------------------------------------------------------------------------
(* LockInv *)

\* The lock and the lease of an execution are its own.
HoldsAt(l, s, a, e) == l[a.task] = TaskOwner(a.node, e) /\ s[a.node][a.task] = e

\* What LockInv and DispatchInv say of an execution, and of a recovery, that has a lock.
LEMMA LockFacts ==
    ASSUME TypeOK, DispatchInv, LockInv
    PROVE  /\ \A e \in Exec : att[e].pc \in Locked =>
                /\ att[e].node \in Node /\ att[e].task \in Task /\ mode[att[e].node] \notin {"closing", "down"}
                /\ HoldsAt(lock, lease, att[e], e) /\ TaskOwner(att[e].node, e) \in Owner
           /\ \A n \in Node : loop[n].pc \in {"recovering", "unlocking"} =>
                /\ loop[n].cur.task \in Task /\ mode[n] \notin {"closing", "down"}
                /\ lock[loop[n].cur.task] = RecoveryOwner(n, loop[n].cur.exec)
                /\ RecoveryOwner(n, loop[n].cur.exec) \in Owner
<1>1. ASSUME NEW e \in Exec, att[e].pc \in Locked
      PROVE  /\ att[e].node \in Node /\ att[e].task \in Task /\ mode[att[e].node] \notin {"closing", "down"}
             /\ HoldsAt(lock, lease, att[e], e) /\ TaskOwner(att[e].node, e) \in Owner
  <2>1. Busy(att[e])
    BY <1>1 DEF Busy, Locked
  <2>2. att[e].node \in Node /\ att[e].task \in Task
    BY <2>1 DEF DispatchInv, Placed
  <2>3. att[e].kind = "sched" /\ HoldsAt(lock, lease, att[e], e)
    BY <1>1 DEF LockInv, HoldsLock, HoldsAt
  <2>4. mode[att[e].node] \notin {"closing", "down"}
    BY <2>2, <2>3 DEF DispatchInv, Stopped
  <2>5. TaskOwner(att[e].node, e) \in Owner
    BY <2>2 DEF TaskOwner, Owner, Exec
  <2> QED
    BY <2>2, <2>3, <2>4, <2>5
<1>2. ASSUME NEW n \in Node, loop[n].pc \in {"recovering", "unlocking"}
      PROVE  /\ loop[n].cur.task \in Task /\ mode[n] \notin {"closing", "down"}
             /\ lock[loop[n].cur.task] = RecoveryOwner(n, loop[n].cur.exec)
             /\ RecoveryOwner(n, loop[n].cur.exec) \in Owner
  <2>1. loop[n].cur.task \in Task
    BY <1>2 DEF DispatchInv, Placed
  <2>2. mode[n] \notin {"closing", "down"}
    BY <1>2 DEF DispatchInv, Stopped, Quiet
  <2>3. lock[loop[n].cur.task] = RecoveryOwner(n, loop[n].cur.exec)
    BY <1>2 DEF LockInv, RecoveryHoldsLock
  <2>4. lock[loop[n].cur.task] \in Owner \cup {None}
    BY <2>1 DEF TypeOK
  <2>5. loop[n].cur.exec \in Nat
    BY DEF TypeOK, LoopState, Current
  <2>6. RecoveryOwner(n, loop[n].cur.exec) \in Owner
    BY <2>5 DEF RecoveryOwner, Owner
  <2> QED
    BY <2>1, <2>2, <2>3, <2>6
<1> QED
  BY <1>1, <1>2

\* LockInv', part by part.
LEMMA LockJoined ==
    ASSUME \A e \in Exec : att'[e].kind = "sched" /\ att'[e].pc # "manual",
           \A n \in Node : lost'[n] = {},
           \A e \in Exec : att'[e].pc \in Locked => HoldsAt(lock', lease', att'[e], e),
           \A n \in Node : loop'[n].pc \in {"recovering", "unlocking"} =>
              lock'[loop'[n].cur.task] = RecoveryOwner(n, loop'[n].cur.exec)
    PROVE  LockInv'
BY Zenon DEF LockInv, HoldsLock, RecoveryHoldsLock, HoldsAt

\* What an execution keeps as long as nobody touches its lock or its lease.
LEMMA HoldsKept ==
    ASSUME TypeOK, DispatchInv, LockInv, NEW e \in Exec, att[e].pc \in Locked, SameWork(att[e], att'[e]),
           lock'[att[e].task] = lock[att[e].task], lease'[att[e].node][att[e].task] = lease[att[e].node][att[e].task]
    PROVE  HoldsAt(lock', lease', att'[e], e)
<1>1. HoldsAt(lock, lease, att[e], e)
  BY LockFacts
<1> QED
  BY <1>1 DEF HoldsAt, SameWork

\* A step that frees the lock of at most one owner, and takes none.
LEMMA LockReleased ==
    ASSUME TypeOK, DispatchInv, LockInv, NEW t, NEW owner,
           \A u \in Task : lock'[u] = lock[u] \/ (u = t /\ lock[u] = owner)
    PROVE  /\ \A e \in Exec : att[e].pc \in Locked /\ owner # TaskOwner(att[e].node, e) =>
                lock'[att[e].task] = lock[att[e].task]
           /\ \A n \in Node : loop[n].pc \in {"recovering", "unlocking"} /\ owner # RecoveryOwner(n, loop[n].cur.exec) =>
                lock'[loop[n].cur.task] = lock[loop[n].cur.task]
<1>1. ASSUME NEW e \in Exec, att[e].pc \in Locked, owner # TaskOwner(att[e].node, e)
      PROVE  lock'[att[e].task] = lock[att[e].task]
  BY <1>1, LockFacts DEF HoldsAt
<1>2. ASSUME NEW n \in Node, loop[n].pc \in {"recovering", "unlocking"}, owner # RecoveryOwner(n, loop[n].cur.exec)
      PROVE  lock'[loop[n].cur.task] = lock[loop[n].cur.task]
  BY <1>2, LockFacts
<1> QED
  BY <1>1, <1>2

\* A thread that works on an execution frees its own lock, when it is done.
LEMMA LockAttempt ==
    ASSUME TypeOK, DispatchInv, LockInv, NEW e \in Exec, AttemptStep(e)
    PROVE  LockInv'
<1>1. UNCHANGED <<lost, loop>>
  BY AttemptShape
<1>2. \A f \in Exec : f # e => att'[f] = att[f]
  BY AttemptShape DEF Moves, Leaves
<1>3. att'[e].kind = "sched" /\ att'[e].pc # "manual" /\ (att'[e].pc \in Locked => att[e].pc \in Locked)
  <2>1. att[e].kind = "sched"
    BY DEF LockInv
  <2> QED
    BY <2>1, AttemptShape DEF Moves, Leaves, SameWork, Locked
<1>4. att'[e].pc \in Locked => SameWork(att[e], att'[e]) /\ UNCHANGED <<lock, lease>>
  BY AttemptShape DEF Moves, Leaves, Locked
<1> DEFINE owner == TaskOwner(att[e].node, e)
<1>5. \A u \in Task : lock'[u] = lock[u] \/ (u = att[e].task /\ lock[u] = owner)
  <2>1. CASE att[e].pc \in {"unlock", "cleanup"} /\ unlock(att[e].task, owner)
    <3>1. Busy(att[e])
      BY <2>1 DEF Busy
    <3>2. att[e].node \in Node
      BY <3>1 DEF DispatchInv, Placed
    <3>3. owner \in Owner
      BY <3>2 DEF TaskOwner, Owner, Exec
    <3>4. Released(att[e].task, owner)
      BY <2>1, <3>3, UnlockReleases
    <3> QED
      BY <3>4 DEF Released
  <2>2. CASE UNCHANGED lock
    BY <2>2
  <2> QED
    BY <2>1, <2>2, AttemptShape
<1>6. ASSUME NEW f \in Exec, att'[f].pc \in Locked PROVE HoldsAt(lock', lease', att'[f], f)
  <2>1. CASE f = e
    BY <1>3, <1>4, <1>6, <2>1, HoldsKept
  <2>2. CASE f # e
    <3>1. att'[f] = att[f] /\ att[f].pc \in Locked
      BY <1>2, <1>6, <2>2
    <3>2. owner # TaskOwner(att[f].node, f)
      BY SMTT(30), <2>2, OwnerFields
    <3>3. lock'[att[f].task] = lock[att[f].task]
      BY SMTT(30), <1>5, <3>1, <3>2, LockReleased
    <3>4. att[f].node \in Node /\ att[f].task \in Task /\ lease[att[f].node][att[f].task] = f
      BY <3>1, LockFacts DEF HoldsAt
    <3>5. lease'[att[f].node][att[f].task] = lease[att[f].node][att[f].task]
      <4>1. CASE Dropped(lease, lease', att[e].node, att[e].task, e)
        BY <2>2, <3>4, <4>1 DEF Dropped
      <4> QED
        BY <4>1, AttemptShape
    <3> QED
      BY <3>1, <3>3, <3>5, HoldsKept DEF SameWork
  <2> QED
    BY <2>1, <2>2
<1>7. ASSUME NEW n \in Node, loop'[n].pc \in {"recovering", "unlocking"}
      PROVE  lock'[loop'[n].cur.task] = RecoveryOwner(n, loop'[n].cur.exec)
  <2>1. owner # RecoveryOwner(n, loop[n].cur.exec)
    BY OwnerFields
  <2> QED
    BY <1>1, <1>5, <1>7, <2>1, LockReleased, LockFacts
<1>8. \A f \in Exec : att'[f].kind = "sched" /\ att'[f].pc # "manual"
  BY <1>2, <1>3 DEF LockInv
<1> QED
  BY <1>1, <1>6, <1>7, <1>8, LockJoined DEF LockInv

\* A step that touches no lock that somebody works under.
LEMMA LockUntouched ==
    ASSUME TypeOK, DispatchInv, LockInv, Stays, UNCHANGED <<lost, loop, lease>>,
           \A u \in Task : lock'[u] = lock[u] \/ ~Renewed(u)
    PROVE  LockInv'
<1>1. ASSUME NEW e \in Exec, att[e].pc \in Locked PROVE lock'[att[e].task] = lock[att[e].task]
  <2>1. /\ att[e].node \in Node /\ att[e].task \in Task /\ mode[att[e].node] # "down"
        /\ lock[att[e].task] = TaskOwner(att[e].node, e) /\ lease[att[e].node][att[e].task] = e
        /\ TaskOwner(att[e].node, e) \in Owner
    BY <1>1, LockFacts DEF HoldsAt
  <2>2. lock[att[e].task] # None
    BY <2>1, NoneAssumption
  <2>3. lock[att[e].task].by = "task" /\ lock[att[e].task].node = att[e].node /\ lock[att[e].task].exec = e
    <3>1. TaskOwner(att[e].node, e).by = "task" /\ TaskOwner(att[e].node, e).node = att[e].node
          /\ TaskOwner(att[e].node, e).exec = e
      BY DEF TaskOwner
    <3> QED
      BY <2>1, <3>1
  <2>4. Renewed(att[e].task)
    BY <2>1, <2>2, <2>3 DEF Renewed
  <2> QED
    BY <2>1, <2>4
<1>2. ASSUME NEW n \in Node, loop[n].pc \in {"recovering", "unlocking"}
      PROVE  lock'[loop[n].cur.task] = lock[loop[n].cur.task]
  <2> DEFINE t == loop[n].cur.task
  <2>1. t \in Task /\ mode[n] # "down" /\ lock[t] = RecoveryOwner(n, loop[n].cur.exec) /\ lock[t] \in Owner
    BY <1>2, LockFacts
  <2>2. lock[t] # None
    BY <2>1, NoneAssumption
  <2>3. lock[t].by = "recovery" /\ lock[t].node = n /\ lock[t].exec = loop[n].cur.exec
    BY <2>1, OwnerFields
  <2>4. Renewed(t)
    BY <1>2, <2>1, <2>2, <2>3 DEF Renewed
  <2> QED
    BY <2>1, <2>4
<1>3. ASSUME NEW e \in Exec, att'[e].pc \in Locked PROVE HoldsAt(lock', lease', att'[e], e)
  <2>1. att[e].pc \in Locked /\ SameWork(att[e], att'[e])
    BY <1>3 DEF Stays
  <2> QED
    BY <1>1, <2>1, HoldsKept
<1>4. ASSUME NEW n \in Node, loop'[n].pc \in {"recovering", "unlocking"}
      PROVE  lock'[loop'[n].cur.task] = RecoveryOwner(n, loop'[n].cur.exec)
  BY <1>2, <1>4, LockFacts
<1>5. \A e \in Exec : att'[e].kind = "sched" /\ att'[e].pc # "manual"
  BY DEF LockInv, Stays, SameWork
<1> QED
  BY <1>3, <1>4, <1>5, LockJoined DEF LockInv

\* The scan thread takes only locks that are free, and frees only the lock it recovers a task under.
LEMMA LockLoop ==
    ASSUME "redis" \notin Features, TypeOK, FreshExecs, DispatchInv, LockInv, NEW n \in Node, LoopStep(n)
    PROVE  LockInv'
<1>1. UNCHANGED lost /\ \A m \in Node : m # n => loop'[m] = loop[m]
  BY LoopShape
<1>free. ASSUME NEW t \in Task, Lockable(t)
         PROVE  /\ \A e \in Exec : att[e].pc \in Locked => att[e].task # t
                /\ \A m \in Node : loop[m].pc \in {"recovering", "unlocking"} => loop[m].cur.task # t
  <2>1. lock[t] = None /\ None \notin Owner
    BY <1>free, NoneAssumption DEF Lockable
  <2>2. \A e \in Exec : att[e].pc \in Locked => lock[att[e].task] \in Owner
    BY LockFacts DEF HoldsAt
  <2>3. \A m \in Node : loop[m].pc \in {"recovering", "unlocking"} => lock[loop[m].cur.task] \in Owner
    BY LockFacts
  <2> QED
    BY <2>1, <2>2, <2>3, Zenon
<1>2. CASE (Looks(n) \/ (loop[n].pc = "recovering" /\ loop'[n].pc = "unlocking" /\ loop'[n].cur = loop[n].cur))
           /\ UNCHANGED <<lock, lease, att>>
  <2>1. ASSUME NEW m \in Node, loop'[m].pc \in {"recovering", "unlocking"}
        PROVE  loop[m].pc \in {"recovering", "unlocking"} /\ loop'[m].cur = loop[m].cur
    BY <1>1, <1>2, <2>1 DEF Looks
  <2>2. \A m \in Node : loop'[m].pc \in {"recovering", "unlocking"} =>
           lock'[loop'[m].cur.task] = RecoveryOwner(m, loop'[m].cur.exec)
    BY <1>2, <2>1, LockFacts
  <2>3. \A e \in Exec : att'[e].pc \in Locked => HoldsAt(lock', lease', att'[e], e)
    BY <1>2, LockFacts
  <2> QED
    BY <1>1, <1>2, <2>2, <2>3, LockJoined DEF LockInv
<1>3. CASE TakesForRecovery(n) /\ UNCHANGED <<lease, att>>
  <2> DEFINE t == loop'[n].cur.task
  <2>1. /\ t \in Task /\ Lockable(t) /\ lock'[t] = RecoveryOwner(n, loop'[n].cur.exec)
        /\ \A u \in Task : u # t => lock'[u] = lock[u]
    BY <1>3 DEF TakesForRecovery
  <2>2. ASSUME NEW e \in Exec, att'[e].pc \in Locked PROVE HoldsAt(lock', lease', att'[e], e)
    <3>1. att[e].pc \in Locked /\ att[e].task \in Task /\ SameWork(att[e], att'[e])
      BY <1>3, <2>2, LockFacts DEF SameWork
    <3>2. lock'[att[e].task] = lock[att[e].task]
      BY <1>free, <2>1, <3>1
    <3> QED
      BY <1>3, <3>1, <3>2, HoldsKept
  <2>3. ASSUME NEW m \in Node, loop'[m].pc \in {"recovering", "unlocking"}
        PROVE  lock'[loop'[m].cur.task] = RecoveryOwner(m, loop'[m].cur.exec)
    <3>1. CASE m = n
      BY <2>1, <3>1
    <3>2. CASE m # n
      <4>1. loop'[m] = loop[m]
        BY <1>1, <3>2
      <4>2. loop[m].cur.task \in Task /\ loop[m].cur.task # t /\ lock[loop[m].cur.task] = RecoveryOwner(m, loop[m].cur.exec)
        BY <1>free, <2>1, <2>3, <4>1, LockFacts
      <4> QED
        BY <2>1, <4>1, <4>2
    <3> QED
      BY <3>1, <3>2
  <2> QED
    BY <1>1, <1>3, <2>2, <2>3, LockJoined DEF LockInv
<1>4. CASE loop[n].pc = "unlocking" /\ loop'[n].pc = "scan"
           /\ unlock(loop[n].cur.task, RecoveryOwner(n, loop[n].cur.exec)) /\ UNCHANGED <<lease, att>>
  <2> DEFINE owner == RecoveryOwner(n, loop[n].cur.exec)
  <2>1. owner \in Owner
    BY <1>4, LockFacts
  <2>2. Released(loop[n].cur.task, owner)
    BY <1>4, <2>1, UnlockReleases
  <2>3. \A u \in Task : lock'[u] = lock[u] \/ (u = loop[n].cur.task /\ lock[u] = owner)
    BY <2>2 DEF Released
  <2>4. ASSUME NEW e \in Exec, att'[e].pc \in Locked PROVE HoldsAt(lock', lease', att'[e], e)
    <3>1. att[e].pc \in Locked /\ SameWork(att[e], att'[e])
      BY <1>4, <2>4 DEF SameWork
    <3>2. att[e].task \in Task /\ lock[att[e].task] = TaskOwner(att[e].node, e)
      BY <3>1, LockFacts DEF HoldsAt
    <3>3. TaskOwner(att[e].node, e).by = "task" /\ owner.by = "recovery"
      BY DEF TaskOwner, RecoveryOwner
    <3>4. lock'[att[e].task] = lock[att[e].task]
      BY <2>3, <3>2, <3>3
    <3> QED
      BY <1>4, <3>1, <3>4, HoldsKept
  <2>5. ASSUME NEW m \in Node, loop'[m].pc \in {"recovering", "unlocking"}
        PROVE  lock'[loop'[m].cur.task] = RecoveryOwner(m, loop'[m].cur.exec)
    <3>1. m # n /\ loop'[m] = loop[m]
      BY <1>1, <1>4, <2>5
    <3>2. owner # RecoveryOwner(m, loop[m].cur.exec)
      BY <3>1, OwnerFields
    <3> QED
      BY <2>3, <2>5, <3>1, <3>2, LockReleased, LockFacts
  <2> QED
    BY <1>1, <1>4, <2>4, <2>5, LockJoined DEF LockInv
<1>5. ASSUME NEW t \in Task, Takes(n, t), Draws("claim", "sched", n, t) PROVE LockInv'
  <2>1. /\ Lockable(t) /\ lock'[t] = TaskOwner(n, nextExec) /\ lease'[n][t] = nextExec
        /\ \A u \in Task : u # t => lock'[u] = lock[u]
        /\ \A m \in Node, u \in Task : m # n \/ u # t => lease'[m][u] = lease[m][u]
    BY <1>5 DEF Takes
  <2>2. /\ nextExec \in Exec /\ \A f \in Exec : f # nextExec => att'[f] = att[f]
        /\ att'[nextExec].node = n /\ att'[nextExec].task = t /\ att'[nextExec].kind = "sched" /\ att'[nextExec].pc = "claim"
    BY <1>5 DEF Draws
  <2>3. ASSUME NEW e \in Exec, att'[e].pc \in Locked PROVE HoldsAt(lock', lease', att'[e], e)
    <3>1. CASE e = nextExec
      BY <2>1, <2>2, <3>1 DEF HoldsAt
    <3>2. CASE e # nextExec
      <4>1. att'[e] = att[e] /\ att[e].pc \in Locked
        BY <2>2, <2>3, <3>2
      <4>2. att[e].node \in Node /\ att[e].task \in Task /\ att[e].task # t
        BY <1>free, <2>1, <4>1, LockFacts
      <4> QED
        BY <2>1, <4>1, <4>2, HoldsKept DEF SameWork
    <3> QED
      BY <3>1, <3>2
  <2>4. ASSUME NEW m \in Node, loop'[m].pc \in {"recovering", "unlocking"}
        PROVE  lock'[loop'[m].cur.task] = RecoveryOwner(m, loop'[m].cur.exec)
    <3>1. loop'[m] = loop[m]
      BY <1>1, <1>5, <2>4 DEF Takes
    <3>2. loop[m].cur.task \in Task /\ loop[m].cur.task # t /\ lock[loop[m].cur.task] = RecoveryOwner(m, loop[m].cur.exec)
      BY <1>free, <2>1, <2>4, <3>1, LockFacts
    <3> QED
      BY <2>1, <3>1, <3>2
  <2>5. \A e \in Exec : att'[e].kind = "sched" /\ att'[e].pc # "manual"
    BY <2>2 DEF LockInv
  <2> QED
    BY <1>1, <2>3, <2>4, <2>5, LockJoined DEF LockInv
<1>6. ~Fault("redis")
  BY DEF Fault
<1> QED
  BY <1>2, <1>3, <1>4, <1>5, <1>6, LoopShape

\* A crash takes its executions along with their leases; the locks stay behind.
LEMMA LockNode ==
    ASSUME TypeOK, DispatchInv, LockInv, NEW n \in Node, NodeStep(n)
    PROVE  LockInv'
<1>lock. UNCHANGED lock
  BY NodeShape
<1>1. CASE Crashes(n)
  <2>1. Gone("dead").pc = "dead" /\ Gone("dead").kind = "sched" /\ IdleLoop.pc = "scan" /\ "dead" \notin Locked
    BY DEF Gone, NoAttempt, IdleLoop, Locked
  <2>2. \A f \in Exec : IF att[f].node = n THEN att'[f] = Gone("dead") ELSE att'[f] = att[f]
    BY <1>1 DEF Crashes
  <2>3. \A m \in Node : IF m = n THEN loop'[m] = IdleLoop ELSE loop'[m] = loop[m]
    BY <1>1 DEF Crashes
  <2>4. ASSUME NEW e \in Exec, att'[e].pc \in Locked PROVE HoldsAt(lock', lease', att'[e], e)
    <3>1. att[e].node # n /\ att'[e] = att[e]
      BY <2>1, <2>2, <2>4
    <3>2. att[e].node \in Node /\ att[e].task \in Task
      BY <2>4, <3>1, LockFacts
    <3>3. lease'[att[e].node][att[e].task] = lease[att[e].node][att[e].task]
      BY <1>1, <3>1, <3>2 DEF Crashes
    <3> QED
      BY <1>lock, <2>4, <3>1, <3>3, HoldsKept DEF SameWork
  <2>5. ASSUME NEW m \in Node, loop'[m].pc \in {"recovering", "unlocking"}
        PROVE  lock'[loop'[m].cur.task] = RecoveryOwner(m, loop'[m].cur.exec)
    BY <1>lock, <2>1, <2>3, <2>5, LockFacts
  <2>6. \A e \in Exec : att'[e].kind = "sched" /\ att'[e].pc # "manual"
    BY <2>1, <2>2 DEF LockInv
  <2>7. \A m \in Node : lost'[m] = {}
    BY <1>1 DEF Crashes, LockInv
  <2> QED
    BY <2>4, <2>5, <2>6, <2>7, LockJoined
<1>2. CASE Closes(n) /\ UNCHANGED <<loop, att>>
  <2>1. ASSUME NEW e \in Exec, att'[e].pc \in Locked PROVE HoldsAt(lock', lease', att'[e], e)
    <3>1. att'[e] = att[e] /\ att[e].node \in Node /\ att[e].task \in Task
      BY <1>2, <2>1, LockFacts
    <3>2. att[e].node # n
      BY <1>2 DEF Closes, Drained, LockInv
    <3>3. lease'[att[e].node][att[e].task] = lease[att[e].node][att[e].task]
      BY <1>2, <3>1, <3>2 DEF Closes
    <3> QED
      BY <1>lock, <2>1, <3>1, <3>3, HoldsKept DEF SameWork
  <2>2. \A m \in Node : lost'[m] = {}
    BY <1>2 DEF Closes, LockInv
  <2>3. \A m \in Node : loop'[m].pc \in {"recovering", "unlocking"} =>
           lock'[loop'[m].cur.task] = RecoveryOwner(m, loop'[m].cur.exec)
    BY <1>lock, <1>2, LockFacts
  <2> QED
    BY <1>2, <2>1, <2>2, <2>3, LockJoined DEF LockInv
<1>3. CASE UNCHANGED <<lease, lost, loop, att>>
  <2>1. Stays
    BY <1>3 DEF Stays, SameWork
  <2> QED
    BY <1>lock, <1>3, <2>1, LockUntouched
<1> QED
  BY <1>1, <1>2, <1>3, NodeShape

\* Every step keeps LockInv: the renewer finds nothing lost, and no lock expires that somebody works under.
LEMMA LockNext ==
    ASSUME "redis" \notin Features, "lapse" \notin Features, "run_now" \notin Features,
           TypeOK, HolderInv, DispatchInv, LockInv, [Next]_vars
    PROVE  LockInv'
<1>fresh. FreshExecs
  BY DEF HolderInv
<1>1. ASSUME NEW n \in Node, RenewerStep(n) PROVE FALSE
  <2>1. lost[n] = {}
    BY DEF LockInv
  <2>2. PICK t \in Task : lease[n][t] # NoExec /\ lock[t] # TaskOwner(n, lease[n][t])
    BY <1>1, <2>1, RenewerShape DEF GivesUp
  <2>3. lease[n][t] \in Exec /\ OwnEntry(att[lease[n][t]], n, t)
    BY <2>2, LeaseParts
  <2> QED
    BY <2>2, <2>3, LockFacts DEF OwnEntry, HoldsAt
<1>2. ASSUME NEW e \in Exec, ManualStep(e) PROVE FALSE
  BY <1>2, ManualShape DEF LockInv
<1>3. ASSUME NEW n \in Node, NEW t \in Task, RequestStep(n, t) PROVE LockInv'
  BY <1>3, RequestShape, LockUntouched
<1>4. ASSUME NEW t \in Task, ExpireLock(t) PROVE LockInv'
  <2>1. UNCHANGED <<lost, loop, lease, att>> /\ ~Renewed(t)
    BY <1>4 DEF ExpireLock, nodeVars
  <2>2. \A u \in Task : lock'[u] = lock[u] \/ ~Renewed(u)
    BY <1>4, <2>1 DEF ExpireLock, TypeOK
  <2>3. Stays
    BY <2>1 DEF Stays, SameWork
  <2> QED
    BY <2>1, <2>2, <2>3, LockUntouched
<1>5. ASSUME Tick \/ (\E ed \in edit : WriteEdit(ed)) \/ UNCHANGED vars PROVE LockInv'
  <2>1. UNCHANGED <<lost, loop, lease, att, lock>>
    BY <1>5 DEF Tick, WriteEdit, nodeVars, vars
  <2>2. Stays
    BY <2>1 DEF Stays, SameWork
  <2> QED
    BY <2>1, <2>2, LockUntouched
<1> QED
  BY <1>fresh, <1>1, <1>2, <1>3, <1>4, <1>5, LockAttempt, LockLoop, LockNode DEF Next, SchedulerNext, DispatcherNext, NodeNext

\* At the start no lock is held.
LEMMA LockInit == Init => LockInv
<1> SUFFICES ASSUME Init PROVE LockInv
  OBVIOUS
<1>1. att = [e \in Exec |-> NoAttempt] /\ loop = [n \in Node |-> IdleLoop] /\ lost = [n \in Node |-> {}]
  BY DEF Init, SchedulerInit
<1> QED
  BY <1>1 DEF LockInv, HoldsLock, RecoveryHoldsLock, NoAttempt, IdleLoop, Locked

\* Through crashes, cancellations, edits, shutdowns, failed database calls and recoveries, at most one execution of a
\* task is outstanding at the workers, where locks are renewed in time, Redis answers and RunTaskNow, which takes
\* no lock, is not used (RedisClient::lock, LockRenewer::loop, the scope guards of scanAndDispatch).
THEOREM ExecutionsDoNotOverlap ==
    ASSUME "redis" \notin Features, "lapse" \notin Features, "run_now" \notin Features
    PROVE  Spec => []NoOverlap
<1>1. TypeOK /\ HolderInv /\ DispatchInv /\ LockInv /\ [Next]_vars => LockInv'
  BY LockNext
<1>2. TypeOK /\ DispatchInv /\ LockInv => NoOverlap
  <2> SUFFICES ASSUME TypeOK, DispatchInv, LockInv, NEW e \in Exec, NEW f \in Exec, att[e].pc = "rpc", att[f].pc = "rpc",
                      att[e].task = att[f].task
               PROVE  e = f
    BY DEF NoOverlap
  <2>1. "rpc" \in Locked
    BY DEF Locked
  <2>2. lock[att[e].task] = TaskOwner(att[e].node, e) /\ lock[att[f].task] = TaskOwner(att[f].node, f)
    BY <2>1, LockFacts DEF HoldsAt
  <2> QED
    BY <2>2, OwnerFields
<1> QED
  BY <1>1, <1>2, LockInit, WorkAlways, PTL DEF Spec

-----------------------------------------------------------------------------
(* Recovery *)

\* What RecoveryTakesOnlyOrphans asks of a step.
OrphansOnly ==
    \A t \in Task, e \in Exec :
        row[t].exec = e /\ row'[t].exec # e /\ Live(e) /\ att[e].pc \notin {"unlock", "cleanup"} =>
            att'[e].pc # att[e].pc \/ row'[t].status = "disabled"

\* A recovery and a live execution of the same task would both hold its lock.
LEMMA RecoveryStep ==
    ASSUME TypeOK, HolderInv, DispatchInv, WorkInv, LockInv, [Next]_vars
    PROVE  OrphansOnly
<1> SUFFICES ASSUME NEW t \in Task, NEW e \in Exec, row[t].exec = e, row'[t].exec # e, Live(e),
                    att[e].pc \notin {"unlock", "cleanup"}
             PROVE  att'[e].pc # att[e].pc \/ row'[t].status = "disabled"
  BY DEF OrphansOnly
<1>1. row[t].status = "running" /\ row[t] \in Row /\ row'[t] # row[t] /\ Past(att[e]) /\ e # NoExec
  BY ExecsAreNotNoExec DEF HolderInv, RowsHeld, Held, ClaimedOnce, TypeOK
<1>2. att[e].pc \in Locked /\ att[e].task = t
  <2>1. att[e].pc \in PCs
    BY DEF TypeOK, Attempt
  <2>2. att[e].task = t
    BY <1>1 DEF WorkInv, HeldTask
  <2>3. att[e].pc \in Locked
    BY <1>1, <2>1 DEF PCs, Locked, Past, Live
  <2> QED
    BY <2>2, <2>3
<1>3. lock[t] = TaskOwner(att[e].node, e)
  BY <1>2 DEF LockInv, HoldsLock
<1>4. ASSUME NEW f \in Exec, WrittenByThread(t, f) PROVE att'[e].pc # att[e].pc
  <2>1. att[f].pc # "manual" /\ att'[f].pc # att[f].pc
    BY <1>4, Zenon DEF LockInv, WrittenByThread
  <2>2. PICK status, next, retry : row'[t] = completeTaskExecution(row[t], f, status, next, retry)
    BY <1>1, <1>4, <2>1, Zenon DEF WrittenByThread
  <2>3. f = e
    BY <1>1, <2>2 DEF completeTaskExecution
  <2> QED
    BY <2>1, <2>3
<1>5. ASSUME NEW n \in Node, WrittenByLoop(t, n) PROVE FALSE
  <2>1. CASE loop[n].pc = "recovering"
    <3>1. lock[t] = RecoveryOwner(n, loop[n].cur.exec)
      BY <1>5, <2>1, Zenon DEF LockInv, RecoveryHoldsLock, WrittenByLoop
    <3>2. lock[t].by = "recovery"
      BY <3>1, OwnerFields
    <3>3. lock[t].by = "task"
      BY <1>3, OwnerFields
    <3> QED
      BY <3>2, <3>3
  <2>2. CASE loop[n].pc # "recovering"
    BY <1>1, <1>5, <2>2, Zenon DEF WrittenByLoop, updateTaskRuntime, NotRunning
  <2> QED
    BY <2>1, <2>2
<1>6. ASSUME WrittenByRequest(t) PROVE row'[t].status = "disabled"
  <2>1. row'[t] = cancelTask(row[t])
    BY <1>1, <1>6, Zenon DEF WrittenByRequest, deleteTask, updateTaskRuntime, updateTaskDefinition, NotRunning
  <2> QED
    BY <1>1, <2>1 DEF cancelTask, Exists, Stored, Row
<1> QED
  BY <1>1, <1>4, <1>5, <1>6, RowWriters

\* Through crashes, cancellations, edits, shutdowns and failed database calls, recoverStaleExecutions takes a
\* row only from an execution nobody works on any more, where locks are renewed in time, Redis answers and
\* RunTaskNow, which takes no lock, is not used: however long an execution runs, its lock keeps recovery off.
THEOREM OnlyOrphansAreRecovered ==
    ASSUME "redis" \notin Features, "lapse" \notin Features, "run_now" \notin Features
    PROVE  Spec => RecoveryTakesOnlyOrphans
<1>1. TypeOK /\ HolderInv /\ DispatchInv /\ LockInv /\ [Next]_vars => LockInv'
  BY LockNext
<1>2. TypeOK /\ HolderInv /\ DispatchInv /\ WorkInv /\ LockInv /\ [Next]_vars => [OrphansOnly]_vars
  BY RecoveryStep
<1>3. Spec => [][OrphansOnly]_vars
  BY <1>1, <1>2, LockInit, WorkAlways, PTL DEF Spec
<1> QED
  BY <1>3 DEF RecoveryTakesOnlyOrphans, OrphansOnly
=============================================================================
