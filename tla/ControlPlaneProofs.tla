-------------------------- MODULE ControlPlaneProofs --------------------------
(***************************************************************************)
(* ControlPlane keeps its types, HolderInv is an invariant, ControlPlane   *)
(* implements TaskLifecycle: for any nodes, tasks, features and bounds.    *)
(* At the end: who writes a row, for the later proofs.                     *)
(***************************************************************************)
EXTENDS ControlPlaneInv, TLAPS

-----------------------------------------------------------------------------
(* What the operators return *)

\* What the statements of MySQLClient write is again a row of the table.
LEMMA StatementsKeepRows ==
    /\ \A next \in Nat, max \in Nat : addTask(next, max) \in Row
    /\ \A r \in Row : deleteTask(r) \in Row /\ cancelTask(r) \in Row
    /\ \A r \in Row, e \in Nat : claimTaskExecution(r, e) \in Row
    /\ \A r \in Row, e \in Nat : recoverTaskExecution(r, e) \in Row
    /\ \A r \in Row, st \in Statuses, next \in Nat, retry \in Nat :
         updateTaskRuntime(r, st, next, retry) \in Row
    /\ \A r \in Row, st \in Statuses, next \in Nat, retry \in Nat, max \in Nat :
         updateTaskDefinition(r, st, next, retry, max) \in Row
    /\ \A r \in Row, e \in Nat, st \in Statuses, next \in Nat, retry \in Nat :
         completeTaskExecution(r, e, st, next, retry) \in Row
<1>1. \A next \in Nat, max \in Nat : addTask(next, max) \in Row
  BY DEF Row, Stored, Statuses, NoExec, addTask
<1>2. \A r \in Row : deleteTask(r) \in Row /\ cancelTask(r) \in Row
  BY Zenon DEF Row, NoRow, Stored, Statuses, NoExec, deleteTask, cancelTask
<1>3. \A r \in Row, e \in Nat : claimTaskExecution(r, e) \in Row /\ recoverTaskExecution(r, e) \in Row
  BY Zenon DEF Row, Stored, Statuses, NoExec, claimTaskExecution, recoverTaskExecution
<1>4. \A r \in Row, st \in Statuses, next \in Nat, retry \in Nat :
        updateTaskRuntime(r, st, next, retry) \in Row
  BY Zenon DEF Row, NoExec, updateTaskRuntime
<1>5. \A r \in Row, st \in Statuses, next \in Nat, retry \in Nat, max \in Nat :
        updateTaskDefinition(r, st, next, retry, max) \in Row
  BY Zenon DEF Row, updateTaskDefinition
<1>6. \A r \in Row, e \in Nat, st \in Statuses, next \in Nat, retry \in Nat :
        completeTaskExecution(r, e, st, next, retry) \in Row
  BY Zenon DEF Row, NoExec, completeTaskExecution
<1> QED
  BY <1>1, <1>2, <1>3, <1>4, <1>5, <1>6

\* Cron and the retry back-off put next_run_at after the time they start from.
LEMMA LaterIsLater == \A t \in Nat : \A u \in Later(t) : u \in Nat /\ u > t
BY ConstantsAssumption DEF Later

\* The values state starts from have the types of that state.
LEMMA InitialValues ==
    /\ NoRow \in Row /\ NoCurrent \in Current /\ IdleLoop \in LoopState /\ NoRecord \in Record
    /\ NoAttempt \in Attempt
<1>1. NoRow \in Row
  BY DEF NoRow, Row, Statuses, Stored, NoExec
<1>2. NoCurrent \in Current
  BY <1>1 DEF NoCurrent, Current, NoExec
<1>3. IdleLoop \in LoopState
  BY <1>2 DEF IdleLoop, LoopState
<1>4. NoAttempt \in Attempt /\ NoRecord \in Record
  BY <1>1 DEF NoAttempt, Attempt, PCs, Outcomes, NoRecord, Record
<1> QED
  BY <1>1, <1>2, <1>3, <1>4

\* What a thread does to its locals keeps their type.
LEMMA AttemptsStayAttempts ==
    /\ \A pc \in PCs : Gone(pc) \in Attempt
    /\ \A pc \in PCs, kind \in {"sched", "manual"}, n \in Node, t \in Task, r \in Row :
         Begin(pc, kind, n, t, r) \in Attempt
    /\ \A a \in Attempt, pc \in PCs : At(a, pc) \in Attempt
    /\ \A a \in Attempt : Cancelled(a) \in Attempt
    /\ now \in Nat => \A a \in Attempt, out \in Outcomes : Ended(a, out) \in Attempt
<1>1. \A pc \in PCs : Gone(pc) \in Attempt
  BY InitialValues DEF Gone, Attempt
<1>2. \A pc \in PCs, kind \in {"sched", "manual"}, n \in Node, t \in Task, r \in Row :
        Begin(pc, kind, n, t, r) \in Attempt
  BY InitialValues, Zenon DEF Begin, Attempt
<1>3. \A a \in Attempt, pc \in PCs : At(a, pc) \in Attempt
  BY DEF At, Attempt
<1>4. \A a \in Attempt : Cancelled(a) \in Attempt
  BY Zenon DEF Cancelled, Attempt
<1>5. now \in Nat => \A a \in Attempt, out \in Outcomes : Ended(a, out) \in Attempt
  BY Zenon DEF Ended, Attempt, PCs
<1> QED
  BY <1>1, <1>2, <1>3, <1>4, <1>5

\* The rows a completing execution asks for are rows.
LEMMA NextRowsTyped ==
    ASSUME NEW a \in Attempt, NEW r \in NextRows(a)
    PROVE  r \in Row
<1>1. a.snap \in Row /\ a.end \in Nat /\ a.snap.next \in Nat /\ a.snap.retry \in Nat /\ a.snap.retry + 1 \in Nat
  BY DEF Attempt, Row
<1>2. \A st \in Statuses, next \in Nat, rc \in Nat :
        [a.snap EXCEPT !.status = st, !.next = next, !.retry = rc] \in Row
  BY <1>1, Zenon DEF Row
<1>3. "scheduled" \in Statuses /\ "disabled" \in Statuses
  BY DEF Statuses, Stored
<1>4. \E st \in Statuses, next \in Nat, rc \in Nat :
        r = [a.snap EXCEPT !.status = st, !.next = next, !.retry = rc]
  BY <1>1, <1>3, LaterIsLater, Zenon DEF NextRows
<1> QED
  BY <1>2, <1>4, Zenon

\* Setting one entry of a two-level function.
LEMMA SetEntry ==
    ASSUME NEW S, NEW f \in [Node -> [Task -> S]], NEW n, NEW t, NEW v \in S
    PROVE  [f EXCEPT ![n][t] = v] \in [Node -> [Task -> S]]
BY Zenon

\* Removing an execution from the renewer and the registry keeps their types.
LEMMA ForgetTyped ==
    ASSUME NEW n, NEW t, NEW e, Forget(n, t, e),
           lease \in [Node -> [Task -> 0..MaxExec]], reg \in [Node -> [Task -> 0..MaxExec]]
    PROVE  lease' \in [Node -> [Task -> 0..MaxExec]] /\ reg' \in [Node -> [Task -> 0..MaxExec]]
<1>1. NoExec \in 0..MaxExec
  BY ConstantsAssumption DEF NoExec
<1>2. CASE n \in Node /\ t \in Task
  BY <1>1, <1>2, SetEntry DEF Forget
<1>3. CASE ~(n \in Node /\ t \in Task)
  BY <1>3, Zenon DEF Forget
<1> QED
  BY <1>2, <1>3

-----------------------------------------------------------------------------
(* Type correctness: one step for each variable an action changes *)

\* The scan thread keeps the types.
LEMMA TypeLoop ==
    ASSUME TypeOK, NEW n \in Node, LoopStep(n), UNCHANGED dispVars
    PROVE  TypeOK'
<1>loop. loop \in [Node -> LoopState]
  BY DEF TypeOK
<1>row. row \in [Task -> Row]
  BY DEF TypeOK
<1>lock. lock \in [Task -> Owner \cup {None}]
  BY DEF TypeOK
<1>faults. faults \in 0..MaxFaults
  BY DEF TypeOK
<1>now. now \in 0..MaxTime /\ now \in Nat
  BY ConstantsAssumption DEF TypeOK
<1>nextExec. nextExec \in 1..(MaxExec + 1)
  BY DEF TypeOK
<1>lease. lease \in [Node -> [Task -> 0..MaxExec]]
  BY DEF TypeOK
<1>reg. reg \in [Node -> [Task -> 0..MaxExec]]
  BY DEF TypeOK
<1>att. att \in [Exec -> Attempt]
  BY DEF TypeOK
<1>due. \A s \in loop[n].due : s[1] \in Task /\ s[2] \in Row
  BY <1>loop DEF LoopState
<1>1. CASE \E S \in SUBSET Running : ScanStale(n, S)
  <2>1. loop' \in [Node -> LoopState]
    BY <1>1, <1>loop, <1>row DEF ScanStale, Running, LoopState, Row
  <2> QED
    BY <1>1, <2>1 DEF TypeOK, ScanStale, Running, storeVars, nodeVars, dispVars
<1>2. CASE RecoverLock(n)
  <2>1. lock' \in [Task -> Owner \cup {None}]
    BY <1>2, <1>lock, <1>loop DEF RecoverLock, NoFault, Fault, RecoveryOwner, Owner, LoopState
  <2>2. loop' \in [Node -> LoopState]
    <3>1. \A p \in loop[n].stale : loop[n].stale \ {p} \in SUBSET (Task \X Nat)
      BY <1>loop DEF LoopState
    <3>2. \A p \in loop[n].stale : [task |-> p[1], exec |-> p[2], row |-> NoRow] \in Current
      BY <1>loop, InitialValues DEF LoopState, Current
    <3>3. \A S \in SUBSET (Task \X Nat), c \in Current :
            /\ [loop[n] EXCEPT !.stale = S] \in LoopState
            /\ [loop[n] EXCEPT !.pc = "recovering", !.stale = S, !.cur = c] \in LoopState
      BY <1>loop, Zenon DEF LoopState
    <3>4. PICK p \in loop[n].stale :
            \/ loop' = [loop EXCEPT ![n].stale = loop[n].stale \ {p}]
            \/ loop' = [loop EXCEPT ![n] = [@ EXCEPT !.pc = "recovering", !.stale = loop[n].stale \ {p},
                                              !.cur = [task |-> p[1], exec |-> p[2], row |-> NoRow]]]
      BY <1>2, Zenon DEF RecoverLock
    <3>5. [loop[n] EXCEPT !.stale = loop[n].stale \ {p}] \in LoopState
      BY <3>1, <3>2, <3>3, Zenon
    <3>6. [loop[n] EXCEPT !.pc = "recovering", !.stale = loop[n].stale \ {p},
                        !.cur = [task |-> p[1], exec |-> p[2], row |-> NoRow]] \in LoopState
      BY <3>1, <3>2, <3>3, Zenon
    <3> QED
      BY <1>loop, <3>4, <3>5, <3>6
  <2>3. faults' \in 0..MaxFaults
    BY <1>2, <1>faults, ConstantsAssumption DEF RecoverLock, NoFault, Fault
  <2> QED
    BY <1>2, <2>1, <2>2, <2>3 DEF TypeOK, RecoverLock, storeVars, nodeVars, dispVars
<1>3. CASE RecoverRow(n)
  <2>1. row' \in [Task -> Row]
    BY <1>3, <1>row, <1>loop, StatementsKeepRows DEF RecoverRow, NoFault, Fault, LoopState, Current
  <2>2. loop' \in [Node -> LoopState]
    BY <1>3, <1>loop DEF RecoverRow, LoopState
  <2>3. faults' \in 0..MaxFaults
    BY <1>3, <1>faults, ConstantsAssumption DEF RecoverRow, NoFault, Fault
  <2> QED
    BY <1>3, <2>1, <2>2, <2>3 DEF TypeOK, RecoverRow, storeVars, nodeVars, dispVars
<1>4. CASE RecoverUnlock(n)
  <2>1. lock' \in [Task -> Owner \cup {None}]
    BY <1>4, <1>lock DEF RecoverUnlock, unlock, Unlocked
  <2>2. loop' \in [Node -> LoopState]
    BY <1>4, <1>loop, InitialValues, Zenon DEF RecoverUnlock, unlock, LoopState
  <2>3. faults' \in 0..MaxFaults
    BY <1>4, <1>faults, ConstantsAssumption DEF RecoverUnlock, unlock, NoFault, Fault
  <2> QED
    BY <1>4, <2>1, <2>2, <2>3 DEF TypeOK, RecoverUnlock, unlock, storeVars, nodeVars, dispVars
<1>5. CASE ScanDue(n)
  <2>1. loop' \in [Node -> LoopState]
    BY <1>5, <1>loop, <1>row DEF ScanDue, LoopState, Due
  <2> QED
    BY <1>5, <2>1 DEF TypeOK, ScanDue, storeVars, nodeVars, dispVars
<1>6. CASE PlanSkip(n)
  <2>1. loop' \in [Node -> LoopState]
    <3>1. \A s \in loop[n].due : \A r \in SkippedRows(s[2]) : r \in Row
      BY <1>due, <1>now, LaterIsLater DEF SkippedRows, Row, Statuses, Stored
    <3>2. \A s \in loop[n].due, r \in Row : [task |-> s[1], exec |-> NoExec, row |-> r] \in Current
      BY <1>due DEF Current, NoExec
    <3>3. \A s \in loop[n].due, c \in Current :
            [loop[n] EXCEPT !.pc = "skip", !.due = loop[n].due \ {s}, !.cur = c] \in LoopState
      BY <1>loop, Zenon DEF LoopState
    <3>4. PICK s \in loop[n].due : \E r \in SkippedRows(s[2]) :
            loop' = [loop EXCEPT ![n] = [@ EXCEPT !.pc = "skip", !.due = loop[n].due \ {s},
                                           !.cur = [task |-> s[1], exec |-> NoExec, row |-> r]]]
      BY <1>6, Zenon DEF PlanSkip
    <3>5. \A r \in SkippedRows(s[2]) :
            [loop[n] EXCEPT !.pc = "skip", !.due = loop[n].due \ {s}, !.cur = [task |-> s[1], exec |-> NoExec, row |-> r]] \in LoopState
      BY <3>1, <3>2, <3>3, Zenon
    <3> QED
      BY <1>loop, <3>4, <3>5, Zenon
  <2> QED
    BY <1>6, <2>1 DEF TypeOK, PlanSkip, storeVars, nodeVars, dispVars
<1>7. CASE WriteSkip(n)
  <2>1. row' \in [Task -> Row]
    BY <1>7, <1>row, <1>loop, StatementsKeepRows, SMTT(60) DEF WriteSkip, LoopState, Current, Row, NoFault, Fault
  <2>2. loop' \in [Node -> LoopState]
    BY <1>7, <1>loop, InitialValues, Zenon DEF WriteSkip, LoopState
  <2>3. faults' \in 0..MaxFaults
    BY <1>7, <1>faults, ConstantsAssumption DEF WriteSkip, NoFault, Fault
  <2> QED
    BY <1>7, <2>1, <2>2, <2>3 DEF TypeOK, WriteSkip, storeVars, nodeVars, dispVars
<1>8. CASE NoWorker(n)
  <2>1. loop' \in [Node -> LoopState]
    BY <1>8, <1>loop DEF NoWorker, LoopState
  <2> QED
    BY <1>8, <2>1 DEF TypeOK, NoWorker, storeVars, nodeVars, dispVars
<1>9. CASE LockTask(n)
  <2>1. lock' \in [Task -> Owner \cup {None}]
    BY <1>9, <1>lock, <1>loop, <1>nextExec, ConstantsAssumption DEF LockTask, TaskOwner, Owner, LoopState
  <2>2. lease' \in [Node -> [Task -> 0..MaxExec]]
    <3>1. nextExec \in 0..MaxExec
      BY <1>9, <1>nextExec, ConstantsAssumption DEF LockTask
    <3>2. \A t : [lease EXCEPT ![n][t] = nextExec] \in [Node -> [Task -> 0..MaxExec]]
      BY <1>lease, <3>1, SetEntry, Zenon
    <3> QED
      BY <1>9, <3>1, <3>2 DEF LockTask
  <2>3. reg' \in [Node -> [Task -> 0..MaxExec]]
    <3>1. nextExec \in 0..MaxExec
      BY <1>9, <1>nextExec, ConstantsAssumption DEF LockTask
    <3>2. \A t : [reg EXCEPT ![n][t] = nextExec] \in [Node -> [Task -> 0..MaxExec]]
      BY <1>reg, <3>1, SetEntry, Zenon
    <3> QED
      BY <1>9, <3>1, <3>2, Zenon DEF LockTask
  <2>4. att' \in [Exec -> Attempt]
    BY <1>9, <1>att, <1>due, <1>nextExec, ConstantsAssumption, AttemptsStayAttempts DEF LockTask, PCs, Exec
  <2>5. loop' \in [Node -> LoopState]
    BY <1>9, <1>loop DEF LockTask, LoopState
  <2>6. nextExec' \in 1..(MaxExec + 1)
    BY <1>9, <1>nextExec, ConstantsAssumption DEF LockTask
  <2> QED
    BY <1>9, <2>1, <2>2, <2>3, <2>4, <2>5, <2>6 DEF TypeOK, LockTask, storeVars, nodeVars, dispVars
<1>10. CASE LockBusy(n)
  <2>1. lock' \in [Task -> Owner \cup {None}]
    BY <1>10, <1>lock, <1>loop, <1>nextExec, ConstantsAssumption DEF LockBusy, TaskOwner, Owner, LoopState, NoFault, Fault
  <2>2. att' \in [Exec -> Attempt]
    BY <1>10, <1>att, AttemptsStayAttempts DEF LockBusy, PCs, NoFault, Fault
  <2>3. loop' \in [Node -> LoopState]
    BY <1>10, <1>loop DEF LockBusy, LoopState
  <2>4. nextExec' \in 1..(MaxExec + 1)
    BY <1>10, <1>nextExec, ConstantsAssumption DEF LockBusy, NoFault, Fault
  <2>5. faults' \in 0..MaxFaults
    BY <1>10, <1>faults, ConstantsAssumption DEF LockBusy, NoFault, Fault
  <2> QED
    BY <1>10, <2>1, <2>2, <2>3, <2>4, <2>5 DEF TypeOK, LockBusy, storeVars, nodeVars, dispVars
<1> QED
  BY <1>1, <1>2, <1>3, <1>4, <1>5, <1>6, <1>7, <1>8, <1>9, <1>10 DEF LoopStep

\* The threads that work on an execution keep the types.
LEMMA TypeAttempt ==
    ASSUME TypeOK, NEW e \in Exec, AttemptStep(e), UNCHANGED dispVars
    PROVE  TypeOK'
<1>row. row \in [Task -> Row]
  BY DEF TypeOK
<1>att. att \in [Exec -> Attempt]
  BY DEF TypeOK
<1>locals. att[e] \in Attempt /\ att[e].snap \in Row /\ att[e].snap.next \in Nat /\ att[e].snap.retry \in Nat /\ att[e].snap.status \in Statuses /\ e \in 0..MaxExec /\ e \in Nat
  BY <1>att, ConstantsAssumption DEF Attempt, Row, Exec
<1>lease. lease \in [Node -> [Task -> 0..MaxExec]]
  BY DEF TypeOK
<1>reg. reg \in [Node -> [Task -> 0..MaxExec]]
  BY DEF TypeOK
<1>faults. faults \in 0..MaxFaults
  BY DEF TypeOK
<1>lock. lock \in [Task -> Owner \cup {None}]
  BY DEF TypeOK
<1>now. now \in 0..MaxTime /\ now \in Nat
  BY ConstantsAssumption DEF TypeOK
<1>hist. hist \in [Exec -> Record]
  BY DEF TypeOK
<1>done. done \in [Task -> SUBSET Nat]
  BY DEF TypeOK
<1>1. CASE ClaimTask(e)
  <2>1. row' \in [Task -> Row]
    <3>1. att[e].task \in Task => claimTaskExecution(row[att[e].task], e) \in Row
      BY <1>row, <1>locals, StatementsKeepRows
    <3> QED
      BY <1>1, <1>row, <3>1 DEF ClaimTask, NoFault, Fault
  <2>2. att' \in [Exec -> Attempt]
    BY <1>1, <1>att, AttemptsStayAttempts DEF ClaimTask, NoFault, Fault, PCs
  <2>3. lease' \in [Node -> [Task -> 0..MaxExec]]
    BY <1>1, <1>lease, <1>reg, ForgetTyped, ConstantsAssumption DEF ClaimTask, NoFault, Fault
  <2>4. reg' \in [Node -> [Task -> 0..MaxExec]]
    BY <1>1, <1>lease, <1>reg, ForgetTyped, ConstantsAssumption DEF ClaimTask, NoFault, Fault
  <2>5. faults' \in 0..MaxFaults
    BY <1>1, <1>faults, ConstantsAssumption DEF ClaimTask, NoFault, Fault
  <2> QED
    BY <1>1, <2>1, <2>2, <2>3, <2>4, <2>5 DEF TypeOK, ClaimTask, storeVars, nodeVars, dispVars
<1>2. CASE EnqueueTask(e)
  <2>1. att' \in [Exec -> Attempt]
    BY <1>2, <1>att, AttemptsStayAttempts DEF EnqueueTask, PCs
  <2> QED
    BY <1>2, <2>1 DEF TypeOK, EnqueueTask, storeVars, nodeVars, dispVars
<1>3. CASE RestoreTask(e)
  <2>1. row' \in [Task -> Row]
    <3>1. att[e].task \in Task =>
            completeTaskExecution(row[att[e].task], e, "scheduled", att[e].snap.next, att[e].snap.retry) \in Row
      BY <1>row, <1>locals, StatementsKeepRows, Zenon DEF Statuses, Stored
    <3> QED
      BY <1>3, <1>row, <3>1 DEF RestoreTask, NoFault, Fault
  <2>2. att' \in [Exec -> Attempt]
    BY <1>3, <1>att, AttemptsStayAttempts, Zenon DEF RestoreTask, PCs
  <2>3. lease' \in [Node -> [Task -> 0..MaxExec]]
    BY <1>3, <1>lease, <1>reg, ForgetTyped, ConstantsAssumption, Zenon DEF RestoreTask
  <2>4. reg' \in [Node -> [Task -> 0..MaxExec]]
    BY <1>3, <1>lease, <1>reg, ForgetTyped, ConstantsAssumption DEF RestoreTask
  <2>5. faults' \in 0..MaxFaults
    BY <1>3, <1>faults, ConstantsAssumption DEF RestoreTask, NoFault, Fault
  <2> QED
    BY <1>3, <2>1, <2>2, <2>3, <2>4, <2>5 DEF TypeOK, RestoreTask, storeVars, nodeVars, dispVars
<1>4. CASE UnlockTask(e)
  <2>1. lock' \in [Task -> Owner \cup {None}]
    BY <1>4, <1>lock DEF UnlockTask, unlock, Unlocked
  <2>2. att' \in [Exec -> Attempt]
    BY <1>4, <1>att, AttemptsStayAttempts DEF UnlockTask, unlock, PCs
  <2>3. faults' \in 0..MaxFaults
    BY <1>4, <1>faults, ConstantsAssumption DEF UnlockTask, unlock, NoFault, Fault
  <2> QED
    BY <1>4, <2>1, <2>2, <2>3 DEF TypeOK, UnlockTask, unlock, storeVars, nodeVars, dispVars
<1>5. CASE StartTask(e)
  <2>1. att' \in [Exec -> Attempt]
    BY <1>5, <1>att, <1>now, AttemptsStayAttempts DEF StartTask, PCs, Outcomes
  <2> QED
    BY <1>5, <2>1 DEF TypeOK, StartTask, storeVars, nodeVars, dispVars
<1>6. CASE \E out \in {"ok", "failed"} : FinishRpc(e, out)
  <2>1. att' \in [Exec -> Attempt]
    BY <1>6, <1>att, <1>now, AttemptsStayAttempts DEF FinishRpc, Outcomes
  <2> QED
    BY <1>6, <2>1 DEF TypeOK, FinishRpc, storeVars, nodeVars, dispVars
<1>7. CASE RecordHistory(e)
  <2>1. hist' \in [Exec -> Record]
    BY <1>7, <1>hist, <1>att DEF RecordHistory, NoFault, Fault, Record, Attempt
  <2>2. att' \in [Exec -> Attempt]
    BY <1>7, <1>att, AttemptsStayAttempts DEF RecordHistory, PCs
  <2>3. faults' \in 0..MaxFaults
    BY <1>7, <1>faults, ConstantsAssumption DEF RecordHistory, NoFault, Fault
  <2> QED
    BY <1>7, <2>1, <2>2, <2>3 DEF TypeOK, RecordHistory, storeVars, nodeVars, dispVars
<1>8. CASE CompleteTask(e)
  <2>1. row' \in [Task -> Row]
    <3>1. \A r \in NextRows(att[e]) : r.status \in Statuses /\ r.next \in Nat /\ r.retry \in Nat
      BY <1>locals, NextRowsTyped DEF Row
    <3>2. att[e].task \in Task => \A r \in NextRows(att[e]) :
            completeTaskExecution(row[att[e].task], e, r.status, r.next, r.retry) \in Row
      BY <1>row, <1>locals, <3>1, StatementsKeepRows, Zenon
    <3> QED
      BY <1>8, <1>row, <3>1, <3>2 DEF CompleteTask, NoFault, Fault
  <2>2. done' \in [Task -> SUBSET Nat]
    BY <1>8, <1>done, <1>att DEF CompleteTask, NoFault, Fault, Attempt, Row
  <2>3. att' \in [Exec -> Attempt]
    BY <1>8, <1>att, AttemptsStayAttempts DEF CompleteTask, PCs
  <2>4. faults' \in 0..MaxFaults
    BY <1>8, <1>faults, ConstantsAssumption DEF CompleteTask, NoFault, Fault
  <2> QED
    BY <1>8, <2>1, <2>2, <2>3, <2>4 DEF TypeOK, CompleteTask, storeVars, nodeVars, dispVars
<1>9. CASE CleanupTask(e)
  <2>1. lock' \in [Task -> Owner \cup {None}]
    BY <1>9, <1>lock DEF CleanupTask, unlock, Unlocked
  <2>2. lease' \in [Node -> [Task -> 0..MaxExec]]
    BY <1>9, <1>lease, <1>reg, ForgetTyped, ConstantsAssumption DEF CleanupTask, unlock
  <2>3. reg' \in [Node -> [Task -> 0..MaxExec]]
    BY <1>9, <1>lease, <1>reg, ForgetTyped, ConstantsAssumption DEF CleanupTask, unlock
  <2>4. att' \in [Exec -> Attempt]
    BY <1>9, <1>att, AttemptsStayAttempts DEF CleanupTask, unlock, PCs
  <2>5. faults' \in 0..MaxFaults
    BY <1>9, <1>faults, ConstantsAssumption DEF CleanupTask, unlock, NoFault, Fault
  <2> QED
    BY <1>9, <2>1, <2>2, <2>3, <2>4, <2>5 DEF TypeOK, CleanupTask, unlock, storeVars, nodeVars, dispVars
<1> QED
  BY <1>1, <1>2, <1>3, <1>4, <1>5, <1>6, <1>7, <1>8, <1>9 DEF AttemptStep

\* The lock renewer keeps the types.
LEMMA TypeRenewer ==
    ASSUME TypeOK, NEW n \in Node, RenewerStep(n), UNCHANGED dispVars
    PROVE  TypeOK'
<1>lost. lost \in [Node -> SUBSET (Task \X Exec)]
  BY DEF TypeOK
<1>lease. lease \in [Node -> [Task -> 0..MaxExec]]
  BY DEF TypeOK
<1>faults. faults \in 0..MaxFaults
  BY DEF TypeOK
<1>att. att \in [Exec -> Attempt]
  BY DEF TypeOK
<1>1. CASE \E t \in Task : RenewLease(n, t)
  <2>1. lost' \in [Node -> SUBSET (Task \X Exec)]
    BY <1>1, <1>lost, <1>lease, ConstantsAssumption DEF RenewLease, NoFault, Fault, Exec, NoExec
  <2>2. faults' \in 0..MaxFaults
    BY <1>1, <1>faults, ConstantsAssumption DEF RenewLease, NoFault, Fault
  <2> QED
    BY <1>1, <2>1, <2>2 DEF TypeOK, RenewLease, storeVars, nodeVars, dispVars
<1>2. CASE ApplyLost(n)
  <2>1. att' \in [Exec -> Attempt]
    BY <1>2, <1>att, AttemptsStayAttempts, Zenon DEF ApplyLost
  <2>2. lease' \in [Node -> [Task -> 0..MaxExec]]
    BY <1>2, <1>lease, ConstantsAssumption DEF ApplyLost, NoExec
  <2>3. lost' \in [Node -> SUBSET (Task \X Exec)]
    BY <1>2, <1>lost DEF ApplyLost
  <2> QED
    BY <1>2, <2>1, <2>2, <2>3 DEF TypeOK, ApplyLost, storeVars, nodeVars, dispVars
<1> QED
  BY <1>1, <1>2 DEF RenewerStep

\* The request handlers keep the types.
LEMMA TypeRequest ==
    ASSUME TypeOK, NEW n \in Node, NEW t \in Task, RequestStep(n, t)
    PROVE  TypeOK'
<1>row. row \in [Task -> Row]
  BY DEF TypeOK
<1>now. now \in 0..MaxTime /\ now \in Nat
  BY ConstantsAssumption DEF TypeOK
<1>cancelling. cancelling \subseteq Node \X Task
  BY DEF TypeOK
<1>faults. faults \in 0..MaxFaults
  BY DEF TypeOK
<1>att. att \in [Exec -> Attempt]
  BY DEF TypeOK
<1>edit. edit \subseteq Edit
  BY DEF TypeOK
<1>nextExec. nextExec \in 1..(MaxExec + 1)
  BY DEF TypeOK
<1>1. CASE handleSubmitTask(n, t)
  <2>1. row' \in [Task -> Row]
    BY <1>1, <1>row, <1>now, LaterIsLater, StatementsKeepRows, ConstantsAssumption DEF handleSubmitTask
  <2> QED
    BY <1>1, <2>1 DEF TypeOK, handleSubmitTask, storeVars, nodeVars, dispVars
<1>2. CASE handleCancelTask(n, t)
  <2>1. row' \in [Task -> Row]
    BY <1>2, <1>row, StatementsKeepRows DEF handleCancelTask
  <2>2. cancelling' \subseteq Node \X Task
    BY <1>2, <1>cancelling DEF handleCancelTask, NoFault, Fault
  <2>3. faults' \in 0..MaxFaults
    BY <1>2, <1>faults, ConstantsAssumption DEF handleCancelTask, NoFault, Fault
  <2> QED
    BY <1>2, <2>1, <2>2, <2>3 DEF TypeOK, handleCancelTask, storeVars, nodeVars, dispVars
<1>3. CASE CancelRegistered(n, t)
  <2>1. att' \in [Exec -> Attempt]
    BY <1>3, <1>att, AttemptsStayAttempts DEF CancelRegistered
  <2>2. cancelling' \subseteq Node \X Task
    BY <1>3, <1>cancelling DEF CancelRegistered
  <2> QED
    BY <1>3, <2>1, <2>2 DEF TypeOK, CancelRegistered, storeVars, nodeVars, dispVars
<1>4. CASE handleEnableTask(n, t)
  <2>1. edit' \subseteq Edit
    <3>1. \A r \in EnabledRows(row[t]) : r \in Row
      BY <1>row, <1>now, LaterIsLater, Zenon DEF EnabledRows, Row, Statuses, Stored
    <3>2. \A r \in Row : [op |-> "enable", node |-> n, task |-> t, row |-> r] \in Edit
      BY DEF Edit
    <3> QED
      BY <1>4, <1>edit, <3>1, <3>2, Zenon DEF handleEnableTask
  <2> QED
    BY <1>4, <2>1 DEF TypeOK, handleEnableTask, storeVars, nodeVars, dispVars
<1>5. CASE handleUpdateTask(n, t)
  <2>1. edit' \subseteq Edit
    <3>1. \A max \in RetryChoices : \A r \in UpdatedRows(row[t], max) : r \in Row
      BY <1>row, <1>now, LaterIsLater, DispatcherAssumption, ZenonT(60) DEF UpdatedRows, Row, Statuses, Stored
    <3>2. \A r \in Row : [op |-> "update", node |-> n, task |-> t, row |-> r] \in Edit
      BY DEF Edit
    <3> QED
      BY <1>5, <1>edit, <3>1, <3>2, Zenon DEF handleUpdateTask
  <2> QED
    BY <1>5, <2>1 DEF TypeOK, handleUpdateTask, storeVars, nodeVars, dispVars
<1>6. CASE handleDeleteTask(n, t)
  <2>1. row' \in [Task -> Row]
    BY <1>6, <1>row, StatementsKeepRows DEF handleDeleteTask
  <2> QED
    BY <1>6, <2>1 DEF TypeOK, handleDeleteTask, storeVars, nodeVars, dispVars
<1>7. CASE handleRunTaskNow(n, t)
  <2>1. att' \in [Exec -> Attempt]
    BY <1>7, <1>att, <1>row, <1>nextExec, AttemptsStayAttempts, ConstantsAssumption DEF handleRunTaskNow, PCs, Exec
  <2>2. nextExec' \in 1..(MaxExec + 1)
    BY <1>7, <1>nextExec, ConstantsAssumption DEF handleRunTaskNow
  <2> QED
    BY <1>7, <2>1, <2>2, Zenon DEF TypeOK, handleRunTaskNow, storeVars, nodeVars, dispVars
<1> QED
  BY <1>1, <1>2, <1>3, <1>4, <1>5, <1>6, <1>7 DEF RequestStep

\* The statement an edit ends with keeps the types.
LEMMA TypeEdit ==
    ASSUME TypeOK, NEW ed \in edit, WriteEdit(ed)
    PROVE  TypeOK'
<1>row. row \in [Task -> Row]
  BY DEF TypeOK
<1>edit. edit \subseteq Edit
  BY DEF TypeOK
<1>done. done \in [Task -> SUBSET Nat]
  BY DEF TypeOK
<1>faults. faults \in 0..MaxFaults
  BY DEF TypeOK
<1>1. CASE WriteEdit(ed)
  <2>1. row' \in [Task -> Row]
    <3>1. ed \in Edit /\ ed.task \in Task /\ ed.row \in Row
      BY <1>edit DEF Edit
    <3>2. row[ed.task] \in Row /\ ed.row.status \in Statuses /\ ed.row.next \in Nat /\ ed.row.retry \in Nat /\ ed.row.max \in Nat
      BY <1>row, <3>1 DEF Row
    <3>3. updateTaskRuntime(row[ed.task], ed.row.status, ed.row.next, ed.row.retry) \in Row
      BY <3>2, StatementsKeepRows, Zenon
    <3>4. updateTaskDefinition(row[ed.task], ed.row.status, ed.row.next, ed.row.retry, ed.row.max) \in Row
      BY <3>2, StatementsKeepRows, Zenon
    <3> QED
      BY <1>1, <1>row, <3>1, <3>2, <3>3, <3>4, Zenon DEF WriteEdit, NoFault, Fault
  <2>2. done' \in [Task -> SUBSET Nat]
    BY <1>1, <1>done DEF WriteEdit, NoFault, Fault
  <2>3. edit' \subseteq Edit
    BY <1>1, <1>edit DEF WriteEdit
  <2>4. faults' \in 0..MaxFaults
    BY <1>1, <1>faults, ConstantsAssumption DEF WriteEdit, NoFault, Fault
  <2> QED
    BY <1>1, <2>1, <2>2, <2>3, <2>4, Zenon DEF TypeOK, WriteEdit, storeVars, nodeVars, dispVars
<1> QED
  BY <1>1 DEF TypeOK

\* RunTaskNow keeps the types.
LEMMA TypeManual ==
    ASSUME TypeOK, NEW e \in Exec, ManualStep(e)
    PROVE  TypeOK'
<1>row. row \in [Task -> Row]
  BY DEF TypeOK
<1>att. att \in [Exec -> Attempt]
  BY DEF TypeOK
<1>locals. att[e] \in Attempt /\ att[e].snap \in Row /\ att[e].snap.next \in Nat /\ att[e].snap.retry \in Nat /\ att[e].snap.status \in Statuses /\ e \in 0..MaxExec /\ e \in Nat
  BY <1>att, ConstantsAssumption DEF Attempt, Row, Exec
<1>faults. faults \in 0..MaxFaults
  BY DEF TypeOK
<1>1. CASE ClaimManual(e)
  <2>1. row' \in [Task -> Row]
    <3>1. att[e].task \in Task => claimTaskExecution(row[att[e].task], e) \in Row
      BY <1>row, <1>locals, StatementsKeepRows
    <3> QED
      BY <1>1, <1>row, <3>1, Zenon DEF ClaimManual, NoFault, Fault
  <2>2. att' \in [Exec -> Attempt]
    <3>1. att' = [att EXCEPT ![e] = At(@, "rpc")] \/ att' = [att EXCEPT ![e] = Gone("done")]
      BY <1>1, Zenon DEF ClaimManual
    <3>2. At(att[e], "rpc") \in Attempt /\ Gone("done") \in Attempt
      BY <1>locals, AttemptsStayAttempts, Zenon DEF PCs
    <3> QED
      BY <1>att, <3>1, <3>2, Zenon
  <2>3. faults' \in 0..MaxFaults
    <3>1. faults' = faults \/ (faults < MaxFaults /\ faults' = faults + 1)
      BY <1>1, Zenon DEF ClaimManual, NoFault, Fault
    <3> QED
      BY <1>faults, <3>1, ConstantsAssumption
  <2> QED
    BY <1>1, <2>1, <2>2, <2>3, Zenon DEF TypeOK, ClaimManual, storeVars, nodeVars, dispVars
<1>2. CASE CompleteManual(e)
  <2>1. row' \in [Task -> Row]
    <3>1. att[e].task \in Task =>
            completeTaskExecution(row[att[e].task], e, att[e].snap.status, att[e].snap.next, att[e].snap.retry) \in Row
      BY <1>row, <1>locals, StatementsKeepRows, Zenon
    <3> QED
      BY <1>2, <1>row, <3>1, Zenon DEF CompleteManual, NoFault, Fault
  <2>2. att' \in [Exec -> Attempt]
    BY <1>2, <1>att, AttemptsStayAttempts, Zenon DEF CompleteManual, PCs
  <2>3. faults' \in 0..MaxFaults
    <3>1. faults' = faults \/ (faults < MaxFaults /\ faults' = faults + 1)
      BY <1>2, Zenon DEF CompleteManual, NoFault, Fault
    <3> QED
      BY <1>faults, <3>1, ConstantsAssumption
  <2> QED
    BY <1>2, <2>1, <2>2, <2>3, Zenon DEF TypeOK, CompleteManual, storeVars, nodeVars, dispVars
<1> QED
  BY <1>1, <1>2 DEF ManualStep

\* Stopping, crashing and starting keep the types.
LEMMA TypeNode ==
    ASSUME TypeOK, NEW n \in Node, NodeStep(n)
    PROVE  TypeOK'
<1>mode. mode \in [Node -> {"up", "stopping", "closing", "down"}]
  BY DEF TypeOK
<1>lease. lease \in [Node -> [Task -> 0..MaxExec]]
  BY DEF TypeOK
<1>lost. lost \in [Node -> SUBSET (Task \X Exec)]
  BY DEF TypeOK
<1>loop. loop \in [Node -> LoopState]
  BY DEF TypeOK
<1>reg. reg \in [Node -> [Task -> 0..MaxExec]]
  BY DEF TypeOK
<1>att. att \in [Exec -> Attempt]
  BY DEF TypeOK
<1>edit. edit \subseteq Edit
  BY DEF TypeOK
<1>cancelling. cancelling \subseteq Node \X Task
  BY DEF TypeOK
<1>faults. faults \in 0..MaxFaults
  BY DEF TypeOK
<1>1. CASE StopNode(n)
  <2>1. mode' \in [Node -> {"up", "stopping", "closing", "down"}]
    BY <1>1, <1>mode DEF StopNode
  <2> QED
    BY <1>1, <2>1 DEF TypeOK, StopNode, storeVars, nodeVars, dispVars
<1>2. CASE CloseServer(n)
  <2>1. mode' \in [Node -> {"up", "stopping", "closing", "down"}]
    BY <1>2, <1>mode DEF CloseServer
  <2>2. lease' \in [Node -> [Task -> 0..MaxExec]]
    BY <1>2, <1>lease, ConstantsAssumption DEF CloseServer, NoExec
  <2>3. lost' \in [Node -> SUBSET (Task \X Exec)]
    BY <1>2, <1>lost DEF CloseServer
  <2> QED
    BY <1>2, <2>1, <2>2, <2>3 DEF TypeOK, CloseServer, storeVars, nodeVars, dispVars
<1>3. CASE StoppedNode(n)
  <2>1. mode' \in [Node -> {"up", "stopping", "closing", "down"}]
    BY <1>3, <1>mode DEF StoppedNode
  <2> QED
    BY <1>3, <2>1 DEF TypeOK, StoppedNode, storeVars, nodeVars, dispVars
<1>4. CASE CrashNode(n)
  <2>1. mode' \in [Node -> {"up", "stopping", "closing", "down"}]
    BY <1>4, <1>mode, Zenon DEF CrashNode
  <2>2. loop' \in [Node -> LoopState]
    BY <1>4, <1>loop, InitialValues, Zenon DEF CrashNode
  <2>3. lease' \in [Node -> [Task -> 0..MaxExec]]
    <3>1. lease' = [lease EXCEPT ![n] = [t \in Task |-> 0]]
      BY <1>4, Zenon DEF CrashNode, NoExec
    <3> QED
      BY <1>lease, <3>1, ConstantsAssumption
  <2>4. reg' \in [Node -> [Task -> 0..MaxExec]]
    BY <1>4, <1>reg, ConstantsAssumption DEF CrashNode, NoExec
  <2>5. lost' \in [Node -> SUBSET (Task \X Exec)]
    BY <1>4, <1>lost DEF CrashNode
  <2>6. att' \in [Exec -> Attempt]
    BY <1>4, <1>att, AttemptsStayAttempts, Zenon DEF CrashNode, PCs
  <2>7. edit' \subseteq Edit
    BY <1>4, <1>edit DEF CrashNode
  <2>8. cancelling' \subseteq Node \X Task
    BY <1>4, <1>cancelling DEF CrashNode
  <2>9. faults' \in 0..MaxFaults
    BY <1>4, <1>faults, ConstantsAssumption DEF CrashNode, NoFault, Fault
  <2> QED
    BY <1>4, <2>1, <2>2, <2>3, <2>4, <2>5, <2>6, <2>7, <2>8, <2>9, Zenon DEF TypeOK, CrashNode, storeVars, nodeVars, dispVars
<1>5. CASE StartNode(n)
  <2>1. mode' \in [Node -> {"up", "stopping", "closing", "down"}]
    BY <1>5, <1>mode DEF StartNode
  <2> QED
    BY <1>5, <2>1 DEF TypeOK, StartNode, storeVars, nodeVars, dispVars
<1> QED
  BY <1>1, <1>2, <1>3, <1>4, <1>5 DEF NodeStep

\* Every state the control plane reaches is well typed: the rows, locks, leases and locals of
\* src/scheduler, src/rpc and src/mysql stay what the code declares them to be.
THEOREM TypeCorrect == Spec => []TypeOK
<1>1. Init => TypeOK
  BY ConstantsAssumption, InitialValues DEF Init, SchedulerInit, TypeOK, NoExec
<1>2. TypeOK /\ [Next]_vars => TypeOK'
  <2> SUFFICES ASSUME TypeOK, [Next]_vars PROVE TypeOK'
    OBVIOUS
  <2>1. ASSUME NEW t \in Task, ExpireLock(t), UNCHANGED dispVars PROVE TypeOK'
    <3>1. lock' \in [Task -> Owner \cup {None}]
      BY <2>1 DEF TypeOK, ExpireLock
    <3> QED
      BY <2>1, <3>1 DEF TypeOK, ExpireLock, storeVars, nodeVars, dispVars
  <2>2. ASSUME Tick, UNCHANGED dispVars PROVE TypeOK'
    <3>1. now' \in 0..MaxTime
      BY <2>2, ConstantsAssumption DEF TypeOK, Tick
    <3> QED
      BY <2>2, <3>1 DEF TypeOK, Tick, storeVars, nodeVars, dispVars
  <2>3. CASE SchedulerNext /\ UNCHANGED dispVars
    BY <2>1, <2>2, <2>3, TypeLoop, TypeAttempt, TypeRenewer DEF SchedulerNext
  <2>4. CASE DispatcherNext
    BY <2>4, TypeRequest, TypeEdit, TypeManual DEF DispatcherNext
  <2>5. CASE NodeNext
    BY <2>5, TypeNode DEF NodeNext
  <2>6. CASE UNCHANGED vars
    BY <2>6 DEF TypeOK, vars
  <2> QED
    BY <2>3, <2>4, <2>5, <2>6 DEF Next
<1> QED
  BY <1>1, <1>2, PTL DEF Spec

-----------------------------------------------------------------------------
(* The life cycle of the rows *)

\* What every statement but a claim does to a row: it stays with its holder or is released.
KeepsHold(r, s) == Held(s) /\ s.exec \in {r.exec, NoExec}

\* Apart from claimTaskExecution no statement of MySQLClient gives a row to an execution.
LEMMA StatementsKeepHold ==
    /\ \A r \in Row, next \in Nat, max \in Nat : r.exec = NoExec => KeepsHold(r, addTask(next, max))
    /\ \A r \in Row : Held(r) => KeepsHold(r, r) /\ KeepsHold(r, deleteTask(r)) /\ KeepsHold(r, cancelTask(r))
    /\ \A r \in Row, e \in Nat : Held(r) => KeepsHold(r, recoverTaskExecution(r, e))
    /\ \A r \in Row, s \in Row : Held(r) /\ Idle(s) =>
         /\ KeepsHold(r, updateTaskRuntime(r, s.status, s.next, s.retry))
         /\ KeepsHold(r, updateTaskDefinition(r, s.status, s.next, s.retry, s.max))
    /\ \A r \in Row, e \in Nat, status \in {"scheduled", "disabled"}, next \in Nat, retry \in Nat : Held(r) =>
         KeepsHold(r, completeTaskExecution(r, e, status, next, retry))
<1> USE DEF KeepsHold, Held, NoExec
<1>1. \A r \in Row, next \in Nat, max \in Nat : r.exec = NoExec => KeepsHold(r, addTask(next, max))
  BY DEF addTask
<1>2. \A r \in Row : Held(r) => KeepsHold(r, r) /\ KeepsHold(r, deleteTask(r)) /\ KeepsHold(r, cancelTask(r))
  BY DEF deleteTask, cancelTask, NoRow, Row
<1>3. \A r \in Row, e \in Nat : Held(r) => KeepsHold(r, recoverTaskExecution(r, e))
  BY DEF recoverTaskExecution, Row
<1>4. \A r \in Row, s \in Row : Held(r) /\ Idle(s) =>
        /\ KeepsHold(r, updateTaskRuntime(r, s.status, s.next, s.retry))
        /\ KeepsHold(r, updateTaskDefinition(r, s.status, s.next, s.retry, s.max))
  BY DEF updateTaskRuntime, updateTaskDefinition, Idle, NotRunning, Row
<1>5. \A r \in Row, e \in Nat, status \in {"scheduled", "disabled"}, next \in Nat, retry \in Nat : Held(r) =>
        KeepsHold(r, completeTaskExecution(r, e, status, next, retry))
  BY DEF completeTaskExecution, Row
<1> QED
  BY <1>1, <1>2, <1>3, <1>4, <1>5

\* Execution ids start at 1: the empty column is none of them.
LEMMA ExecsAreNotNoExec == NoExec \notin Exec /\ Exec \subseteq Nat
BY ConstantsAssumption DEF NoExec, Exec

\* A step that gives no row away keeps HolderInv if it plans no bad write.
LEMMA HolderStep ==
    ASSUME HolderInv, FreshExecs', PlannedRows',
           \A t \in Task : KeepsHold(row[t], row'[t]),
           \A e \in Exec : Past(att[e]) => Past(att'[e])
    PROVE  HolderInv'
<1>1. RowsHeld'
  BY DEF RowsHeld, KeepsHold
<1>2. ClaimedOnce'
  BY ExecsAreNotNoExec DEF HolderInv, ClaimedOnce, KeepsHold
<1> QED
  BY <1>1, <1>2 DEF HolderInv

\* One step of the thread of an execution, other than its claim.
LEMMA ThreadStep ==
    ASSUME TypeOK, HolderInv, NEW e \in Exec, NEW v,
           att' = [att EXCEPT ![e] = v], Busy(att[e]), Past(v), Busy(v) => v.snap = att[e].snap,
           UNCHANGED <<nextExec, loop, edit>>,
           \A t \in Task : KeepsHold(row[t], row'[t])
    PROVE  HolderInv'
<1>1. att \in [Exec -> Attempt] /\ att'[e] = v /\ \A f \in Exec : f # e => att'[f] = att[f]
  BY DEF TypeOK
<1>2. FreshExecs'
  <2>1. att[e].pc # "new"
    BY DEF Busy
  <2> QED
    BY <1>1, <2>1 DEF HolderInv, FreshExecs
<1>3. \A f \in Exec : Busy(att'[f]) => Idle(att'[f].snap)
  BY <1>1 DEF HolderInv, PlannedRows
<1>4. PlannedRows'
  BY <1>3 DEF HolderInv, PlannedRows
<1> QED
  BY <1>1, <1>2, <1>4, HolderStep

\* The claim of an execution.
LEMMA ClaimStep ==
    ASSUME TypeOK, HolderInv, NEW e \in Exec, NEW v, NEW t \in Task,
           att' = [att EXCEPT ![e] = v], Busy(att[e]), ~Past(att[e]), Past(v),
           Busy(v) => v.snap = att[e].snap,
           UNCHANGED <<nextExec, loop, edit>>,
           row' = [row EXCEPT ![t] = claimTaskExecution(@, e)]
    PROVE  HolderInv'
<1>1. att \in [Exec -> Attempt] /\ att'[e] = v /\ \A f \in Exec : f # e => att'[f] = att[f]
  BY DEF TypeOK
<1>2. FreshExecs'
  <2>1. att[e].pc # "new"
    BY DEF Busy
  <2> QED
    BY <1>1, <2>1 DEF HolderInv, FreshExecs
<1>3. \A f \in Exec : Busy(att'[f]) => Idle(att'[f].snap)
  BY <1>1 DEF HolderInv, PlannedRows
<1>4. PlannedRows'
  BY <1>3 DEF HolderInv, PlannedRows
<1>5. /\ row'[t].exec = e /\ row'[t].status = "running"
      /\ \A u \in Task : u # t => row'[u] = row[u]
  BY DEF TypeOK, Row, claimTaskExecution
<1>6. RowsHeld'
  BY <1>5, ExecsAreNotNoExec DEF HolderInv, RowsHeld, Held
<1>7. ClaimedOnce'
  BY <1>1, <1>5 DEF HolderInv, ClaimedOnce
<1> QED
  BY <1>2, <1>4, <1>6, <1>7 DEF HolderInv

\* A step of the scan thread of one node that leaves every execution to its thread.
LEMMA ScanStep ==
    ASSUME TypeOK, HolderInv, NEW n \in Node,
           \A m \in Node : m # n => loop'[m] = loop[m],
           \A s \in loop'[n].due : Idle(s[2]),
           loop'[n].pc = "skip" => Idle(loop'[n].cur.row),
           \A t \in Task : KeepsHold(row[t], row'[t]),
           UNCHANGED <<att, nextExec, edit>>
    PROVE  HolderInv'
<1>1. FreshExecs' /\ PlannedRows'
  BY DEF HolderInv, FreshExecs, PlannedRows
<1> QED
  BY <1>1, HolderStep

\* Drawing the next execution id.
LEMMA DrawStep ==
    ASSUME TypeOK, HolderInv, nextExec <= MaxExec, NEW v,
           att' = [att EXCEPT ![nextExec] = v], Busy(v) => Idle(v.snap),
           nextExec' = nextExec + 1,
           \A n \in Node : loop'[n].due \subseteq loop[n].due /\ loop'[n].pc = loop[n].pc /\ loop'[n].cur = loop[n].cur,
           UNCHANGED <<row, edit>>
    PROVE  HolderInv'
<1>1. nextExec \in Exec /\ Exec \subseteq Nat /\ nextExec \in Nat
  BY ConstantsAssumption DEF TypeOK, Exec
<1>2. att \in [Exec -> Attempt] /\ att'[nextExec] = v /\ \A f \in Exec : f # nextExec => att'[f] = att[f]
  BY <1>1 DEF TypeOK
<1>3. FreshExecs'
  BY <1>1, <1>2 DEF HolderInv, FreshExecs
<1>4. \A f \in Exec : Busy(att'[f]) => Idle(att'[f].snap)
  BY <1>2 DEF HolderInv, PlannedRows
<1>5. PlannedRows'
  BY <1>4 DEF HolderInv, PlannedRows
<1>6. ~Past(att[nextExec])
  BY <1>1 DEF HolderInv, FreshExecs, Past
<1>7. \A t \in Task : KeepsHold(row[t], row'[t])
  BY DEF HolderInv, RowsHeld, KeepsHold
<1> QED
  BY <1>2, <1>3, <1>5, <1>6, <1>7, HolderStep

\* The scan thread keeps HolderInv.
LEMMA HolderLoop ==
    ASSUME TypeOK, HolderInv, NEW n \in Node, LoopStep(n), UNCHANGED dispVars
    PROVE  HolderInv'
<1>loop. loop \in [Node -> LoopState] /\ loop[n] \in LoopState
  BY DEF TypeOK
<1>row. row \in [Task -> Row]
  BY DEF TypeOK
<1>rows. \A t \in Task : KeepsHold(row[t], row[t])
  BY DEF HolderInv, RowsHeld, KeepsHold
<1>due. (\A s \in loop[n].due : Idle(s[2])) /\ (loop[n].pc = "skip" => Idle(loop[n].cur.row))
  BY DEF HolderInv, PlannedRows
<1>1. CASE \E S \in SUBSET Running : ScanStale(n, S)
  <2>1. /\ \A m \in Node : m # n => loop'[m] = loop[m]
        /\ loop'[n].due = loop[n].due /\ loop'[n].pc = loop[n].pc /\ loop'[n].cur = loop[n].cur
    BY <1>1, <1>loop DEF ScanStale, LoopState
  <2> QED
    BY <1>1, <2>1, <1>due, <1>rows, ScanStep DEF ScanStale, storeVars, dispVars
<1>2. CASE RecoverLock(n)
  <2>1. /\ \A m \in Node : m # n => loop'[m] = loop[m]
        /\ loop'[n].due = loop[n].due
        /\ loop'[n].pc = "recovering" \/ loop'[n].pc = loop[n].pc
    <3>1. PICK p \in loop[n].stale :
            \/ loop' = [loop EXCEPT ![n].stale = loop[n].stale \ {p}]
            \/ loop' = [loop EXCEPT ![n] = [@ EXCEPT !.pc = "recovering", !.stale = loop[n].stale \ {p},
                                              !.cur = [task |-> p[1], exec |-> p[2], row |-> NoRow]]]
      BY <1>2, Zenon DEF RecoverLock
    <3>2. CASE loop' = [loop EXCEPT ![n].stale = loop[n].stale \ {p}]
      BY <3>2, <1>loop DEF LoopState
    <3>3. CASE loop' = [loop EXCEPT ![n] = [@ EXCEPT !.pc = "recovering", !.stale = loop[n].stale \ {p},
                                              !.cur = [task |-> p[1], exec |-> p[2], row |-> NoRow]]]
      BY <3>3, <1>loop DEF LoopState
    <3> QED
      BY <3>1, <3>2, <3>3
  <2>2. loop[n].pc = "scan"
    BY <1>2 DEF RecoverLock, Scanning
  <2> QED
    BY <1>2, <2>1, <2>2, <1>due, <1>rows, ScanStep DEF RecoverLock, storeVars, dispVars
<1>3. CASE RecoverRow(n)
  <2>1. /\ \A m \in Node : m # n => loop'[m] = loop[m]
        /\ loop'[n].due = loop[n].due /\ loop'[n].pc = "unlocking"
    BY <1>3, <1>loop DEF RecoverRow, LoopState
  <2>2. \A t \in Task : KeepsHold(row[t], recoverTaskExecution(row[t], loop[n].cur.exec))
    BY <1>row, <1>loop, StatementsKeepHold DEF HolderInv, RowsHeld, LoopState, Current
  <2>3. \A t \in Task : KeepsHold(row[t], row'[t])
    BY <1>3, <1>row, <1>rows, <2>2 DEF RecoverRow
  <2> QED
    BY <1>3, <2>1, <2>3, <1>due, ScanStep DEF RecoverRow, dispVars
<1>4. CASE RecoverUnlock(n)
  <2>1. /\ \A m \in Node : m # n => loop'[m] = loop[m]
        /\ loop'[n].due = loop[n].due /\ loop'[n].pc = "scan"
    BY <1>4, <1>loop DEF RecoverUnlock, LoopState
  <2> QED
    BY <1>4, <2>1, <1>due, <1>rows, ScanStep DEF RecoverUnlock, storeVars, dispVars
<1>5. CASE ScanDue(n)
  <2>1. /\ \A m \in Node : m # n => loop'[m] = loop[m]
        /\ loop'[n].due = {<<t, row[t]>> : t \in Due} /\ loop'[n].pc = loop[n].pc /\ loop'[n].cur = loop[n].cur
    BY <1>5, <1>loop DEF ScanDue, LoopState
  <2>2. \A s \in loop'[n].due : Idle(s[2])
    BY <2>1 DEF Due, IsDue, Idle
  <2> QED
    BY <1>5, <2>1, <2>2, <1>due, <1>rows, ScanStep DEF ScanDue, storeVars, dispVars
<1>6. CASE PlanSkip(n)
  <2>1. PICK s \in loop[n].due, r \in Row :
          /\ r \in SkippedRows(s[2])
          /\ loop' = [loop EXCEPT ![n] = [@ EXCEPT !.pc = "skip", !.due = loop[n].due \ {s},
                                         !.cur = [task |-> s[1], exec |-> NoExec, row |-> r]]]
    <3>1. \A s \in loop[n].due : \A r \in SkippedRows(s[2]) : r \in Row
      <4>1. now \in Nat /\ \A s \in loop[n].due : s[2] \in Row
        BY <1>loop, ConstantsAssumption DEF TypeOK, LoopState
      <4> QED
        BY <4>1, LaterIsLater DEF SkippedRows, Row, Statuses, Stored
    <3> QED
      BY <1>6, <3>1, Zenon DEF PlanSkip
  <2>2. /\ \A m \in Node : m # n => loop'[m] = loop[m]
        /\ loop'[n].due = loop[n].due \ {s} /\ loop'[n].cur.row = r
    BY <2>1, <1>loop DEF LoopState
  <2>3. Idle(r)
    <3>1. s[2] \in Row /\ Idle(s[2])
      BY <1>loop, <1>due DEF LoopState
    <3> QED
      BY <2>1, <3>1 DEF SkippedRows, Idle, Row
  <2> QED
    BY <1>6, <2>2, <2>3, <1>due, <1>rows, ScanStep DEF PlanSkip, storeVars, dispVars
<1>7. CASE WriteSkip(n)
  <2>1. /\ \A m \in Node : m # n => loop'[m] = loop[m]
        /\ loop'[n].due = loop[n].due /\ loop'[n].pc = "scan"
    BY <1>7, <1>loop DEF WriteSkip, LoopState
  <2>2. loop[n].cur.row \in Row /\ Idle(loop[n].cur.row)
    BY <1>7, <1>loop, <1>due DEF WriteSkip, LoopState, Current
  <2>3. \A t \in Task : KeepsHold(row[t], updateTaskRuntime(row[t], loop[n].cur.row.status, loop[n].cur.row.next,
                                                            loop[n].cur.row.retry))
    BY <2>2, <1>row, StatementsKeepHold DEF HolderInv, RowsHeld
  <2>4. \A t \in Task : KeepsHold(row[t], row'[t])
    BY <1>7, <1>row, <1>rows, <2>3 DEF WriteSkip
  <2> QED
    BY <1>7, <2>1, <2>4, <1>due, ScanStep DEF WriteSkip, dispVars
<1>8. CASE NoWorker(n)
  <2>1. /\ \A m \in Node : m # n => loop'[m] = loop[m]
        /\ loop'[n].due \subseteq loop[n].due /\ loop'[n].pc = loop[n].pc /\ loop'[n].cur = loop[n].cur
    BY <1>8, <1>loop DEF NoWorker, LoopState
  <2> QED
    BY <1>8, <2>1, <1>due, <1>rows, ScanStep DEF NoWorker, storeVars, dispVars
<1>9. CASE LockTask(n)
  <2>1. PICK s \in loop[n].due :
          /\ att' = [att EXCEPT ![nextExec] = Begin("claim", "sched", n, s[1], s[2])]
          /\ loop' = [loop EXCEPT ![n].due = @ \ {s}]
    BY <1>9, Zenon DEF LockTask
  <2>2. \A m \in Node : loop'[m].due \subseteq loop[m].due /\ loop'[m].pc = loop[m].pc /\ loop'[m].cur = loop[m].cur
    BY <2>1, <1>loop DEF LoopState
  <2>3. Idle(Begin("claim", "sched", n, s[1], s[2]).snap)
    BY <2>1, <1>due DEF Begin, NoAttempt
  <2> QED
    BY <1>9, <2>1, <2>2, <2>3, DrawStep, Zenon DEF LockTask, storeVars, dispVars
<1>10. CASE LockBusy(n)
  <2>1. /\ \A m \in Node : loop'[m].due \subseteq loop[m].due /\ loop'[m].pc = loop[m].pc /\ loop'[m].cur = loop[m].cur
        /\ \A m \in Node : m # n => loop'[m] = loop[m]
    BY <1>10, <1>loop DEF LockBusy, LoopState
  <2>2. CASE UNCHANGED <<att, nextExec>>
    BY <1>10, <2>1, <2>2, <1>due, <1>rows, ScanStep DEF LockBusy, storeVars, dispVars
  <2>3. CASE nextExec <= MaxExec /\ att' = [att EXCEPT ![nextExec] = Gone("done")] /\ nextExec' = nextExec + 1
    <3>1. ~Busy(Gone("done"))
      BY DEF Busy, Gone, NoAttempt
    <3> QED
      BY <1>10, <2>1, <2>3, <3>1, DrawStep, Zenon DEF LockBusy, storeVars, dispVars
  <2> QED
    BY <1>10, <2>2, <2>3 DEF LockBusy
<1> QED
  BY <1>1, <1>2, <1>3, <1>4, <1>5, <1>6, <1>7, <1>8, <1>9, <1>10 DEF LoopStep

\* A thread that goes on keeps what it has read.
LEMMA AtKept ==
    ASSUME NEW a \in Attempt, NEW pc
    PROVE  At(a, pc).snap = a.snap /\ At(a, pc).pc = pc
BY DEF At, Attempt

\* What a thread does to its locals: the row it read stays, and it does not go back to its claim.
LEMMA LocalsKept ==
    /\ \A a \in Attempt : \A pc : At(a, pc).snap = a.snap /\ At(a, pc).pc = pc
    /\ \A a \in Attempt : \A out : Ended(a, out).snap = a.snap /\ Ended(a, out).pc = "record"
    /\ \A a \in Attempt : Cancelled(a).snap = a.snap /\ Cancelled(a).pc = a.pc /\ Cancelled(a).node = a.node
    /\ \A pc : Gone(pc).pc = pc
    /\ ~Busy(Gone("done")) /\ Past(Gone("done")) /\ ~Busy(Gone("dead")) /\ Past(Gone("dead"))
    /\ \A pc, kind, n, t, r : Begin(pc, kind, n, t, r).snap = r
BY DEF At, Ended, Cancelled, Gone, Begin, NoAttempt, Attempt, Busy, Past

\* A completing execution asks for an idle row.
LEMMA NextRowsIdle ==
    ASSUME NEW a \in Attempt, NEW r \in NextRows(a)
    PROVE  Idle(r)
<1>1. a.snap \in Row
  BY DEF Attempt
<1>2. PICK st \in {"scheduled", "disabled"}, next \in Nat, rc \in Nat :
        r = [a.snap EXCEPT !.status = st, !.next = next, !.retry = rc]
  <2>1. a.end \in Nat /\ a.snap.next \in Nat /\ a.snap.retry \in Nat /\ a.snap.retry + 1 \in Nat
    BY DEF Attempt, Row
  <2> QED
    BY <2>1, LaterIsLater, Zenon DEF NextRows
<1> QED
  BY <1>1, <1>2 DEF Row, Idle

\* The threads that work on an execution keep HolderInv.
LEMMA HolderAttempt ==
    ASSUME TypeOK, HolderInv, NEW e \in Exec, AttemptStep(e), UNCHANGED dispVars
    PROVE  HolderInv'
<1>att. att \in [Exec -> Attempt] /\ att[e] \in Attempt /\ e \in Nat
  BY ExecsAreNotNoExec DEF TypeOK
<1>at. \A pc : At(att[e], pc).snap = att[e].snap /\ At(att[e], pc).pc = pc
  BY <1>att, AtKept, Zenon
<1>row. row \in [Task -> Row]
  BY DEF TypeOK
<1>rows. \A t \in Task : KeepsHold(row[t], row[t])
  BY DEF HolderInv, RowsHeld, KeepsHold
<1>1. CASE ClaimTask(e)
  <2> DEFINE t == att[e].task
  <2>1. Busy(att[e]) /\ ~Past(att[e])
    BY <1>1 DEF ClaimTask, Busy, Past
  <2>2. PICK pc \in {"claimed", "unlock"} : att' = [att EXCEPT ![e] = At(@, pc)]
    BY <1>1 DEF ClaimTask
  <2>3. Past(At(att[e], pc)) /\ At(att[e], pc).snap = att[e].snap
    BY <1>at DEF Past
  <2>4. UNCHANGED row \/ row' = [row EXCEPT ![t] = claimTaskExecution(@, e)]
    BY <1>1 DEF ClaimTask
  <2>5. UNCHANGED <<nextExec, loop, edit>>
    BY <1>1 DEF ClaimTask, dispVars
  <2>6. CASE t \in Task /\ row' = [row EXCEPT ![t] = claimTaskExecution(@, e)]
    BY <2>1, <2>2, <2>3, <2>5, <2>6, ClaimStep, Zenon
  <2>7. CASE UNCHANGED row \/ t \notin Task
    <3>1. \A u \in Task : KeepsHold(row[u], row'[u])
      BY <2>4, <2>7, <1>row, <1>rows
    <3> QED
      BY <2>1, <2>2, <2>3, <2>5, <3>1, ThreadStep, Zenon
  <2> QED
    BY <2>4, <2>6, <2>7
<1>2. CASE EnqueueTask(e)
  <2>1. PICK pc \in {"restore", "queued"} : att' = [att EXCEPT ![e] = At(@, pc)]
    BY <1>2, Zenon DEF EnqueueTask
  <2>2. Busy(att[e]) /\ Past(At(att[e], pc)) /\ At(att[e], pc).snap = att[e].snap
    BY <1>2, <1>at DEF EnqueueTask, Busy, Past
  <2> QED
    BY <1>2, <2>1, <2>2, <1>rows, ThreadStep, Zenon DEF EnqueueTask, storeVars, dispVars
<1>3. CASE RestoreTask(e)
  <2>1. Busy(att[e]) /\ Past(At(att[e], "unlock")) /\ At(att[e], "unlock").snap = att[e].snap
    BY <1>3, <1>at DEF RestoreTask, Busy, Past
  <2>2. \A u \in Task : KeepsHold(row[u], completeTaskExecution(row[u], e, "scheduled", att[e].snap.next, att[e].snap.retry))
    BY <1>row, <1>att, StatementsKeepHold, Zenon DEF HolderInv, RowsHeld, Attempt, Row
  <2>3. \A u \in Task : KeepsHold(row[u], row'[u])
    BY <1>3, <1>row, <1>rows, <2>2 DEF RestoreTask
  <2> QED
    BY <1>3, <2>1, <2>3, ThreadStep, Zenon DEF RestoreTask, dispVars
<1>4. CASE UnlockTask(e)
  <2>1. Busy(att[e])
    BY <1>4 DEF UnlockTask, Busy
  <2> QED
    BY <1>4, <2>1, <1>rows, LocalsKept, ThreadStep, Zenon DEF UnlockTask, storeVars, dispVars
<1>5. CASE StartTask(e)
  <2>1. Busy(att[e])
    BY <1>5 DEF StartTask, Busy
  <2>2. PICK v : att' = [att EXCEPT ![e] = v] /\ v.snap = att[e].snap /\ Past(v)
    <3>1. \/ att' = [att EXCEPT ![e] = At(@, "rpc")]
          \/ \E out : att' = [att EXCEPT ![e] = Ended(@, out)]
      BY <1>5, Zenon DEF StartTask
    <3>2. At(att[e], "rpc").snap = att[e].snap /\ Past(At(att[e], "rpc"))
      BY <1>at DEF Past
    <3>3. \A out : Ended(att[e], out).snap = att[e].snap /\ Past(Ended(att[e], out))
      BY <1>att DEF Ended, Attempt, Past
    <3> QED
      BY <3>1, <3>2, <3>3, Zenon
  <2> QED
    BY <1>5, <2>1, <2>2, <1>rows, ThreadStep, Zenon DEF StartTask, storeVars, dispVars
<1>6. CASE \E out \in {"ok", "failed"} : FinishRpc(e, out)
  <2>1. Busy(att[e])
    BY <1>6 DEF FinishRpc, Busy
  <2>2. PICK out \in {"ok", "failed"} : att' = [att EXCEPT ![e] = Ended(@, out)]
    BY <1>6, Zenon DEF FinishRpc
  <2>3. Past(Ended(att[e], out)) /\ Ended(att[e], out).snap = att[e].snap
    BY <1>att, LocalsKept DEF Past
  <2> QED
    BY <1>6, <2>1, <2>2, <2>3, <1>rows, ThreadStep, Zenon DEF FinishRpc, storeVars, dispVars
<1>7. CASE RecordHistory(e)
  <2>1. Busy(att[e]) /\ Past(At(att[e], "complete")) /\ At(att[e], "complete").snap = att[e].snap
    BY <1>7, <1>at DEF RecordHistory, Busy, Past
  <2> QED
    BY <1>7, <2>1, <1>rows, ThreadStep, Zenon DEF RecordHistory, dispVars
<1>8. CASE CompleteTask(e)
  <2>1. Busy(att[e]) /\ Past(At(att[e], "cleanup")) /\ At(att[e], "cleanup").snap = att[e].snap
    BY <1>8, <1>at DEF CompleteTask, Busy, Past
  <2>2. \A r \in NextRows(att[e]) : r.status \in {"scheduled", "disabled"} /\ r.next \in Nat /\ r.retry \in Nat
    BY <1>att, NextRowsTyped, NextRowsIdle DEF Row, Idle
  <2>3. \A u \in Task : \A r \in NextRows(att[e]) :
          KeepsHold(row[u], completeTaskExecution(row[u], e, r.status, r.next, r.retry))
    BY <1>row, <1>att, <2>2, StatementsKeepHold DEF HolderInv, RowsHeld
  <2>4. \A u \in Task : KeepsHold(row[u], row'[u])
    <3>1. UNCHANGED row \/ \E r \in NextRows(att[e]) :
            row' = [row EXCEPT ![att[e].task] = completeTaskExecution(@, e, r.status, r.next, r.retry)]
      BY <1>8, Zenon DEF CompleteTask
    <3> QED
      BY <1>row, <1>rows, <2>3, <3>1, SMTT(60)
  <2> QED
    BY <1>8, <2>1, <2>4, ThreadStep, Zenon DEF CompleteTask, dispVars
<1>9. CASE CleanupTask(e)
  <2>1. Busy(att[e])
    BY <1>9 DEF CleanupTask, Busy
  <2> QED
    BY <1>9, <2>1, <1>rows, LocalsKept, ThreadStep, Zenon DEF CleanupTask, storeVars, dispVars
<1> QED
  BY <1>1, <1>2, <1>3, <1>4, <1>5, <1>6, <1>7, <1>8, <1>9 DEF AttemptStep

\* A step that at most cancels executions or changes the requests in flight.
LEMMA RequestKeeps ==
    ASSUME TypeOK, HolderInv,
           \A e \in Exec : att'[e] = att[e] \/ att'[e] = Cancelled(att[e]),
           \A t \in Task : KeepsHold(row[t], row'[t]),
           \A ed \in edit' : Idle(ed.row),
           UNCHANGED <<nextExec, loop>>
    PROVE  HolderInv'
<1>1. \A e \in Exec : att'[e].pc = att[e].pc /\ att'[e].snap = att[e].snap /\ att'[e].node = att[e].node
  BY LocalsKept, Zenon DEF TypeOK
<1>2. FreshExecs'
  BY <1>1 DEF HolderInv, FreshExecs
<1>3. \A e \in Exec : Busy(att'[e]) => Idle(att'[e].snap)
  BY <1>1 DEF HolderInv, PlannedRows, Busy, Idle
<1>4. PlannedRows'
  BY <1>3 DEF HolderInv, PlannedRows
<1>5. \A e \in Exec : Past(att[e]) => Past(att'[e])
  BY <1>1 DEF Past
<1> QED
  BY <1>2, <1>4, <1>5, HolderStep

\* The lock renewer keeps HolderInv.
LEMMA HolderRenewer ==
    ASSUME TypeOK, HolderInv, NEW n \in Node, RenewerStep(n), UNCHANGED dispVars
    PROVE  HolderInv'
<1>1. \A e \in Exec : att'[e] = att[e] \/ att'[e] = Cancelled(att[e])
  BY DEF RenewerStep, RenewLease, ApplyLost
<1>2. UNCHANGED <<row, nextExec, loop, edit>>
  BY DEF RenewerStep, RenewLease, ApplyLost, storeVars, dispVars
<1>3. \A t \in Task : KeepsHold(row[t], row'[t])
  BY <1>2 DEF HolderInv, RowsHeld, KeepsHold
<1>4. \A ed \in edit' : Idle(ed.row)
  BY <1>2 DEF HolderInv, PlannedRows
<1> QED
  BY <1>1, <1>2, <1>3, <1>4, RequestKeeps

\* The request handlers keep HolderInv.
LEMMA HolderRequest ==
    ASSUME TypeOK, HolderInv, NEW n \in Node, NEW t \in Task, RequestStep(n, t)
    PROVE  HolderInv'
<1>row. row \in [Task -> Row] /\ row[t] \in Row /\ now \in Nat
  BY ConstantsAssumption DEF TypeOK
<1>rows. \A u \in Task : Held(row[u]) /\ KeepsHold(row[u], row[u])
  BY DEF HolderInv, RowsHeld, KeepsHold
<1>edit. \A ed \in edit : Idle(ed.row)
  BY DEF HolderInv, PlannedRows
<1>1. CASE handleSubmitTask(n, t)
  <2>1. row[t].exec = NoExec
    BY <1>1, <1>rows DEF handleSubmitTask, Held
  <2>2. PICK next \in Nat : row' = [row EXCEPT ![t] = addTask(next, DefaultRetries)]
    BY <1>1, <1>row, LaterIsLater, Zenon DEF handleSubmitTask
  <2>3. KeepsHold(row[t], addTask(next, DefaultRetries))
    BY <1>row, <2>1, StatementsKeepHold, ConstantsAssumption
  <2>4. \A u \in Task : KeepsHold(row[u], row'[u])
    BY <1>row, <1>rows, <2>2, <2>3
  <2> QED
    BY <1>1, <1>edit, <2>4, RequestKeeps DEF handleSubmitTask, dispVars
<1>2. CASE handleCancelTask(n, t)
  <2>1. KeepsHold(row[t], cancelTask(row[t]))
    BY <1>row, <1>rows, StatementsKeepHold
  <2>2. \A u \in Task : KeepsHold(row[u], row'[u])
    BY <1>2, <1>row, <1>rows, <2>1 DEF handleCancelTask
  <2> QED
    BY <1>2, <1>edit, <2>2, RequestKeeps DEF handleCancelTask
<1>3. CASE CancelRegistered(n, t)
  <2>1. \A e \in Exec : att'[e] = att[e] \/ att'[e] = Cancelled(att[e])
    BY <1>3, Zenon DEF CancelRegistered
  <2> QED
    BY <1>3, <1>edit, <1>rows, <2>1, RequestKeeps, Zenon DEF CancelRegistered, storeVars
<1>4. CASE handleEnableTask(n, t)
  <2>1. \A r \in EnabledRows(row[t]) : Idle(r)
    BY <1>row, Zenon DEF EnabledRows, Idle, Row
  <2>2. \A ed \in edit' : Idle(ed.row)
    BY <1>4, <1>edit, <2>1 DEF handleEnableTask
  <2> QED
    BY <1>4, <1>rows, <2>2, RequestKeeps DEF handleEnableTask, storeVars
<1>5. CASE handleUpdateTask(n, t)
  <2>1. \A max : \A r \in UpdatedRows(row[t], max) : Idle(r)
    BY <1>row, Zenon DEF UpdatedRows, Idle, Row
  <2>2. \A ed \in edit' : Idle(ed.row)
    BY <1>5, <1>edit, <2>1 DEF handleUpdateTask
  <2> QED
    BY <1>5, <1>rows, <2>2, RequestKeeps DEF handleUpdateTask, storeVars
<1>6. CASE handleDeleteTask(n, t)
  <2>1. KeepsHold(row[t], deleteTask(row[t]))
    BY <1>row, <1>rows, StatementsKeepHold
  <2>2. \A u \in Task : KeepsHold(row[u], row'[u])
    BY <1>6, <1>row, <1>rows, <2>1 DEF handleDeleteTask
  <2> QED
    BY <1>6, <1>edit, <2>2, RequestKeeps DEF handleDeleteTask, dispVars
<1>7. CASE handleRunTaskNow(n, t)
  <2>1. Idle(Begin("manual", "manual", n, t, row[t]).snap)
    <3>1. Begin("manual", "manual", n, t, row[t]).snap = row[t]
      BY DEF Begin, NoAttempt
    <3> QED
      BY <1>7, <3>1 DEF handleRunTaskNow, NotRunning, Idle
  <2> QED
    BY <1>7, <2>1, DrawStep, Zenon DEF handleRunTaskNow, storeVars, dispVars
<1> QED
  BY <1>1, <1>2, <1>3, <1>4, <1>5, <1>6, <1>7 DEF RequestStep

\* The statement an edit ends with keeps HolderInv: it leaves a running row alone.
LEMMA HolderEdit ==
    ASSUME TypeOK, HolderInv, NEW ed \in edit, WriteEdit(ed)
    PROVE  HolderInv'
<1>1. row \in [Task -> Row] /\ ed.task \in Task /\ ed.row \in Row /\ Idle(ed.row)
  BY Zenon DEF TypeOK, Edit, HolderInv, PlannedRows
<1>2. /\ KeepsHold(row[ed.task], updateTaskRuntime(row[ed.task], ed.row.status, ed.row.next, ed.row.retry))
      /\ KeepsHold(row[ed.task], updateTaskDefinition(row[ed.task], ed.row.status, ed.row.next, ed.row.retry, ed.row.max))
  BY <1>1, StatementsKeepHold DEF HolderInv, RowsHeld
<1>3. \A t \in Task : KeepsHold(row[t], row[t])
  BY DEF HolderInv, RowsHeld, KeepsHold
<1>4. \A t \in Task : KeepsHold(row[t], row'[t])
  BY <1>1, <1>2, <1>3, Zenon DEF WriteEdit
<1>5. \A d \in edit' : Idle(d.row)
  BY Zenon DEF WriteEdit, HolderInv, PlannedRows
<1> QED
  BY <1>4, <1>5, RequestKeeps DEF WriteEdit

\* RunTaskNow keeps HolderInv: its claim uses an id of its own, and it puts back an idle row.
LEMMA HolderManual ==
    ASSUME TypeOK, HolderInv, NEW e \in Exec, ManualStep(e)
    PROVE  HolderInv'
<1>att. att \in [Exec -> Attempt] /\ att[e] \in Attempt /\ e \in Nat
  BY ExecsAreNotNoExec DEF TypeOK
<1>at. \A pc : At(att[e], pc).snap = att[e].snap /\ At(att[e], pc).pc = pc
  BY <1>att, AtKept, Zenon
<1>row. row \in [Task -> Row]
  BY DEF TypeOK
<1>rows. \A t \in Task : KeepsHold(row[t], row[t])
  BY DEF HolderInv, RowsHeld, KeepsHold
<1>1. CASE ClaimManual(e)
  <2> DEFINE t == att[e].task
  <2>1. Busy(att[e]) /\ ~Past(att[e])
    BY <1>1, Zenon DEF ClaimManual, Busy, Past
  <2>2. att' = [att EXCEPT ![e] = At(@, "rpc")] \/ att' = [att EXCEPT ![e] = Gone("done")]
    BY <1>1, Zenon DEF ClaimManual
  <2>3. PICK v : att' = [att EXCEPT ![e] = v] /\ Past(v) /\ (Busy(v) => v.snap = att[e].snap)
    <3>1. Past(At(att[e], "rpc")) /\ At(att[e], "rpc").snap = att[e].snap
      BY <1>at DEF Past
    <3> QED
      BY <2>2, <3>1, LocalsKept, Zenon
  <2>4. UNCHANGED row \/ row' = [row EXCEPT ![t] = claimTaskExecution(@, e)]
    BY <1>1, Zenon DEF ClaimManual
  <2>5. UNCHANGED <<nextExec, loop, edit>>
    BY <1>1, Zenon DEF ClaimManual, dispVars
  <2>6. CASE t \in Task /\ row' = [row EXCEPT ![t] = claimTaskExecution(@, e)]
    BY <2>1, <2>3, <2>5, <2>6, ClaimStep, Zenon
  <2>7. CASE UNCHANGED row \/ t \notin Task
    <3>1. \A u \in Task : KeepsHold(row[u], row'[u])
      BY <2>4, <2>7, <1>row, <1>rows
    <3> QED
      BY <2>1, <2>3, <2>5, <3>1, ThreadStep, Zenon
  <2> QED
    BY <2>4, <2>6, <2>7
<1>2. CASE CompleteManual(e)
  <2>1. Busy(att[e])
    BY <1>2, Zenon DEF CompleteManual, Busy
  <2>2. att[e].snap \in Row /\ Idle(att[e].snap)
    BY <2>1, <1>att DEF HolderInv, PlannedRows, Attempt
  <2>3. \A u \in Task : KeepsHold(row[u], completeTaskExecution(row[u], e, att[e].snap.status, att[e].snap.next, att[e].snap.retry))
    BY <1>row, <1>att, <2>2, StatementsKeepHold DEF HolderInv, RowsHeld, Row, Idle
  <2>4. \A u \in Task : KeepsHold(row[u], row'[u])
    BY <1>2, <1>row, <1>rows, <2>3, Zenon DEF CompleteManual
  <2> QED
    BY <1>2, <2>1, <2>4, LocalsKept, ThreadStep, Zenon DEF CompleteManual, dispVars
<1> QED
  BY <1>1, <1>2 DEF ManualStep

\* Stopping, crashing and starting keep HolderInv: a crash ends threads and starts none.
LEMMA HolderNode ==
    ASSUME TypeOK, HolderInv, NEW n \in Node, NodeStep(n)
    PROVE  HolderInv'
<1>rows. \A t \in Task : KeepsHold(row[t], row[t])
  BY DEF HolderInv, RowsHeld, KeepsHold
<1>edit. \A ed \in edit : Idle(ed.row)
  BY DEF HolderInv, PlannedRows
<1>1. CASE CrashNode(n)
  <2>1. \A e \in Exec : att'[e] = att[e] \/ att'[e] = Gone("dead")
    BY <1>1, Zenon DEF CrashNode
  <2>2. FreshExecs'
    BY <1>1, ConstantsAssumption, Zenon DEF CrashNode, HolderInv, FreshExecs
  <2>3. \A e \in Exec : Busy(att'[e]) => Idle(att'[e].snap)
    BY <2>1, LocalsKept, Zenon DEF HolderInv, PlannedRows
  <2>4. \A m \in Node : loop'[m] = loop[m] \/ (loop'[m].due = {} /\ loop'[m].pc # "skip")
    BY <1>1, Zenon DEF CrashNode, TypeOK, IdleLoop
  <2>5. PlannedRows'
    <3>1. \A ed \in edit' : Idle(ed.row)
      BY <1>1, <1>edit, Zenon DEF CrashNode
    <3>2. \A m \in Node : (\A s \in loop'[m].due : Idle(s[2])) /\ (loop'[m].pc = "skip" => Idle(loop'[m].cur.row))
      BY <2>4, Zenon DEF HolderInv, PlannedRows
    <3> QED
      BY <2>3, <3>1, <3>2 DEF PlannedRows
  <2>6. \A e \in Exec : Past(att[e]) => Past(att'[e])
    BY <2>1, LocalsKept, Zenon
  <2> QED
    BY <1>1, <1>rows, <2>2, <2>5, <2>6, HolderStep, Zenon DEF CrashNode, storeVars
<1>2. CASE StopNode(n) \/ CloseServer(n) \/ StoppedNode(n) \/ StartNode(n)
  <2>1. UNCHANGED <<row, att, nextExec, loop, edit>>
    BY <1>2 DEF StopNode, CloseServer, StoppedNode, StartNode, storeVars, dispVars
  <2> QED
    BY <1>rows, <1>edit, <2>1, RequestKeeps
<1> QED
  BY <1>1, <1>2 DEF NodeStep

\* Every step keeps HolderInv.
LEMMA HolderNext ==
    ASSUME TypeOK, HolderInv, [Next]_vars
    PROVE  HolderInv'
<1>rows. \A t \in Task : KeepsHold(row[t], row[t])
  BY DEF HolderInv, RowsHeld, KeepsHold
<1>edit. \A ed \in edit : Idle(ed.row)
  BY Zenon DEF HolderInv, PlannedRows
<1>1. ASSUME UNCHANGED <<row, att, nextExec, loop, edit>> PROVE HolderInv'
  BY <1>1, <1>rows, <1>edit, RequestKeeps
<1>2. CASE SchedulerNext /\ UNCHANGED dispVars
  <2>1. ASSUME NEW t \in Task, ExpireLock(t) PROVE HolderInv'
    BY <2>1, <1>1, <1>2 DEF ExpireLock, storeVars, dispVars
  <2>2. ASSUME Tick PROVE HolderInv'
    BY <2>2, <1>1, <1>2 DEF Tick, storeVars, dispVars
  <2> QED
    BY <1>2, <2>1, <2>2, HolderLoop, HolderAttempt, HolderRenewer DEF SchedulerNext
<1>3. CASE DispatcherNext
  BY <1>3, HolderRequest, HolderEdit, HolderManual DEF DispatcherNext
<1>4. CASE NodeNext
  BY <1>4, HolderNode DEF NodeNext
<1>5. CASE UNCHANGED vars
  BY <1>5, <1>1 DEF vars
<1> QED
  BY <1>2, <1>3, <1>4, <1>5 DEF Next

\* Initially no execution id is drawn and no row is held.
LEMMA HolderInit == Init => HolderInv
<1> SUFFICES ASSUME Init PROVE HolderInv
  OBVIOUS
<1>1. /\ att = [e \in Exec |-> NoAttempt] /\ row = [t \in Task |-> NoRow] /\ edit = {}
      /\ loop = [n \in Node |-> IdleLoop]
  BY DEF Init, SchedulerInit
<1>2. FreshExecs
  BY <1>1 DEF FreshExecs, NoAttempt
<1>3. ClaimedOnce
  BY <1>1, ExecsAreNotNoExec DEF ClaimedOnce, NoRow
<1>4. RowsHeld
  BY <1>1 DEF RowsHeld, Held, NoRow
<1>5. PlannedRows
  BY <1>1, Zenon DEF PlannedRows, IdleLoop, Busy, NoAttempt
<1> QED
  BY <1>2, <1>3, <1>4, <1>5 DEF HolderInv

\* In every state the control plane reaches, an execution id in a row belongs to a thread that is
\* past its claim, and a row is running exactly while it names an execution: the ids that
\* next_execution_id draws and claimTaskExecution writes are each written at most once.
THEOREM HoldersAreClaimed == Spec => []HolderInv
<1>1. TypeOK /\ HolderInv /\ [Next]_vars => HolderInv'
  BY HolderNext
<1> QED
  BY <1>1, HolderInit, TypeCorrect, PTL DEF Spec

-----------------------------------------------------------------------------
(* Refinement: what a step does to the rows is a step of TaskLifecycle *)

LifeStep == [Lifecycle!Next]_(Lifecycle!lifeVars)

\* What a statement other than a claim may do to the status and the holder of a row.
Allowed(r, s) ==
    \/ s.status = r.status /\ s.exec = r.exec
    \/ r.status = "running" /\ Idle(s) /\ s.exec = NoExec
    \/ Idle(r) /\ (Idle(s) \/ s.status = "deleted") /\ s.exec = r.exec
    \/ r.status = "unborn" /\ s.status = "scheduled" /\ s.exec = r.exec

\* The statements of MySQLClient change a row only in those ways.
LEMMA StatementsAllowed ==
    /\ \A r \in Row, next \in Nat, max \in Nat :
         r.status = "unborn" /\ r.exec = NoExec => Allowed(r, addTask(next, max))
    /\ \A r \in Row : Held(r) => Allowed(r, deleteTask(r)) /\ Allowed(r, cancelTask(r))
    /\ \A r \in Row, e \in Nat : Held(r) => Allowed(r, recoverTaskExecution(r, e))
    /\ \A r \in Row, s \in Row : Held(r) /\ Idle(s) =>
         /\ Allowed(r, updateTaskRuntime(r, s.status, s.next, s.retry))
         /\ Allowed(r, updateTaskDefinition(r, s.status, s.next, s.retry, s.max))
    /\ \A r \in Row, e \in Nat, status \in {"scheduled", "disabled"}, next \in Nat, retry \in Nat : Held(r) =>
         Allowed(r, completeTaskExecution(r, e, status, next, retry))
<1> USE DEF Allowed, Held, Idle
<1>1. \A r \in Row, next \in Nat, max \in Nat :
        r.status = "unborn" /\ r.exec = NoExec => Allowed(r, addTask(next, max))
  BY DEF addTask
<1>2. \A r \in Row : Held(r) => Allowed(r, deleteTask(r)) /\ Allowed(r, cancelTask(r))
  BY DEF deleteTask, cancelTask, NoRow, NotRunning, Exists, Stored, Row
<1>3. \A r \in Row, e \in Nat : Held(r) => Allowed(r, recoverTaskExecution(r, e))
  BY DEF recoverTaskExecution, Row
<1>4. \A r \in Row, s \in Row : Held(r) /\ Idle(s) =>
        /\ Allowed(r, updateTaskRuntime(r, s.status, s.next, s.retry))
        /\ Allowed(r, updateTaskDefinition(r, s.status, s.next, s.retry, s.max))
  BY DEF updateTaskRuntime, updateTaskDefinition, NotRunning, Row
<1>5. \A r \in Row, e \in Nat, status \in {"scheduled", "disabled"}, next \in Nat, retry \in Nat : Held(r) =>
        Allowed(r, completeTaskExecution(r, e, status, next, retry))
  BY DEF completeTaskExecution, Row
<1> QED
  BY <1>1, <1>2, <1>3, <1>4, <1>5, Zenon

\* A statement on one row, while no execution passes its claim.
LEMMA RowStep ==
    ASSUME TypeOK, NEW t \in Task, NEW r, row' = [row EXCEPT ![t] = r], Allowed(row[t], r),
           \A e \in Exec : Past(att[e]) <=> Past(att'[e])
    PROVE  LifeStep
<1> DEFINE status == [u \in Task |-> row[u].status]
           holder == [u \in Task |-> row[u].exec]
           used == {e \in Exec : att[e].pc \notin {"new", "claim", "manual"}}
<1>1. status' = [status EXCEPT ![t] = r.status] /\ holder' = [holder EXCEPT ![t] = r.exec]
  BY Zenon DEF TypeOK
<1>2. used' = used
  BY DEF Past
<1>3. status[t] = row[t].status /\ holder[t] = row[t].exec
  OBVIOUS
<1> HIDE DEF status, holder, used
<1>4. CASE r.status = row[t].status /\ r.exec = row[t].exec
  <2>1. status' = status
    BY <1>1, <1>3, <1>4, Zenon DEF status
  <2>2. holder' = holder
    BY <1>1, <1>3, <1>4, Zenon DEF holder
  <2> QED
    BY <1>2, <2>1, <2>2, Zenon DEF LifeStep, Lifecycle!lifeVars, status, holder, used
<1>5. CASE row[t].status = "running" /\ Idle(r) /\ r.exec = NoExec
  <2>1. Lifecycle!Release(t, r.status)
    BY <1>1, <1>2, <1>3, <1>5, Zenon DEF Lifecycle!Release, status, holder, used
  <2> QED
    BY <2>1, <1>5, Zenon DEF LifeStep, Lifecycle!Next, Idle
<1>6. ASSUME r.exec = row[t].exec PROVE holder' = holder
  BY <1>1, <1>3, <1>6, Zenon DEF holder
<1>7. CASE Idle(row[t]) /\ Idle(r) /\ r.exec = row[t].exec
  <2>1. Lifecycle!Switch(t, r.status)
    BY <1>1, <1>2, <1>3, <1>6, <1>7, Zenon DEF Lifecycle!Switch, Idle, status, holder, used
  <2> QED
    BY <2>1, <1>7, Zenon DEF LifeStep, Lifecycle!Next, Idle
<1>8. CASE Idle(row[t]) /\ r.status = "deleted" /\ r.exec = row[t].exec
  <2>1. Lifecycle!Delete(t)
    BY <1>1, <1>2, <1>3, <1>6, <1>8, Zenon DEF Lifecycle!Delete, Idle, status, holder, used
  <2> QED
    BY <2>1, Zenon DEF LifeStep, Lifecycle!Next
<1>9. CASE row[t].status = "unborn" /\ r.status = "scheduled" /\ r.exec = row[t].exec
  <2>1. Lifecycle!Submit(t)
    BY <1>1, <1>2, <1>3, <1>6, <1>9, Zenon DEF Lifecycle!Submit, status, holder, used
  <2> QED
    BY <2>1, Zenon DEF LifeStep, Lifecycle!Next
<1> QED
  BY <1>4, <1>5, <1>7, <1>8, <1>9 DEF Allowed

\* A step that writes no row: executions may give up.
LEMMA NoRowStep ==
    ASSUME UNCHANGED row, \A e \in Exec : Past(att[e]) => Past(att'[e])
    PROVE  LifeStep
<1> DEFINE used == {e \in Exec : att[e].pc \notin {"new", "claim", "manual"}}
<1>1. used' \in SUBSET Exec /\ used' = used \cup used'
  BY DEF Past
<1>2. PICK S \in SUBSET Exec : S = used'
  BY <1>1, Zenon
<1>3. Lifecycle!Discard(S)
  BY <1>1, <1>2, Zenon DEF Lifecycle!Discard
<1> QED
  BY <1>3, Zenon DEF LifeStep, Lifecycle!Next

\* The claim of a row by an execution that has not claimed anything before.
LEMMA ClaimRefines ==
    ASSUME TypeOK, NEW t \in Task, NEW e \in Exec, NEW v, Idle(row[t]),
           row' = [row EXCEPT ![t] = claimTaskExecution(@, e)],
           att' = [att EXCEPT ![e] = v], ~Past(att[e]), Past(v)
    PROVE  LifeStep
<1> DEFINE status == [u \in Task |-> row[u].status]
           holder == [u \in Task |-> row[u].exec]
           used == {f \in Exec : att[f].pc \notin {"new", "claim", "manual"}}
<1>1. claimTaskExecution(row[t], e).status = "running" /\ claimTaskExecution(row[t], e).exec = e
  BY DEF TypeOK, Row, claimTaskExecution
<1>2. status' = [status EXCEPT ![t] = "running"] /\ holder' = [holder EXCEPT ![t] = e]
  BY <1>1, Zenon DEF TypeOK
<1>3. used' = used \cup {e} /\ e \notin used
  BY DEF TypeOK, Past
<1>4. Lifecycle!Claim(t, e)
  BY <1>2, <1>3, Zenon DEF Lifecycle!Claim, Idle
<1> QED
  BY <1>4 DEF LifeStep, Lifecycle!Next

\* No thread goes back behind its claim.
LEMMA PastStays ==
    ASSUME TypeOK, HolderInv, [Next]_vars, NEW e \in Exec, Past(att[e])
    PROVE  Past(att'[e])
<1>att. att \in [Exec -> Attempt] /\ \A f \in Exec : att[f] \in Attempt
  BY DEF TypeOK
<1>fresh. att[e].pc # "new" /\ e < nextExec /\ e # nextExec
  BY ExecsAreNotNoExec, ConstantsAssumption DEF HolderInv, FreshExecs, Past, TypeOK
<1>at. \A a \in Attempt : Past(a) => Past(Cancelled(a))
  BY LocalsKept, Zenon DEF Past
<1>gone. Past(Gone("done")) /\ Past(Gone("dead"))
  BY LocalsKept, Zenon
<1>pcs. \A a \in Attempt :
          /\ \A pc \in {"claimed", "unlock", "restore", "queued", "rpc", "complete", "cleanup"} : Past(At(a, pc))
          /\ \A out : Past(Ended(a, out))
  BY LocalsKept, Zenon DEF Past
<1>1. CASE SchedulerNext /\ UNCHANGED dispVars
  <2>1. ASSUME NEW n \in Node, LoopStep(n) PROVE att'[e] = att[e]
    BY <2>1, <1>att, <1>fresh, Zenon DEF LoopStep, ScanStale, RecoverLock, RecoverRow, RecoverUnlock, ScanDue, PlanSkip,
          WriteSkip, NoWorker, LockTask, LockBusy
  <2>2. ASSUME NEW n \in Node, RenewerStep(n) PROVE att'[e] = att[e] \/ att'[e] = Cancelled(att[e])
    BY <2>2, Zenon DEF RenewerStep, RenewLease, ApplyLost
  <2>3. ASSUME NEW f \in Exec, AttemptStep(f)
        PROVE  \/ att'[e] = att[e] \/ att'[e] = Gone("done")
               \/ \E pc \in {"claimed", "unlock", "restore", "queued", "rpc", "complete", "cleanup"} : att'[e] = At(att[e], pc)
               \/ \E out : att'[e] = Ended(att[e], out)
    <3>1. CASE ClaimTask(f) \/ EnqueueTask(f) \/ RestoreTask(f) \/ UnlockTask(f)
      BY <3>1, <1>att, Zenon DEF ClaimTask, EnqueueTask, RestoreTask, UnlockTask
    <3>2. CASE StartTask(f) \/ (\E out \in {"ok", "failed"} : FinishRpc(f, out))
      BY <3>2, <1>att DEF StartTask, FinishRpc
    <3>3. CASE RecordHistory(f) \/ CompleteTask(f) \/ CleanupTask(f)
      BY <3>3, <1>att, Zenon DEF RecordHistory, CompleteTask, CleanupTask
    <3> QED
      BY <2>3, <3>1, <3>2, <3>3, Zenon DEF AttemptStep
  <2>4. ASSUME (\E t \in Task : ExpireLock(t)) \/ Tick PROVE att'[e] = att[e]
    BY <2>4 DEF ExpireLock, Tick
  <2>5. ASSUME NEW n \in Node, LoopStep(n) \/ RenewerStep(n) PROVE Past(att'[e])
    BY <2>1, <2>2, <2>5, <1>att, <1>at
  <2>6. ASSUME NEW f \in Exec, AttemptStep(f) PROVE Past(att'[e])
    BY <2>3, <2>6, <1>att, <1>pcs, <1>gone
  <2> QED
    BY <1>1, <2>4, <2>5, <2>6, Zenon DEF SchedulerNext
<1>2. CASE DispatcherNext
  <2>1. ASSUME NEW n \in Node, NEW t \in Task, RequestStep(n, t) PROVE att'[e] = att[e] \/ att'[e] = Cancelled(att[e])
    BY <2>1, <1>att, <1>fresh, Zenon DEF RequestStep, handleSubmitTask, handleCancelTask, CancelRegistered, handleEnableTask,
          handleUpdateTask, handleDeleteTask, handleRunTaskNow
  <2>2. ASSUME NEW ed \in edit, WriteEdit(ed) PROVE att'[e] = att[e]
    BY <2>2 DEF WriteEdit
  <2>3. ASSUME NEW f \in Exec, ManualStep(f)
        PROVE  att'[e] \in {att[e], Gone("done"), At(att[e], "rpc")}
    BY <2>3, <1>att, Zenon DEF ManualStep, ClaimManual, CompleteManual
  <2> QED
    BY <1>2, <1>att, <1>at, <1>pcs, <1>gone, <2>1, <2>2, <2>3 DEF DispatcherNext
<1>3. CASE NodeNext
  <2>1. att'[e] = att[e] \/ att'[e] = Gone("dead")
    BY <1>3, Zenon DEF NodeNext, NodeStep, StopNode, CloseServer, StoppedNode, CrashNode, StartNode
  <2> QED
    BY <2>1, LocalsKept, Zenon
<1>4. CASE UNCHANGED vars
  BY <1>4 DEF vars
<1> QED
  BY <1>1, <1>2, <1>3, <1>4 DEF Next

\* Every step is a step of TaskLifecycle or leaves its variables alone.
LEMMA StepRefines ==
    ASSUME TypeOK, HolderInv, [Next]_vars
    PROVE  LifeStep
<1>att. att \in [Exec -> Attempt] /\ (\A f \in Exec : att[f] \in Attempt) /\ Exec \subseteq Nat
  BY ExecsAreNotNoExec DEF TypeOK
<1>row. row \in [Task -> Row] /\ \A t \in Task : row[t] \in Row /\ Held(row[t])
  BY DEF TypeOK, HolderInv, RowsHeld
<1>none. ASSUME UNCHANGED row PROVE LifeStep
  BY <1>none, PastStays, NoRowStep
<1>one. ASSUME NEW t, NEW r, row' = [row EXCEPT ![t] = r], t \in Task => Allowed(row[t], r),
               \A e \in Exec : Past(att'[e]) => Past(att[e])
        PROVE  LifeStep
  <2>1. CASE t \in Task
    BY <1>one, <2>1, PastStays, RowStep, Zenon
  <2>2. CASE t \notin Task
    BY <1>one, <2>2, <1>row, <1>none
  <2> QED
    BY <2>1, <2>2
<1>thread. ASSUME NEW e \in Exec, NEW v, att' = [att EXCEPT ![e] = v], Past(att[e]), NEW f \in Exec, Past(att'[f])
           PROVE  Past(att[f])
  BY <1>thread, <1>att
<1>claim. ASSUME NEW e \in Exec, NEW v, NEW t, Idle(row[t]),
                 row' = [row EXCEPT ![t] = claimTaskExecution(@, e)],
                 att' = [att EXCEPT ![e] = v], ~Past(att[e]), Past(v)
          PROVE  LifeStep
  <2>1. CASE t \in Task
    BY <1>claim, <2>1, ClaimRefines, Zenon
  <2>2. CASE t \notin Task
    BY <1>claim, <2>2, <1>row, <1>none
  <2> QED
    BY <2>1, <2>2
<1>1. ASSUME NEW n \in Node, LoopStep(n) PROVE LifeStep
  <2>loop. loop[n] \in LoopState
    BY DEF TypeOK
  <2>1. CASE RecoverRow(n)
    <3>1. loop[n].cur.exec \in Nat
      BY <2>loop DEF LoopState, Current
    <3>2. \A t \in Task : Allowed(row[t], recoverTaskExecution(row[t], loop[n].cur.exec))
      BY <1>row, <3>1, StatementsAllowed, Zenon
    <3>3. UNCHANGED att
      BY <2>1 DEF RecoverRow
    <3>4. UNCHANGED row \/ row' = [row EXCEPT ![loop[n].cur.task] = recoverTaskExecution(@, loop[n].cur.exec)]
      BY <2>1 DEF RecoverRow
    <3> QED
      BY <3>2, <3>3, <3>4, <1>none, <1>one, Zenon
  <2>2. CASE WriteSkip(n)
    <3> DEFINE r == loop[n].cur.row
    <3>1. r \in Row /\ Idle(r)
      BY <2>2, <2>loop DEF WriteSkip, LoopState, Current, HolderInv, PlannedRows
    <3>2. \A t \in Task : Allowed(row[t], updateTaskRuntime(row[t], r.status, r.next, r.retry))
      BY <1>row, <3>1, StatementsAllowed, Zenon
    <3>3. UNCHANGED att
      BY <2>2 DEF WriteSkip
    <3>4. UNCHANGED row \/ row' = [row EXCEPT ![loop[n].cur.task] = updateTaskRuntime(@, r.status, r.next, r.retry)]
      BY <2>2 DEF WriteSkip
    <3> QED
      BY <3>2, <3>3, <3>4, <1>none, <1>one, Zenon
  <2>3. CASE ~RecoverRow(n) /\ ~WriteSkip(n)
    BY <1>1, <2>3, <1>none, Zenon DEF LoopStep, ScanStale, RecoverLock, RecoverUnlock, ScanDue, PlanSkip, NoWorker, LockTask,
          LockBusy, storeVars
  <2> QED
    BY <2>1, <2>2, <2>3
<1>2. ASSUME NEW e \in Exec, AttemptStep(e) PROVE LifeStep
  <2>1. CASE ClaimTask(e)
    <3>1. CASE UNCHANGED row
      BY <3>1, <1>none
    <3>2. CASE row' # row
      <4>1. /\ row[att[e].task].status = "scheduled" /\ ~Past(att[e])
            /\ row' = [row EXCEPT ![att[e].task] = claimTaskExecution(@, e)]
        BY <2>1, <3>2, Zenon DEF ClaimTask, ClaimMatches, Past
      <4>2. PICK pc \in {"claimed", "unlock"} : att' = [att EXCEPT ![e] = At(@, pc)]
        BY <2>1, Zenon DEF ClaimTask
      <4>3. Past(At(att[e], pc)) /\ Idle(row[att[e].task])
        BY <4>1, <1>att, LocalsKept, ZenonT(60) DEF Past, Idle
      <4> QED
        BY <4>1, <4>2, <4>3, <1>claim, Zenon
    <3> QED
      BY <3>1, <3>2
  <2>2. CASE RestoreTask(e)
    <3>1. att[e].snap.next \in Nat /\ att[e].snap.retry \in Nat
      BY <1>att DEF Attempt, Row
    <3>2. \A t \in Task : Allowed(row[t], completeTaskExecution(row[t], e, "scheduled", att[e].snap.next, att[e].snap.retry))
      BY <1>row, <1>att, <3>1, StatementsAllowed, Zenon
    <3>3. Past(att[e]) /\ att' = [att EXCEPT ![e] = At(@, "unlock")]
      BY <2>2, Zenon DEF RestoreTask, Past
    <3>4. \A f \in Exec : Past(att'[f]) => Past(att[f])
      BY <3>3, <1>thread
    <3>5. UNCHANGED row \/ row' = [row EXCEPT ![att[e].task] =
                                    completeTaskExecution(@, e, "scheduled", att[e].snap.next, att[e].snap.retry)]
      BY <2>2, Zenon DEF RestoreTask
    <3> QED
      BY <3>2, <3>4, <3>5, <1>none, <1>one, Zenon
  <2>3. CASE CompleteTask(e)
    <3>1. \A r \in NextRows(att[e]) : r.status \in {"scheduled", "disabled"} /\ r.next \in Nat /\ r.retry \in Nat
      BY <1>att, NextRowsTyped, NextRowsIdle DEF Row, Idle
    <3>2. \A t \in Task : \A r \in NextRows(att[e]) :
            Allowed(row[t], completeTaskExecution(row[t], e, r.status, r.next, r.retry))
      BY <1>row, <1>att, <3>1, StatementsAllowed
    <3>3. Past(att[e]) /\ att' = [att EXCEPT ![e] = At(@, "cleanup")]
      BY <2>3, Zenon DEF CompleteTask, Past
    <3>4. \A f \in Exec : Past(att'[f]) => Past(att[f])
      BY <3>3, <1>thread
    <3>5. UNCHANGED row \/ \E r \in NextRows(att[e]) :
            row' = [row EXCEPT ![att[e].task] = completeTaskExecution(@, e, r.status, r.next, r.retry)]
      BY <2>3, Zenon DEF CompleteTask
    <3> QED
      BY <3>2, <3>4, <3>5, <1>none, <1>one, Zenon
  <2>4. CASE ~ClaimTask(e) /\ ~RestoreTask(e) /\ ~CompleteTask(e)
    BY <1>2, <2>4, <1>none, Zenon DEF AttemptStep, EnqueueTask, UnlockTask, StartTask, FinishRpc, RecordHistory, CleanupTask, storeVars
  <2> QED
    BY <2>1, <2>2, <2>3, <2>4
<1>3. CASE SchedulerNext /\ UNCHANGED dispVars
  <2>1. ASSUME NEW n \in Node, RenewerStep(n) PROVE LifeStep
    BY <2>1, <1>none DEF RenewerStep, RenewLease, ApplyLost, storeVars
  <2>2. ASSUME (\E t \in Task : ExpireLock(t)) \/ Tick PROVE LifeStep
    BY <2>2, <1>none DEF ExpireLock, Tick, storeVars
  <2> QED
    BY <1>1, <1>2, <1>3, <2>1, <2>2 DEF SchedulerNext
<1>4. ASSUME NEW n \in Node, NEW t \in Task, RequestStep(n, t) PROVE LifeStep
  <2>1. CASE handleSubmitTask(n, t)
    <3>1. row[t].status = "unborn" /\ row[t].exec = NoExec /\ now \in Nat
      BY <2>1, <1>row, ConstantsAssumption, SMTT(60) DEF handleSubmitTask, Held, TypeOK
    <3>2. PICK next \in Nat : row' = [row EXCEPT ![t] = addTask(next, DefaultRetries)]
      BY <2>1, <3>1, LaterIsLater, Zenon DEF handleSubmitTask
    <3>3. Allowed(row[t], addTask(next, DefaultRetries))
      BY <1>row, <3>1, StatementsAllowed, ConstantsAssumption, Zenon
    <3>4. UNCHANGED att
      BY <2>1 DEF handleSubmitTask
    <3> QED
      BY <3>2, <3>3, <3>4, <1>one, Zenon
  <2>2. CASE handleCancelTask(n, t)
    <3>1. row' = [row EXCEPT ![t] = cancelTask(@)] /\ UNCHANGED att
      BY <2>2 DEF handleCancelTask
    <3>2. Allowed(row[t], cancelTask(row[t]))
      BY <1>row, StatementsAllowed, Zenon
    <3> QED
      BY <3>1, <3>2, <1>one, Zenon
  <2>3. CASE handleDeleteTask(n, t)
    <3>1. row' = [row EXCEPT ![t] = deleteTask(@)] /\ UNCHANGED att
      BY <2>3 DEF handleDeleteTask
    <3>2. Allowed(row[t], deleteTask(row[t]))
      BY <1>row, StatementsAllowed, Zenon
    <3> QED
      BY <3>1, <3>2, <1>one, Zenon
  <2>4. CASE CancelRegistered(n, t) \/ handleEnableTask(n, t) \/ handleUpdateTask(n, t) \/ handleRunTaskNow(n, t)
    BY <2>4, <1>none, Zenon DEF CancelRegistered, handleEnableTask, handleUpdateTask, handleRunTaskNow, storeVars
  <2> QED
    BY <1>4, <2>1, <2>2, <2>3, <2>4 DEF RequestStep
<1>5. ASSUME NEW ed \in edit, WriteEdit(ed) PROVE LifeStep
  <2> DEFINE r == ed.row
  <2>1. ed.task \in Task /\ r \in Row /\ Idle(r)
    BY <1>5, Zenon DEF TypeOK, Edit, HolderInv, PlannedRows
  <2>2. /\ Allowed(row[ed.task], updateTaskRuntime(row[ed.task], r.status, r.next, r.retry))
        /\ Allowed(row[ed.task], updateTaskDefinition(row[ed.task], r.status, r.next, r.retry, r.max))
    BY <2>1, <1>row, StatementsAllowed, Zenon
  <2>3. \/ UNCHANGED row
        \/ row' = [row EXCEPT ![ed.task] = updateTaskRuntime(@, r.status, r.next, r.retry)]
        \/ row' = [row EXCEPT ![ed.task] = updateTaskDefinition(@, r.status, r.next, r.retry, r.max)]
    BY <1>5, Zenon DEF WriteEdit
  <2>4. UNCHANGED att
    BY <1>5 DEF WriteEdit
  <2> QED
    BY <2>2, <2>3, <2>4, <1>none, <1>one, Zenon
<1>6. ASSUME NEW e \in Exec, ManualStep(e) PROVE LifeStep
  <2>1. CASE ClaimManual(e)
    <3>1. CASE UNCHANGED row
      BY <3>1, <1>none
    <3>2. CASE row' # row
      <4>1. /\ row[att[e].task].status = att[e].snap.status /\ ~Past(att[e]) /\ Busy(att[e])
            /\ row' = [row EXCEPT ![att[e].task] = claimTaskExecution(@, e)]
        BY <2>1, <3>2, Zenon DEF ClaimManual, ClaimMatches, Past, Busy
      <4>2. att' = [att EXCEPT ![e] = At(@, "rpc")] \/ att' = [att EXCEPT ![e] = Gone("done")]
        BY <2>1, Zenon DEF ClaimManual
      <4>3. Past(At(att[e], "rpc")) /\ Past(Gone("done"))
        <5>1. At(att[e], "rpc").pc = "rpc"
          BY <1>att, AtKept, Zenon
        <5> QED
          BY <5>1, LocalsKept, Zenon DEF Past
      <4>4. Idle(row[att[e].task])
        BY <4>1, Zenon DEF Idle, HolderInv, PlannedRows
      <4> QED
        BY <4>1, <4>2, <4>3, <4>4, <1>claim, Zenon
    <3> QED
      BY <3>1, <3>2
  <2>2. CASE CompleteManual(e)
    <3> DEFINE s == att[e].snap
    <3>1. s \in Row /\ Idle(s) /\ s.next \in Nat /\ s.retry \in Nat
      BY <2>2, <1>att, Zenon DEF CompleteManual, Attempt, Row, HolderInv, PlannedRows, Busy
    <3>2. \A t \in Task : Allowed(row[t], completeTaskExecution(row[t], e, s.status, s.next, s.retry))
      BY <1>row, <1>att, <3>1, StatementsAllowed, Zenon DEF Idle
    <3>3. Past(att[e]) /\ att' = [att EXCEPT ![e] = Gone("done")]
      BY <2>2, Zenon DEF CompleteManual, Past
    <3>4. \A f \in Exec : Past(att'[f]) => Past(att[f])
      BY <3>3, <1>thread
    <3>5. UNCHANGED row \/ row' = [row EXCEPT ![att[e].task] = completeTaskExecution(@, e, s.status, s.next, s.retry)]
      BY <2>2, Zenon DEF CompleteManual
    <3> QED
      BY <3>2, <3>4, <3>5, <1>none, <1>one, Zenon
  <2> QED
    BY <1>6, <2>1, <2>2 DEF ManualStep
<1>7. CASE DispatcherNext
  BY <1>4, <1>5, <1>6, <1>7 DEF DispatcherNext
<1>8. CASE NodeNext
  BY <1>8, <1>none, Zenon DEF NodeNext, NodeStep, StopNode, CloseServer, StoppedNode, CrashNode, StartNode, storeVars
<1>9. CASE UNCHANGED vars
  BY <1>9, <1>none DEF vars
<1> QED
  BY <1>3, <1>7, <1>8, <1>9 DEF Next

\* The control plane implements TaskLifecycle for any nodes, tasks, requests and failures: an
\* execution id holds a row once, for one stretch, and a held row is neither edited nor deleted, so
\* current_execution_id fences off an execution that has lost its row.
THEOREM ImplementsLifecycle == Spec => LifecycleHolds
<1>1. Init => Lifecycle!Init
  BY SMTT(60) DEF Init, SchedulerInit, Lifecycle!Init, NoRow, NoAttempt
<1>2. TypeOK /\ HolderInv /\ [Next]_vars => [Lifecycle!Next]_(Lifecycle!lifeVars)
  BY StepRefines DEF LifeStep
<1> QED
  BY <1>1, <1>2, TypeCorrect, HoldersAreClaimed, PTL DEF Spec, LifecycleHolds, Lifecycle!Spec

-----------------------------------------------------------------------------
(* Who writes a row, and with what *)

\* The fields of an execution that its steps keep (see LocalsKept).
LEMMA FieldsKept ==
    /\ \A a \in Attempt : \A pc : At(a, pc).task = a.task /\ At(a, pc).kind = a.kind /\ At(a, pc).end = a.end
    /\ \A a \in Attempt : \A out : Ended(a, out).task = a.task /\ Ended(a, out).kind = a.kind /\ Ended(a, out).end = now
    /\ \A a \in Attempt : Cancelled(a).task = a.task /\ Cancelled(a).kind = a.kind /\ Cancelled(a).end = a.end
    /\ \A pc : Gone(pc).kind = "sched"
    /\ \A pc, kind, n, t, r : Begin(pc, kind, n, t, r).kind = kind /\ Begin(pc, kind, n, t, r).pc = pc
BY DEF At, Ended, Cancelled, Gone, Begin, NoAttempt, Attempt

\* The same execution of the same task by the same node.
SameWork(a, b) == b.kind = a.kind /\ b.node = a.node /\ b.task = a.task

\* The thread of e gets as far as pc, or returns; all the others stay where they are.
Moves(e, pc) == att'[e].pc = pc /\ SameWork(att[e], att'[e]) /\ \A f \in Exec : f # e => att'[f] = att[f]
Leaves(e) ==
    /\ att'[e].pc = "done" /\ att'[e].kind = "sched" /\ att'[e].node = None
    /\ \A f \in Exec : f # e => att'[f] = att[f]

\* What an update of one thread's local state does to all threads.
LEMMA MovesBy ==
    ASSUME TypeOK, NEW e \in Exec
    PROVE  /\ \A pc : att' = [att EXCEPT ![e] = At(@, pc)] => Moves(e, pc)
           /\ \A out : att' = [att EXCEPT ![e] = Ended(@, out)] => Moves(e, "record")
           /\ att' = [att EXCEPT ![e] = Gone("done")] => Leaves(e)
<1>1. att \in [Exec -> Attempt] /\ att[e] \in Attempt
  BY DEF TypeOK
<1>2. ASSUME NEW pc, att' = [att EXCEPT ![e] = At(@, pc)] PROVE Moves(e, pc)
  <2>1. att'[e] = At(att[e], pc) /\ \A f \in Exec : f # e => att'[f] = att[f]
    BY <1>1, <1>2
  <2> QED
    BY <1>1, <2>1 DEF Moves, SameWork, At, Attempt
<1>3. ASSUME NEW out, att' = [att EXCEPT ![e] = Ended(@, out)] PROVE Moves(e, "record")
  <2>1. att'[e] = Ended(att[e], out) /\ \A f \in Exec : f # e => att'[f] = att[f]
    BY <1>1, <1>3
  <2> QED
    BY <1>1, <2>1 DEF Moves, SameWork, Ended, Attempt
<1>4. ASSUME att' = [att EXCEPT ![e] = Gone("done")] PROVE Leaves(e)
  <2>1. att'[e] = Gone("done") /\ \A f \in Exec : f # e => att'[f] = att[f]
    BY <1>1, <1>4
  <2> QED
    BY <2>1 DEF Leaves, Gone, NoAttempt
<1> QED
  BY <1>2, <1>3, <1>4

\* The thread of an execution claims the row of its task, puts it back or completes it.
WrittenByThread(t, e) ==
    LET a == att[e]
    IN  /\ a.task = t /\ att'[e].pc # a.pc
        /\ \/ a.pc = "claim" /\ row[t].status = "scheduled" /\ row'[t] = claimTaskExecution(row[t], e)
           \/ a.pc = "manual" /\ row[t].status = a.snap.status /\ row'[t] = claimTaskExecution(row[t], e)
           \/ a.pc = "restore" /\ row'[t] = completeTaskExecution(row[t], e, "scheduled", a.snap.next, a.snap.retry)
           \/ /\ a.pc = "complete" /\ a.kind = "sched"
              /\ \E r \in NextRows(a) : row'[t] = completeTaskExecution(row[t], e, r.status, r.next, r.retry)
           \/ /\ a.pc = "complete" /\ a.kind = "manual"
              /\ row'[t] = completeTaskExecution(row[t], e, a.snap.status, a.snap.next, a.snap.retry)

\* A request submits, cancels or deletes the task, or ends an edit of it.
WrittenByRequest(t) ==
    \/ row[t].status = "unborn" /\ \E next \in Nat : row'[t] = addTask(next, DefaultRetries)
    \/ row'[t] = cancelTask(row[t])
    \/ row'[t] = deleteTask(row[t])
    \/ \E ed \in edit : LET r == ed.row IN
         /\ ed \notin edit' /\ ed.task = t
         /\ \/ row'[t] = updateTaskRuntime(row[t], r.status, r.next, r.retry)
            \/ row'[t] = updateTaskDefinition(row[t], r.status, r.next, r.retry, r.max)

\* The scan thread of n takes the row back from a stale execution, or skips a slot of it.
WrittenByLoop(t, n) ==
    LET c == loop[n].cur
    IN  /\ c.task = t
        /\ \/ loop[n].pc = "recovering" /\ row'[t] = recoverTaskExecution(row[t], c.exec)
           \/ loop[n].pc = "skip" /\ row'[t] = updateTaskRuntime(row[t], c.row.status, c.row.next, c.row.retry)

\* Nobody else writes a row.
LEMMA RowWriters ==
    ASSUME TypeOK, [Next]_vars, NEW t \in Task, row'[t] # row[t]
    PROVE  \/ \E e \in Exec : WrittenByThread(t, e)
           \/ \E n \in Node : WrittenByLoop(t, n)
           \/ WrittenByRequest(t)
<1>row. row \in [Task -> Row] /\ row' # row /\ now \in Nat
  BY ConstantsAssumption DEF TypeOK
<1>one. ASSUME NEW u, NEW r, row' = [row EXCEPT ![u] = r] PROVE u = t /\ row'[t] = r
  BY <1>one, <1>row
<1>1. ASSUME NEW n \in Node, LoopStep(n) PROVE WrittenByLoop(t, n)
  <2> DEFINE c == loop[n].cur
  <2>1. RecoverRow(n) \/ WriteSkip(n)
    BY <1>1, <1>row, Zenon DEF LoopStep, ScanStale, RecoverLock, RecoverUnlock, ScanDue, PlanSkip, NoWorker, LockTask,
          LockBusy, storeVars
  <2>2. CASE RecoverRow(n)
    <3>1. loop[n].pc = "recovering" /\ row' = [row EXCEPT ![c.task] = recoverTaskExecution(row[c.task], c.exec)]
      BY <2>2, <1>row, Zenon DEF RecoverRow
    <3> QED
      BY <3>1, <1>one, Zenon DEF WrittenByLoop
  <2>3. CASE WriteSkip(n)
    <3>1. /\ loop[n].pc = "skip"
          /\ row' = [row EXCEPT ![c.task] = updateTaskRuntime(row[c.task], c.row.status, c.row.next, c.row.retry)]
      BY <2>3, <1>row, Zenon DEF WriteSkip
    <3> QED
      BY <3>1, <1>one, Zenon DEF WrittenByLoop
  <2> QED
    BY <2>1, <2>2, <2>3
<1>2. ASSUME NEW e \in Exec, AttemptStep(e) \/ ManualStep(e) PROVE WrittenByThread(t, e)
  <2> DEFINE a == att[e]
  <2>1. ClaimTask(e) \/ RestoreTask(e) \/ CompleteTask(e) \/ ClaimManual(e) \/ CompleteManual(e)
    BY <1>2, <1>row, Zenon DEF AttemptStep, ManualStep, EnqueueTask, UnlockTask, StartTask, FinishRpc, RecordHistory,
          CleanupTask, storeVars
  <2>2. att'[e].pc # a.pc
    <3>1. \/ a.pc = "claim" /\ (Moves(e, "claimed") \/ Moves(e, "unlock"))
          \/ a.pc = "restore" /\ Moves(e, "unlock")
          \/ a.pc = "complete" /\ (Moves(e, "cleanup") \/ Leaves(e))
          \/ a.pc = "manual" /\ (Moves(e, "rpc") \/ Leaves(e))
      BY <2>1, MovesBy, Zenon DEF ClaimTask, RestoreTask, CompleteTask, ClaimManual, CompleteManual
    <3> QED
      BY <3>1 DEF Moves, Leaves
  <2>3. CASE ClaimTask(e)
    <3>1. a.pc = "claim" /\ row[a.task].status = "scheduled" /\ row' = [row EXCEPT ![a.task] = claimTaskExecution(row[a.task], e)]
      BY <2>3, <1>row, Zenon DEF ClaimTask, ClaimMatches
    <3> QED
      BY <2>2, <3>1, <1>one, Zenon DEF WrittenByThread
  <2>4. CASE ClaimManual(e)
    <3>1. a.pc = "manual" /\ row[a.task].status = a.snap.status /\ row' = [row EXCEPT ![a.task] = claimTaskExecution(row[a.task], e)]
      BY <2>4, <1>row, Zenon DEF ClaimManual, ClaimMatches
    <3> QED
      BY <2>2, <3>1, <1>one, Zenon DEF WrittenByThread
  <2>5. CASE RestoreTask(e)
    <3>1. /\ a.pc = "restore"
          /\ row' = [row EXCEPT ![a.task] = completeTaskExecution(row[a.task], e, "scheduled", a.snap.next, a.snap.retry)]
      BY <2>5, <1>row, Zenon DEF RestoreTask
    <3> QED
      BY <2>2, <3>1, <1>one, Zenon DEF WrittenByThread
  <2>6. CASE CompleteTask(e)
    <3>1. PICK r \in NextRows(a) :
            row' = [row EXCEPT ![a.task] = completeTaskExecution(row[a.task], e, r.status, r.next, r.retry)]
      BY <2>6, <1>row, Zenon DEF CompleteTask
    <3>2. a.pc = "complete" /\ a.kind = "sched"
      BY <2>6 DEF CompleteTask
    <3> QED
      BY <2>2, <3>1, <3>2, <1>one, Zenon DEF WrittenByThread
  <2>7. CASE CompleteManual(e)
    <3>1. /\ a.pc = "complete" /\ a.kind = "manual"
          /\ row' = [row EXCEPT ![a.task] = completeTaskExecution(row[a.task], e, a.snap.status, a.snap.next, a.snap.retry)]
      BY <2>7, <1>row, Zenon DEF CompleteManual
    <3> QED
      BY <2>2, <3>1, <1>one, Zenon DEF WrittenByThread
  <2> QED
    BY <2>1, <2>3, <2>4, <2>5, <2>6, <2>7
<1>3. ASSUME NEW n \in Node, NEW u \in Task, RequestStep(n, u) PROVE WrittenByRequest(t)
  <2>1. handleSubmitTask(n, u) \/ handleCancelTask(n, u) \/ handleDeleteTask(n, u)
    BY <1>3, <1>row, Zenon DEF RequestStep, CancelRegistered, handleEnableTask, handleUpdateTask, handleRunTaskNow, storeVars
  <2>2. CASE handleSubmitTask(n, u)
    <3>1. PICK next \in Nat : row' = [row EXCEPT ![u] = addTask(next, DefaultRetries)]
      BY <2>2, <1>row, LaterIsLater, Zenon DEF handleSubmitTask
    <3> QED
      BY <2>2, <3>1, <1>one, Zenon DEF WrittenByRequest, handleSubmitTask
  <2>3. CASE handleCancelTask(n, u)
    BY <2>3, <1>one, Zenon DEF WrittenByRequest, handleCancelTask
  <2>4. CASE handleDeleteTask(n, u)
    BY <2>4, <1>one, Zenon DEF WrittenByRequest, handleDeleteTask
  <2> QED
    BY <2>1, <2>2, <2>3, <2>4
<1>4. ASSUME NEW ed \in edit, WriteEdit(ed) PROVE WrittenByRequest(t)
  <2> DEFINE r == ed.row
  <2>1. ed \notin edit'
    BY <1>4, Zenon DEF WriteEdit
  <2>2. \/ row' = [row EXCEPT ![ed.task] = updateTaskRuntime(row[ed.task], r.status, r.next, r.retry)]
        \/ row' = [row EXCEPT ![ed.task] = updateTaskDefinition(row[ed.task], r.status, r.next, r.retry, r.max)]
    BY <1>4, <1>row, Zenon DEF WriteEdit
  <2> QED
    BY <2>1, <2>2, <1>one, Zenon DEF WrittenByRequest
<1>5. ASSUME (\E n \in Node : RenewerStep(n) \/ NodeStep(n)) \/ (\E u \in Task : ExpireLock(u)) \/ Tick \/ UNCHANGED vars
      PROVE  FALSE
  BY <1>5, <1>row, Zenon DEF RenewerStep, RenewLease, ApplyLost, NodeStep, StopNode, CloseServer, StoppedNode, CrashNode, StartNode,
        ExpireLock, Tick, storeVars, vars
<1> QED
  BY <1>1, <1>2, <1>3, <1>4, <1>5 DEF Next, SchedulerNext, DispatcherNext, NodeNext
=============================================================================
