------------------------------ MODULE SlotProofs ------------------------------
(***************************************************************************)
(* What holds of a row over many executions: no slot is run again after a  *)
(* success, and a cancellation is final.  The arguments do not use the     *)
(* Redis locks, and do without RunTaskNow and the misfire policy "skip".   *)
(***************************************************************************)
EXTENDS ControlPlaneProofs

\* A row that is still held afterwards is held by the same execution for the same slot.
SameSlot(r, s) == s.exec # NoExec => s.exec = r.exec /\ s.next = r.next

\* No statement but a claim changes the schedule of a row that stays held.
LEMMA StatementsKeepSlot ==
    /\ \A r \in Row, next \in Nat, max \in Nat : SameSlot(r, addTask(next, max))
    /\ \A r \in Row : Held(r) => SameSlot(r, r) /\ SameSlot(r, deleteTask(r)) /\ SameSlot(r, cancelTask(r))
    /\ \A r \in Row, e \in Nat : Held(r) => SameSlot(r, recoverTaskExecution(r, e))
    /\ \A r \in Row, s \in Row : Held(r) /\ Idle(s) =>
         /\ SameSlot(r, updateTaskRuntime(r, s.status, s.next, s.retry))
         /\ SameSlot(r, updateTaskDefinition(r, s.status, s.next, s.retry, s.max))
    /\ \A r \in Row, e \in Nat, status \in {"scheduled", "disabled"}, next \in Nat, retry \in Nat : Held(r) =>
         SameSlot(r, completeTaskExecution(r, e, status, next, retry))
<1> USE DEF SameSlot, Held
<1>1. \A r \in Row, next \in Nat, max \in Nat : SameSlot(r, addTask(next, max))
  BY DEF addTask
<1>2. \A r \in Row : Held(r) => SameSlot(r, r) /\ SameSlot(r, deleteTask(r)) /\ SameSlot(r, cancelTask(r))
  BY DEF deleteTask, cancelTask, NoRow, NotRunning, Row
<1>3. \A r \in Row, e \in Nat : Held(r) => SameSlot(r, recoverTaskExecution(r, e))
  BY DEF recoverTaskExecution, Row
<1>4. \A r \in Row, s \in Row : Held(r) /\ Idle(s) =>
        /\ SameSlot(r, updateTaskRuntime(r, s.status, s.next, s.retry))
        /\ SameSlot(r, updateTaskDefinition(r, s.status, s.next, s.retry, s.max))
  BY DEF updateTaskRuntime, updateTaskDefinition, Idle, NotRunning, Row
<1>5. \A r \in Row, e \in Nat, status \in {"scheduled", "disabled"}, next \in Nat, retry \in Nat : Held(r) =>
        SameSlot(r, completeTaskExecution(r, e, status, next, retry))
  BY DEF completeTaskExecution, Row
<1> QED
  BY <1>1, <1>2, <1>3, <1>4, <1>5

\* A completing execution puts the task back where it was when its node is stopping, and after the
\* slot it ran for otherwise.
LEMMA NextRowsAhead ==
    ASSUME NEW a \in Attempt, NEW r \in NextRows(a), a.snap.next <= a.end
    PROVE  /\ Stopping(a.node) => r.next = a.snap.next
           /\ ~Stopping(a.node) /\ r.status = "scheduled" => r.next > a.snap.next
<1>1. a.snap \in Row /\ a.end \in Nat /\ a.snap.next \in Nat
  BY DEF Attempt, Row
<1>2. CASE Stopping(a.node)
  BY <1>1, <1>2, Zenon DEF NextRows, Row
<1>3. CASE ~Stopping(a.node)
  <2>1. \A st, next, rc : /\ [a.snap EXCEPT !.status = st, !.next = next, !.retry = rc].status = st
                          /\ [a.snap EXCEPT !.status = st, !.next = next, !.retry = rc].next = next
    BY <1>1 DEF Row
  <2>2. \E st, next, rc : /\ r = [a.snap EXCEPT !.status = st, !.next = next, !.retry = rc]
                          /\ st = "disabled" \/ next \in Later(a.end)
    BY <1>3, Zenon DEF NextRows
  <2>3. r.status = "disabled" \/ r.next \in Later(a.end)
    BY <2>1, <2>2
  <2> QED
    BY <1>1, <1>3, <2>3, LaterIsLater
<1> QED
  BY <1>2, <1>3

\* A step other than a claim keeps SlotInv if it keeps the held slots, stays ahead of the slots
\* done, and starts and ends executions in time.
LEMMA SlotStep ==
    ASSUME SlotInv, HolderInv',
           \A t \in Task : SameSlot(row[t], row'[t]) /\ AheadOf(row'[t], done'[t]),
           \A e \in Exec : Past(att'[e]) /\ Busy(att'[e]) =>
               Busy(att[e]) /\ att'[e].task = att[e].task /\ att'[e].snap = att[e].snap,
           \A e \in Exec : StartedBy(att'[e], now') /\ att'[e].kind = "sched" /\ att'[e].pc # "manual",
           \A n \in Node : loop'[n].pc # "skip"
    PROVE  SlotInv'
<1>1. HeldSlot'
  <2> SUFFICES ASSUME NEW t \in Task, NEW e \in Exec, row'[t].exec = e, Live(e)'
               PROVE  att'[e].task = t /\ att'[e].snap.next = row'[t].next
    BY DEF HeldSlot
  <2>1. Past(att'[e]) /\ Busy(att'[e])
    BY DEF HolderInv, ClaimedOnce, Live, Busy
  <2>2. row[t].exec = e /\ row'[t].next = row[t].next
    BY ExecsAreNotNoExec DEF SameSlot
  <2> QED
    BY <2>1, <2>2 DEF SlotInv, HeldSlot, Live, Busy
<1>2. Ahead' /\ Started' /\ OnlyScheduled'
  BY DEF Ahead, Started, OnlyScheduled
<1> QED
  BY <1>1, <1>2 DEF SlotInv

\* What SlotStep asks of the locals, for a step of one thread.
LEMMA SlotThread ==
    ASSUME TypeOK, SlotInv, NEW e \in Exec, NEW v, att' = [att EXCEPT ![e] = v], UNCHANGED now,
           Busy(att[e]), Busy(v) => v.task = att[e].task /\ v.snap = att[e].snap,
           v.kind = "sched", v.pc # "manual", StartedBy(v, now)
    PROVE  /\ \A f \in Exec : Past(att'[f]) /\ Busy(att'[f]) =>
                Busy(att[f]) /\ att'[f].task = att[f].task /\ att'[f].snap = att[f].snap
           /\ \A f \in Exec : StartedBy(att'[f], now') /\ att'[f].kind = "sched" /\ att'[f].pc # "manual"
<1>1. att'[e] = v /\ \A f \in Exec : f # e => att'[f] = att[f]
  BY DEF TypeOK
<1> QED
  BY <1>1 DEF SlotInv, Started, OnlyScheduled

\* What SlotStep asks of the locals, for a step that at most cancels threads or lets time pass.
LEMMA SlotLocalsKept ==
    ASSUME TypeOK, SlotInv, now' \in Nat, now <= now',
           \A e \in Exec : att'[e] = att[e] \/ att'[e] = Cancelled(att[e]) \/ att'[e] = Gone("dead")
    PROVE  /\ \A f \in Exec : Past(att'[f]) /\ Busy(att'[f]) =>
                Busy(att[f]) /\ att'[f].task = att[f].task /\ att'[f].snap = att[f].snap
           /\ \A f \in Exec : StartedBy(att'[f], now') /\ att'[f].kind = "sched" /\ att'[f].pc # "manual"
<1> SUFFICES ASSUME NEW f \in Exec
             PROVE  /\ Past(att'[f]) /\ Busy(att'[f]) =>
                         Busy(att[f]) /\ att'[f].task = att[f].task /\ att'[f].snap = att[f].snap
                    /\ StartedBy(att'[f], now') /\ att'[f].kind = "sched" /\ att'[f].pc # "manual"
  OBVIOUS
<1>1. att[f] \in Attempt /\ att[f].snap.next \in Nat /\ now \in Nat
  BY ConstantsAssumption DEF TypeOK, Attempt, Row
<1>2. att[f].kind = "sched" /\ att[f].pc # "manual" /\ StartedBy(att[f], now)
  BY DEF SlotInv, OnlyScheduled, Started
<1>3. CASE att'[f] = Gone("dead")
  BY <1>3, LocalsKept, FieldsKept DEF StartedBy
<1>4. CASE att'[f] = att[f]
  BY <1>1, <1>2, <1>4 DEF StartedBy
<1>5. CASE att'[f] = Cancelled(att[f])
  <2>1. att'[f].pc = att[f].pc /\ att'[f].snap = att[f].snap /\ att'[f].task = att[f].task
        /\ att'[f].kind = att[f].kind /\ att'[f].end = att[f].end
    BY <1>1, <1>5, LocalsKept, FieldsKept
  <2> QED
    BY <1>1, <1>2, <2>1 DEF StartedBy, Busy
<1> QED
  BY <1>3, <1>4, <1>5

\* The scan thread keeps SlotInv where it skips no slots.
LEMMA SlotLoop ==
    ASSUME TypeOK, HolderInv, SlotInv, HolderInv', "skip" \notin Features,
           NEW n \in Node, LoopStep(n)
    PROVE  SlotInv'
<1>row. row \in [Task -> Row] /\ \A t \in Task : row[t] \in Row /\ Held(row[t]) /\ SameSlot(row[t], row[t])
  BY DEF TypeOK, HolderInv, RowsHeld, SameSlot
<1>ahead. \A t \in Task : AheadOf(row[t], done[t])
  BY DEF SlotInv, Ahead
<1>loop. loop \in [Node -> LoopState] /\ loop[n] \in LoopState /\ \A m \in Node : loop[m].pc # "skip"
  BY DEF TypeOK, SlotInv, OnlyScheduled
<1>att. att \in [Exec -> Attempt] /\ now \in Nat
  BY ConstantsAssumption DEF TypeOK
<1>still. ASSUME UNCHANGED <<row, done, att, now>>, \A m \in Node : loop'[m].pc # "skip" PROVE SlotInv'
  BY <1>still, <1>row, <1>ahead, <1>att, SlotLocalsKept, SlotStep
<1>1. CASE ~PlanSkip(n) /\ ~WriteSkip(n)
  <2>1. \A m \in Node : loop'[m].pc # "skip"
    <3>1. CASE \E S \in SUBSET Running : ScanStale(n, S)
      BY <3>1, <1>loop DEF ScanStale, LoopState
    <3>2. CASE RecoverLock(n)
      <4>1. PICK p \in loop[n].stale :
              \/ loop' = [loop EXCEPT ![n].stale = loop[n].stale \ {p}]
              \/ loop' = [loop EXCEPT ![n] = [@ EXCEPT !.pc = "recovering", !.stale = loop[n].stale \ {p},
                                                !.cur = [task |-> p[1], exec |-> p[2], row |-> NoRow]]]
        BY <3>2, Zenon DEF RecoverLock
      <4>2. CASE loop' = [loop EXCEPT ![n].stale = loop[n].stale \ {p}]
        BY <4>2, <1>loop DEF LoopState
      <4>3. CASE loop' = [loop EXCEPT ![n] = [@ EXCEPT !.pc = "recovering", !.stale = loop[n].stale \ {p},
                                                !.cur = [task |-> p[1], exec |-> p[2], row |-> NoRow]]]
        BY <4>3, <1>loop DEF LoopState
      <4> QED
        BY <4>1, <4>2, <4>3
    <3>3. CASE RecoverRow(n) \/ RecoverUnlock(n)
      <4>1. CASE RecoverRow(n)
        BY <4>1, <1>loop DEF RecoverRow, LoopState
      <4>2. CASE RecoverUnlock(n)
        BY <4>2, <1>loop DEF RecoverUnlock, LoopState
      <4> QED
        BY <3>3, <4>1, <4>2
    <3>4. CASE ScanDue(n) \/ NoWorker(n)
      BY <3>4, <1>loop DEF ScanDue, NoWorker, LoopState
    <3>5. CASE LockTask(n) \/ LockBusy(n)
      BY <3>5, <1>loop DEF LockTask, LockBusy, LoopState
    <3> QED
      BY <1>1, <3>1, <3>2, <3>3, <3>4, <3>5 DEF LoopStep
  <2>2. CASE RecoverRow(n)
    <3> DEFINE e == loop[n].cur.exec
    <3>1. e \in Nat
      BY <1>loop DEF LoopState, Current
    <3>2. \A t \in Task : SameSlot(row[t], recoverTaskExecution(row[t], e))
      BY <1>row, <3>1, StatementsKeepSlot
    <3>3. \A t \in Task : AheadOf(recoverTaskExecution(row[t], e), done[t])
      BY <1>row, <1>ahead DEF recoverTaskExecution, AheadOf, Row
    <3>4. UNCHANGED row \/ row' = [row EXCEPT ![loop[n].cur.task] = recoverTaskExecution(@, e)]
      BY <2>2 DEF RecoverRow
    <3>5. \A t \in Task : SameSlot(row[t], row'[t]) /\ AheadOf(row'[t], done[t])
      BY <1>row, <1>ahead, <3>2, <3>3, <3>4
    <3>6. UNCHANGED <<done, att, now>>
      BY <2>2 DEF RecoverRow
    <3> QED
      BY <2>1, <3>5, <3>6, <1>att, SlotLocalsKept, SlotStep
  <2>3. CASE \/ (\E S \in SUBSET Running : ScanStale(n, S))
             \/ RecoverLock(n) \/ RecoverUnlock(n) \/ ScanDue(n) \/ NoWorker(n)
    BY <2>1, <2>3, <1>still, Zenon DEF ScanStale, RecoverLock, RecoverUnlock, ScanDue, NoWorker, storeVars
  <2>4. CASE LockTask(n) \/ LockBusy(n)
    <3>1. UNCHANGED <<row, done, now>>
      BY <2>4 DEF LockTask, LockBusy, storeVars
    <3>2. CASE UNCHANGED att
      BY <2>1, <3>1, <3>2, <1>still
    <3>3. CASE att' # att
      <4>1. PICK v : /\ att' = [att EXCEPT ![nextExec] = v] /\ nextExec <= MaxExec
                     /\ v.kind = "sched" /\ (v.pc = "claim" \/ v.pc = "done")
        BY <2>4, <3>3, FieldsKept, LocalsKept DEF LockTask, LockBusy
      <4>2. att'[nextExec] = v /\ \A f \in Exec : f # nextExec => att'[f] = att[f]
        BY <4>1, <1>att, ConstantsAssumption DEF TypeOK, Exec
      <4>3. \A f \in Exec : Past(att'[f]) /\ Busy(att'[f]) =>
              Busy(att[f]) /\ att'[f].task = att[f].task /\ att'[f].snap = att[f].snap
        BY <4>1, <4>2 DEF Past, Busy
      <4>4. \A f \in Exec : StartedBy(att'[f], now') /\ att'[f].kind = "sched" /\ att'[f].pc # "manual"
        <5>1. StartedBy(v, now)
          BY <4>1 DEF StartedBy
        <5> QED
          BY <3>1, <4>1, <4>2, <5>1 DEF SlotInv, Started, OnlyScheduled
      <4> QED
        BY <2>1, <3>1, <4>3, <4>4, <1>row, <1>ahead, SlotStep
    <3> QED
      BY <3>2, <3>3
  <2> QED
    BY <1>1, <2>2, <2>3, <2>4 DEF LoopStep
<1>2. ~PlanSkip(n) /\ ~WriteSkip(n)
  BY <1>loop, Zenon DEF PlanSkip, WriteSkip, Overdue
<1> QED
  BY <1>1, <1>2

\* The threads that work on an execution keep SlotInv: the claim compares the slot it takes over,
\* and a completion moves the task past it.
LEMMA SlotAttempt ==
    ASSUME TypeOK, HolderInv, SlotInv, HolderInv', NEW e \in Exec, AttemptStep(e)
    PROVE  SlotInv'
<1> DEFINE a == att[e]
<1>row. row \in [Task -> Row] /\ \A t \in Task : row[t] \in Row /\ Held(row[t]) /\ SameSlot(row[t], row[t])
  BY DEF TypeOK, HolderInv, RowsHeld, SameSlot
<1>ahead. \A t \in Task : AheadOf(row[t], done[t])
  BY DEF SlotInv, Ahead
<1>loop. \A m \in Node : loop[m].pc # "skip"
  BY DEF SlotInv, OnlyScheduled
<1>att. /\ att \in [Exec -> Attempt] /\ a \in Attempt /\ now \in Nat /\ e \in Nat
        /\ a.snap \in Row /\ a.snap.next \in Nat /\ a.snap.retry \in Nat /\ a.end \in Nat
        /\ a.kind = "sched" /\ StartedBy(a, now)
  BY ConstantsAssumption, ExecsAreNotNoExec DEF TypeOK, Attempt, Row, SlotInv, OnlyScheduled, Started
<1>held. ASSUME Busy(a), NEW t \in Task, row[t].exec = e PROVE a.snap.next = row[t].next /\ row[t].status = "running"
  BY <1>held, <1>row, ExecsAreNotNoExec DEF SlotInv, HeldSlot, Live, Busy, Held
\* A step of the thread that writes no row.
<1>still. ASSUME NEW v, att' = [att EXCEPT ![e] = v], UNCHANGED <<row, done, now, loop>>, Busy(a),
                 Busy(v) => v.task = a.task /\ v.snap = a.snap,
                 v.kind = "sched", v.pc # "manual", StartedBy(v, now)
          PROVE  SlotInv'
  BY <1>still, <1>row, <1>ahead, <1>loop, SlotThread, SlotStep, Zenon
<1>at. ASSUME NEW pc, att' = [att EXCEPT ![e] = At(@, pc)], UNCHANGED <<row, done, now, loop>>, Busy(a), pc # "manual",
              pc \in {"claimed", "restore", "queued", "rpc"} => a.snap.next <= now,
              pc \in {"record", "complete"} => a.snap.next <= a.end
       PROVE  SlotInv'
  <2>1. StartedBy(At(a, pc), now)
    BY <1>at, <1>att, LocalsKept, FieldsKept, SMTT(60) DEF StartedBy
  <2>2. At(a, pc).task = a.task /\ At(a, pc).snap = a.snap /\ At(a, pc).kind = "sched" /\ At(a, pc).pc # "manual"
    BY <1>at, <1>att, LocalsKept, FieldsKept
  <2> QED
    BY <1>at, <2>1, <2>2, <1>still, Zenon
<1>gone. ASSUME att' = [att EXCEPT ![e] = Gone("done")], UNCHANGED <<row, done, now, loop>>, Busy(a) PROVE SlotInv'
  <2>1. StartedBy(Gone("done"), now)
    BY LocalsKept DEF StartedBy
  <2>2. ~Busy(Gone("done")) /\ Gone("done").kind = "sched" /\ Gone("done").pc # "manual"
    BY LocalsKept, FieldsKept
  <2> QED
    BY <1>gone, <2>1, <2>2, <1>still, Zenon
<1>ended. ASSUME NEW out, att' = [att EXCEPT ![e] = Ended(@, out)], UNCHANGED <<row, done, now, loop>>, Busy(a),
                 a.snap.next <= now
          PROVE  SlotInv'
  <2>1. StartedBy(Ended(a, out), now)
    BY <1>ended, <1>att, LocalsKept, FieldsKept, SMTT(60) DEF StartedBy
  <2>2. /\ Ended(a, out).task = a.task /\ Ended(a, out).snap = a.snap
        /\ Ended(a, out).kind = "sched" /\ Ended(a, out).pc # "manual"
    BY <1>att, LocalsKept, FieldsKept, SMTT(60)
  <2> QED
    BY <1>ended, <2>1, <2>2, <1>still, Zenon
<1>1. CASE ClaimTask(e)
  <2>1. Busy(a) /\ ~Past(a) /\ UNCHANGED <<done, now, loop>>
    BY <1>1, Zenon DEF ClaimTask, Busy, Past
  <2>2. PICK pc \in {"claimed", "unlock"} : att' = [att EXCEPT ![e] = At(@, pc)]
    BY <1>1 DEF ClaimTask
  <2>4. CASE row' = [row EXCEPT ![a.task] = claimTaskExecution(@, e)] /\ row[a.task].status = "scheduled"
             /\ row[a.task].next = a.snap.next /\ a.snap.next <= now
    <3>1. att'[e] = At(a, pc) /\ \A f \in Exec : f # e => att'[f] = att[f]
      BY <2>2, <1>att
    <3>2. att'[e].task = a.task /\ att'[e].snap = a.snap /\ att'[e].kind = "sched" /\ att'[e].pc = pc
      BY <3>1, <1>att, LocalsKept, FieldsKept
    <3>3. Started' /\ OnlyScheduled'
      <4>1. StartedBy(att'[e], now)
        BY <2>4, <3>2 DEF StartedBy
      <4> QED
        BY <2>1, <3>1, <3>2, <4>1 DEF SlotInv, Started, OnlyScheduled
    <3>4. \A t \in Task : t # a.task => row'[t] = row[t]
      BY <2>4, <1>row
    <3>5. a.task \in Task =>
            row'[a.task].exec = e /\ row'[a.task].status = "running" /\ row'[a.task].next = row[a.task].next
      BY <2>4, <1>row DEF claimTaskExecution, Row
    <3>6. Ahead'
      BY <2>1, <2>4, <3>4, <3>5, <1>ahead, Zenon DEF Ahead, AheadOf
    <3>7. HeldSlot'
      <4> SUFFICES ASSUME NEW t \in Task, NEW f \in Exec, row'[t].exec = f, Live(f)'
                   PROVE  att'[f].task = t /\ att'[f].snap.next = row'[t].next
        BY DEF HeldSlot
      <4>1. CASE t = a.task
        BY <4>1, <2>4, <3>2, <3>5
      <4>2. CASE t # a.task
        <5>1. row[t].exec = f /\ row'[t] = row[t]
          BY <4>2, <3>4
        <5>2. f # e
          BY <5>1, <2>1 DEF HolderInv, ClaimedOnce
        <5> QED
          BY <5>1, <5>2, <3>1 DEF SlotInv, HeldSlot, Live
      <4> QED
        BY <4>1, <4>2
    <3> QED
      BY <3>3, <3>6, <3>7 DEF SlotInv
  <2>5. \/ UNCHANGED row /\ att' = [att EXCEPT ![e] = At(@, "unlock")]
        \/ row' = [row EXCEPT ![a.task] = claimTaskExecution(@, e)] /\ row[a.task].status = "scheduled"
           /\ row[a.task].next = a.snap.next /\ a.snap.next <= now
    <3>1. a.snap.next # NoTime
      BY <1>att DEF NoTime
    <3>2. ClaimMatches(row[a.task], "scheduled", a.snap.next, now) =>
            row[a.task].status = "scheduled" /\ row[a.task].next = a.snap.next /\ a.snap.next <= now
      BY <3>1 DEF ClaimMatches
    <3> QED
      BY <1>1, <3>2, Zenon DEF ClaimTask
  <2>6. ASSUME UNCHANGED row, att' = [att EXCEPT ![e] = At(@, "unlock")] PROVE SlotInv'
    BY <2>6, <2>1, <1>at, Zenon
  <2> QED
    BY <2>4, <2>5, <2>6
<1>2. CASE EnqueueTask(e)
  <2>1. PICK pc \in {"restore", "queued"} : att' = [att EXCEPT ![e] = At(@, pc)]
    BY <1>2, Zenon DEF EnqueueTask
  <2>2. Busy(a) /\ a.snap.next <= now
    BY <1>2, <1>att DEF EnqueueTask, Busy, StartedBy
  <2> QED
    BY <1>2, <2>1, <2>2, <1>at, Zenon DEF EnqueueTask, storeVars
<1>3. CASE RestoreTask(e)
  <2> DEFINE new(r) == completeTaskExecution(r, e, "scheduled", a.snap.next, a.snap.retry)
  <2>1. Busy(a) /\ att' = [att EXCEPT ![e] = At(@, "unlock")] /\ UNCHANGED <<done, now, loop>>
    BY <1>3, Zenon DEF RestoreTask, Busy
  <2>2. \A t \in Task : SameSlot(row[t], new(row[t]))
    BY <1>row, <1>att, StatementsKeepSlot
  <2>3. \A t \in Task : AheadOf(new(row[t]), done[t])
    BY <2>1, <1>row, <1>ahead, <1>held DEF completeTaskExecution, AheadOf, Row
  <2>4. UNCHANGED row \/ row' = [row EXCEPT ![a.task] = new(@)]
    BY <1>3, Zenon DEF RestoreTask
  <2>5. \A t \in Task : SameSlot(row[t], row'[t]) /\ AheadOf(row'[t], done'[t])
    BY <1>row, <1>ahead, <2>1, <2>2, <2>3, <2>4, Zenon
  <2>6. StartedBy(At(a, "unlock"), now)
    BY <1>att, LocalsKept, SMTT(120) DEF StartedBy
  <2>7. /\ \A f \in Exec : Past(att'[f]) /\ Busy(att'[f]) =>
             Busy(att[f]) /\ att'[f].task = att[f].task /\ att'[f].snap = att[f].snap
        /\ \A f \in Exec : StartedBy(att'[f], now') /\ att'[f].kind = "sched" /\ att'[f].pc # "manual"
    <3>1. /\ At(a, "unlock").task = a.task /\ At(a, "unlock").snap = a.snap
          /\ At(a, "unlock").kind = "sched" /\ At(a, "unlock").pc # "manual"
      BY <1>att, LocalsKept, FieldsKept, SMTT(120)
    <3> QED
      BY <2>1, <2>6, <3>1, SlotThread, Zenon
  <2> QED
    BY <2>1, <2>5, <2>7, <1>loop, SlotStep, Zenon
<1>4. CASE UnlockTask(e)
  <2>1. Busy(a)
    BY <1>4 DEF UnlockTask, Busy
  <2> QED
    BY <1>4, <2>1, <1>gone DEF UnlockTask, storeVars
<1>5. CASE StartTask(e)
  <2>1. Busy(a) /\ a.snap.next <= now
    BY <1>5, <1>att, Zenon DEF StartTask, Busy, StartedBy
  <2>2. att' = [att EXCEPT ![e] = At(@, "rpc")] \/ \E out : att' = [att EXCEPT ![e] = Ended(@, out)]
    BY <1>5 DEF StartTask
  <2>3. UNCHANGED <<row, done, now, loop>>
    BY <1>5 DEF StartTask, storeVars
  <2> QED
    BY <2>1, <2>2, <2>3, <1>at, <1>ended, Zenon
<1>6. CASE \E out \in {"ok", "failed"} : FinishRpc(e, out)
  <2>1. Busy(a) /\ a.snap.next <= now
    BY <1>6, <1>att DEF FinishRpc, Busy, StartedBy
  <2> QED
    BY <1>6, <2>1, <1>ended, Zenon DEF FinishRpc, storeVars
<1>7. CASE RecordHistory(e)
  <2>1. Busy(a) /\ a.snap.next <= a.end
    BY <1>7, <1>att DEF RecordHistory, Busy, StartedBy
  <2> QED
    BY <1>7, <2>1, <1>at, Zenon DEF RecordHistory
<1>8. CASE CompleteTask(e)
  <2> DEFINE new(r, s) == completeTaskExecution(r, e, s.status, s.next, s.retry)
             slots(t) == IF t = a.task /\ a.out = "ok" /\ ~Stopping(a.node) /\ row[t].exec = e
                         THEN done[t] \cup {a.snap.next} ELSE done[t]
  <2>1. /\ Busy(a) /\ a.snap.next <= a.end
        /\ att' = [att EXCEPT ![e] = At(@, "cleanup")] /\ UNCHANGED <<now, loop>>
    BY <1>8, <1>att, Zenon DEF CompleteTask, Busy, StartedBy
  <2>2. \A s \in NextRows(a) : s \in Row /\ Idle(s) /\ s.next \in Nat /\ s.retry \in Nat /\ s.status \in {"scheduled", "disabled"}
    BY <1>att, NextRowsTyped, NextRowsIdle DEF Row, Idle
  <2>3. \A s \in NextRows(a) : \A t \in Task : SameSlot(row[t], new(row[t], s))
    BY <1>row, <1>att, <2>2, StatementsKeepSlot, Zenon
  <2>4. \A s \in NextRows(a) : \A t \in Task : AheadOf(new(row[t], s), slots(t))
    <3> SUFFICES ASSUME NEW s \in NextRows(a), NEW t \in Task PROVE AheadOf(new(row[t], s), slots(t))
      BY Zenon
    <3>1. CASE row[t].exec = e /\ row[t].status = "running"
      <4>1. new(row[t], s).status = s.status /\ new(row[t], s).next = s.next
        BY <3>1, <1>row DEF completeTaskExecution, Row
      <4>2. row[t].next = a.snap.next /\ \A u \in done[t] : u < a.snap.next /\ u \in Nat
        BY <2>1, <3>1, <1>held, <1>ahead, Zenon DEF AheadOf, TypeOK
      <4>3. s.status \in {"scheduled", "disabled"} /\ s.next \in Nat
        BY <2>2
      <4>4. /\ Stopping(a.node) => s.next = a.snap.next
            /\ ~Stopping(a.node) /\ s.status = "scheduled" => s.next > a.snap.next
        BY <1>att, <2>1, NextRowsAhead, Zenon
      <4> QED
        BY <1>att, <4>1, <4>2, <4>3, <4>4, SMTT(120) DEF AheadOf
    <3>2. CASE ~(row[t].exec = e /\ row[t].status = "running")
      <4>1. new(row[t], s) = row[t]
        BY <3>2 DEF completeTaskExecution
      <4>2. row[t].exec # e
        BY <3>2, <1>row, ExecsAreNotNoExec DEF Held
      <4> QED
        BY <4>1, <4>2, <1>ahead
    <3> QED
      BY <3>1, <3>2, Zenon
  <2>5. \/ UNCHANGED <<row, done>>
        \/ \E s \in NextRows(a) :
             /\ row' = [row EXCEPT ![a.task] = new(@, s)]
             /\ done' = IF a.out = "ok" /\ ~Stopping(a.node) /\ row[a.task].exec = e
                        THEN [done EXCEPT ![a.task] = @ \cup {a.snap.next}] ELSE done
    BY <1>8, Zenon DEF CompleteTask
  <2>6. \A t \in Task : SameSlot(row[t], row'[t]) /\ AheadOf(row'[t], done'[t])
    <3>1. CASE UNCHANGED <<row, done>>
      BY <3>1, <1>row, <1>ahead
    <3>2. ASSUME NEW s \in NextRows(a), row' = [row EXCEPT ![a.task] = new(@, s)],
                 done' = IF a.out = "ok" /\ ~Stopping(a.node) /\ row[a.task].exec = e
                         THEN [done EXCEPT ![a.task] = @ \cup {a.snap.next}] ELSE done,
                 NEW t \in Task
          PROVE  SameSlot(row[t], row'[t]) /\ AheadOf(row'[t], done'[t])
      <4>1. CASE t = a.task
        <5>1. row'[t] = new(row[t], s) /\ done'[t] = slots(t)
          BY <3>2, <4>1, <1>row, Zenon DEF TypeOK
        <5> QED
          BY <5>1, <2>3, <2>4, Zenon
      <4>2. CASE t # a.task
        <5>1. row'[t] = row[t] /\ done'[t] = done[t]
          BY <3>2, <4>2, <1>row, Zenon DEF TypeOK
        <5> QED
          BY <5>1, <1>row, <1>ahead, Zenon
      <4> QED
        BY <4>1, <4>2
    <3> QED
      BY <2>5, <3>1, <3>2, Zenon
  <2>7. StartedBy(At(a, "cleanup"), now)
    <3>1. At(a, "cleanup").pc = "cleanup"
      BY <1>att, LocalsKept, ZenonT(60)
    <3> QED
      BY <3>1 DEF StartedBy
  <2>8. /\ \A f \in Exec : Past(att'[f]) /\ Busy(att'[f]) =>
             Busy(att[f]) /\ att'[f].task = att[f].task /\ att'[f].snap = att[f].snap
        /\ \A f \in Exec : StartedBy(att'[f], now') /\ att'[f].kind = "sched" /\ att'[f].pc # "manual"
    <3>1. /\ At(a, "cleanup").task = a.task /\ At(a, "cleanup").snap = a.snap
          /\ At(a, "cleanup").kind = "sched" /\ At(a, "cleanup").pc # "manual"
      BY <1>att, LocalsKept, FieldsKept, SMTT(120)
    <3> QED
      BY <2>1, <2>7, <3>1, SlotThread, Zenon
  <2> QED
    BY <2>1, <2>6, <2>8, <1>loop, SlotStep, Zenon
<1>9. CASE CleanupTask(e)
  <2>1. Busy(a)
    BY <1>9 DEF CleanupTask, Busy
  <2> QED
    BY <1>9, <2>1, <1>gone DEF CleanupTask, storeVars
<1> QED
  BY <1>1, <1>2, <1>3, <1>4, <1>5, <1>6, <1>7, <1>8, <1>9 DEF AttemptStep

\* The request handlers keep SlotInv where RunTaskNow is not used.
LEMMA SlotRequest ==
    ASSUME TypeOK, HolderInv, SlotInv, HolderInv', "run_now" \notin Features,
           NEW n \in Node, NEW t \in Task, RequestStep(n, t)
    PROVE  SlotInv'
<1>row. row \in [Task -> Row] /\ \A u \in Task : row[u] \in Row /\ Held(row[u]) /\ SameSlot(row[u], row[u])
  BY DEF TypeOK, HolderInv, RowsHeld, SameSlot
<1>ahead. \A u \in Task : AheadOf(row[u], done[u])
  BY Zenon DEF SlotInv, Ahead
<1>now. now \in Nat
  BY ConstantsAssumption DEF TypeOK
<1>frame. ~handleRunTaskNow(n, t) /\ UNCHANGED <<done, now, loop>>
  BY Zenon DEF RequestStep, handleSubmitTask, handleCancelTask, CancelRegistered, handleEnableTask, handleUpdateTask,
         handleDeleteTask, handleRunTaskNow, storeVars
<1>att. \A e \in Exec : att'[e] = att[e] \/ att'[e] = Cancelled(att[e])
  BY <1>frame, Zenon DEF RequestStep, handleSubmitTask, handleCancelTask, CancelRegistered, handleEnableTask, handleUpdateTask,
         handleDeleteTask
<1>one. ASSUME \A u \in Task : SameSlot(row[u], row'[u]) /\ AheadOf(row'[u], done[u]) PROVE SlotInv'
  <2>1. \A m \in Node : loop'[m].pc # "skip"
    BY <1>frame, Zenon DEF SlotInv, OnlyScheduled
  <2>2. /\ \A f \in Exec : Past(att'[f]) /\ Busy(att'[f]) =>
              Busy(att[f]) /\ att'[f].task = att[f].task /\ att'[f].snap = att[f].snap
        /\ \A f \in Exec : StartedBy(att'[f], now') /\ att'[f].kind = "sched" /\ att'[f].pc # "manual"
    BY <1>frame, <1>att, <1>now, SlotLocalsKept, SMTT(60)
  <2>3. \A u \in Task : SameSlot(row[u], row'[u]) /\ AheadOf(row'[u], done'[u])
    BY <1>one, <1>frame, Zenon
  <2> QED
    BY <2>1, <2>2, <2>3, SlotStep, Zenon
<1>1. CASE handleSubmitTask(n, t)
  <2>1. PICK next \in Nat : row' = [row EXCEPT ![t] = addTask(next, DefaultRetries)]
    BY <1>1, <1>now, LaterIsLater, Zenon DEF handleSubmitTask
  <2>2. SameSlot(row[t], addTask(next, DefaultRetries))
    BY <1>row, StatementsKeepSlot, ConstantsAssumption
  <2>3. AheadOf(addTask(next, DefaultRetries), done[t])
    BY <1>1, <1>ahead, Zenon DEF handleSubmitTask, AheadOf, addTask
  <2> QED
    BY <2>1, <2>2, <2>3, <1>row, <1>ahead, <1>one
<1>2. CASE handleCancelTask(n, t)
  <2>1. row' = [row EXCEPT ![t] = cancelTask(@)]
    BY <1>2 DEF handleCancelTask
  <2>2. SameSlot(row[t], cancelTask(row[t])) /\ AheadOf(cancelTask(row[t]), done[t])
    <3>1. SameSlot(row[t], cancelTask(row[t]))
      BY <1>row, StatementsKeepSlot
    <3>2. AheadOf(cancelTask(row[t]), done[t])
      BY <1>row, <1>ahead DEF cancelTask, AheadOf, Row
    <3> QED
      BY <3>1, <3>2
  <2> QED
    BY <2>1, <2>2, <1>row, <1>ahead, <1>one
<1>3. CASE handleDeleteTask(n, t)
  <2>1. row' = [row EXCEPT ![t] = deleteTask(@)]
    BY <1>3 DEF handleDeleteTask
  <2>2. SameSlot(row[t], deleteTask(row[t])) /\ AheadOf(deleteTask(row[t]), done[t])
    <3>1. SameSlot(row[t], deleteTask(row[t]))
      BY <1>row, StatementsKeepSlot
    <3>2. AheadOf(deleteTask(row[t]), done[t])
      BY <1>row, <1>ahead DEF deleteTask, AheadOf, Row, NoRow
    <3> QED
      BY <3>1, <3>2
  <2> QED
    BY <2>1, <2>2, <1>row, <1>ahead, <1>one
<1>4. CASE CancelRegistered(n, t) \/ handleEnableTask(n, t) \/ handleUpdateTask(n, t)
  <2>1. UNCHANGED row
    BY <1>4 DEF CancelRegistered, handleEnableTask, handleUpdateTask, storeVars
  <2> QED
    BY <2>1, <1>row, <1>ahead, <1>one
<1> QED
  BY <1>1, <1>2, <1>3, <1>4, <1>frame DEF RequestStep

\* The statement of an edit keeps SlotInv: a running row is left alone, any other starts over.
LEMMA SlotEdit ==
    ASSUME TypeOK, HolderInv, SlotInv, HolderInv', NEW ed \in edit, WriteEdit(ed)
    PROVE  SlotInv'
<1> DEFINE r == ed.row
<1>row. row \in [Task -> Row] /\ \A u \in Task : row[u] \in Row /\ Held(row[u]) /\ SameSlot(row[u], row[u])
  BY DEF TypeOK, HolderInv, RowsHeld, SameSlot
<1>ahead. \A u \in Task : AheadOf(row[u], done[u])
  BY DEF SlotInv, Ahead
<1>1. ed.task \in Task /\ r \in Row /\ Idle(r)
  BY Zenon DEF TypeOK, Edit, HolderInv, PlannedRows
<1>2. PICK s :
        /\ row' = [row EXCEPT ![ed.task] = s]
        /\ \/ s = row[ed.task] /\ done' = done
           \/ /\ s \in {updateTaskRuntime(row[ed.task], r.status, r.next, r.retry),
                        updateTaskDefinition(row[ed.task], r.status, r.next, r.retry, r.max)}
              /\ done' = IF NotRunning(row[ed.task]) THEN [done EXCEPT ![ed.task] = {}] ELSE done
  <2>1. CASE UNCHANGED <<row, done>>
    BY <2>1, <1>row, <1>1
  <2>2. CASE row' # row \/ done' # done
    BY <2>2 DEF WriteEdit
  <2> QED
    BY <2>1, <2>2
<1>3. SameSlot(row[ed.task], s)
  <2>1. /\ SameSlot(row[ed.task], updateTaskRuntime(row[ed.task], r.status, r.next, r.retry))
        /\ SameSlot(row[ed.task], updateTaskDefinition(row[ed.task], r.status, r.next, r.retry, r.max))
    BY <1>1, <1>row, StatementsKeepSlot
  <2> QED
    BY <2>1, <1>1, <1>2, <1>row
<1>4. AheadOf(s, done'[ed.task])
  <2>1. CASE s = row[ed.task] /\ done' = done
    BY <2>1, <1>1, <1>ahead
  <2>2. CASE s \in {updateTaskRuntime(row[ed.task], r.status, r.next, r.retry),
                    updateTaskDefinition(row[ed.task], r.status, r.next, r.retry, r.max)}
             /\ done' = IF NotRunning(row[ed.task]) THEN [done EXCEPT ![ed.task] = {}] ELSE done
    <3>1. CASE NotRunning(row[ed.task])
      BY <3>1, <2>2, <1>1 DEF AheadOf, TypeOK
    <3>2. CASE ~NotRunning(row[ed.task])
      BY <3>2, <2>2, <1>1, <1>ahead DEF updateTaskRuntime, updateTaskDefinition
    <3> QED
      BY <3>1, <3>2
  <2> QED
    BY <1>2, <2>1, <2>2
<1>5. \A u \in Task : u # ed.task => row'[u] = row[u] /\ done'[u] = done[u]
  BY <1>2, <1>row DEF TypeOK
<1>6. \A u \in Task : SameSlot(row[u], row'[u]) /\ AheadOf(row'[u], done'[u])
  BY <1>1, <1>2, <1>3, <1>4, <1>5, <1>row, <1>ahead
<1>7. UNCHANGED <<att, now, loop>> /\ now \in Nat
  BY SMTT(30), ConstantsAssumption DEF WriteEdit, TypeOK
<1>8. \A m \in Node : loop'[m].pc # "skip"
  BY <1>7 DEF SlotInv, OnlyScheduled
<1> QED
  BY <1>6, <1>7, <1>8, SlotLocalsKept, SlotStep, SMTT(60)

\* Every step keeps SlotInv where RunTaskNow and the misfire policy "skip" are not used.
LEMMA SlotNext ==
    ASSUME "run_now" \notin Features, "skip" \notin Features, TypeOK, HolderInv, SlotInv, [Next]_vars
    PROVE  SlotInv'
<1>holder. HolderInv'
  BY HolderNext
<1>now. now \in Nat
  BY ConstantsAssumption DEF TypeOK
<1>still. ASSUME UNCHANGED <<row, done>>, now' \in Nat, now <= now', \A m \in Node : loop'[m].pc # "skip",
                 \A e \in Exec : att'[e] = att[e] \/ att'[e] = Cancelled(att[e]) \/ att'[e] = Gone("dead")
          PROVE  SlotInv'
  <2>1. \A t \in Task : SameSlot(row[t], row'[t]) /\ AheadOf(row'[t], done'[t])
    BY <1>still, Zenon DEF SameSlot, SlotInv, Ahead
  <2> QED
    BY <1>still, <1>holder, <2>1, SlotLocalsKept, SlotStep, Zenon
<1>loop. \A m \in Node : loop[m].pc # "skip"
  BY DEF SlotInv, OnlyScheduled
<1>1. CASE SchedulerNext /\ UNCHANGED dispVars
  <2>1. ASSUME NEW n \in Node, RenewerStep(n) PROVE SlotInv'
    <3>1. \A e \in Exec : att'[e] = att[e] \/ att'[e] = Cancelled(att[e])
      BY <2>1 DEF RenewerStep, RenewLease, ApplyLost
    <3> QED
      BY <2>1, <3>1, <1>still, <1>now, <1>loop, SMTT(60) DEF RenewerStep, RenewLease, ApplyLost, storeVars
  <2>2. ASSUME NEW t \in Task, ExpireLock(t) PROVE SlotInv'
    BY <2>2, <1>still, <1>now, <1>loop DEF ExpireLock, storeVars
  <2>3. ASSUME Tick PROVE SlotInv'
    BY <2>3, <1>still, <1>now, <1>loop DEF Tick, storeVars
  <2> QED
    BY <1>1, <1>holder, <2>1, <2>2, <2>3, SlotLoop, SlotAttempt DEF SchedulerNext
<1>2. CASE DispatcherNext
  <2>1. ASSUME NEW e \in Exec, ManualStep(e) PROVE FALSE
    BY <2>1, Zenon DEF ManualStep, ClaimManual, CompleteManual, SlotInv, OnlyScheduled
  <2> QED
    BY <1>2, <1>holder, <2>1, SlotRequest, SlotEdit DEF DispatcherNext
<1>3. CASE NodeNext
  <2>1. \A e \in Exec : att'[e] = att[e] \/ att'[e] = Gone("dead")
    BY <1>3 DEF NodeNext, NodeStep, StopNode, CloseServer, StoppedNode, CrashNode, StartNode
  <2>2. \A m \in Node : loop'[m].pc # "skip"
    <3>1. loop \in [Node -> LoopState] /\ IdleLoop.pc # "skip"
      BY DEF TypeOK, IdleLoop
    <3>2. UNCHANGED loop \/ \E n \in Node : loop' = [loop EXCEPT ![n] = IdleLoop]
      BY <1>3, Zenon DEF NodeNext, NodeStep, StopNode, CloseServer, StoppedNode, CrashNode, StartNode
    <3> QED
      BY <3>1, <3>2, <1>loop
  <2>3. UNCHANGED <<row, done, now>>
    BY <1>3, Zenon DEF NodeNext, NodeStep, StopNode, CloseServer, StoppedNode, CrashNode, StartNode, storeVars
  <2> QED
    BY <2>1, <2>2, <2>3, <1>still, <1>now
<1>4. CASE UNCHANGED vars
  <2>1. UNCHANGED <<row, done, now, loop, att>>
    BY <1>4 DEF vars, storeVars, nodeVars, dispVars
  <2> QED
    BY <2>1, <1>still, <1>now, <1>loop, SMTT(60)
<1> QED
  BY <1>1, <1>2, <1>3, <1>4 DEF Next

\* Initially no task has a slot behind it.
LEMMA SlotInit == Init => SlotInv
<1> SUFFICES ASSUME Init PROVE SlotInv
  OBVIOUS
<1>1. /\ att = [e \in Exec |-> NoAttempt] /\ row = [t \in Task |-> NoRow] /\ done = [t \in Task |-> {}]
      /\ loop = [n \in Node |-> IdleLoop]
  BY DEF Init, SchedulerInit
<1>2. HeldSlot /\ Ahead
  BY <1>1, ExecsAreNotNoExec DEF HeldSlot, Ahead, AheadOf, NoRow
<1>3. Started /\ OnlyScheduled
  BY <1>1 DEF Started, StartedBy, OnlyScheduled, NoAttempt, IdleLoop
<1> QED
  BY <1>2, <1>3 DEF SlotInv

\* For any nodes, tasks, requests, crashes, failed calls and lapsed locks: while RunTaskNow and the
\* misfire policy "skip" are not used, no execution holds a row for a slot that a success has
\* already moved the task past.  The comparison of next_run_at in claimTaskExecution and the
\* execution id in completeTaskExecution suffice; the Redis lock is not needed for it.
THEOREM NoSlotIsRepeated ==
    ASSUME "run_now" \notin Features, "skip" \notin Features
    PROVE  Spec => []SlotsAreNotRepeated
<1>1. TypeOK /\ HolderInv /\ SlotInv /\ [Next]_vars => SlotInv'
  BY SlotNext
<1>2. TypeOK /\ HolderInv /\ SlotInv => SlotsAreNotRepeated
  <2> SUFFICES ASSUME TypeOK, HolderInv, SlotInv, NEW t \in Task, NEW e \in Exec, row[t].exec = e, Live(e)
               PROVE  att[e].snap.next \notin done[t]
    BY DEF SlotsAreNotRepeated
  <2>1. row[t].status = "running" /\ att[e].snap.next = row[t].next
    BY ExecsAreNotNoExec DEF HolderInv, RowsHeld, Held, SlotInv, HeldSlot
  <2>2. \A s \in done[t] : s < row[t].next /\ s \in Nat
    BY <2>1, Zenon DEF SlotInv, Ahead, AheadOf, TypeOK
  <2> QED
    BY <2>1, <2>2
<1> QED
  BY <1>1, <1>2, SlotInit, TypeCorrect, HoldersAreClaimed, PTL DEF Spec

-----------------------------------------------------------------------------
(* Cancellation *)

\* What CancelSticks asks of a step.
StaysCancelled ==
    \A t \in Task :
        row[t].status = "disabled" /\ row'[t].status \in {"scheduled", "running"} =>
            \E ed \in edit : ed.task = t /\ ed.row.status = "scheduled" /\ ed \notin edit'

\* Of what is still to be written only an edit matches a row that is disabled.
LEMMA CancelStep ==
    ASSUME TypeOK, HolderInv, OnlyScheduled, [Next]_vars
    PROVE  StaysCancelled
<1> SUFFICES ASSUME NEW t \in Task, row[t].status = "disabled", row'[t].status \in {"scheduled", "running"}
             PROVE  \E ed \in edit : ed.task = t /\ ed.row.status = "scheduled" /\ ed \notin edit'
  BY DEF StaysCancelled
<1>1. row[t] \in Row /\ row'[t] # row[t]
  BY DEF TypeOK
<1>2. ASSUME NEW e \in Exec, WrittenByThread(t, e) PROVE FALSE
  BY <1>1, <1>2, Zenon DEF WrittenByThread, OnlyScheduled, completeTaskExecution
<1>3. ASSUME NEW n \in Node, WrittenByLoop(t, n) PROVE FALSE
  BY <1>1, <1>3, Zenon DEF WrittenByLoop, OnlyScheduled, recoverTaskExecution
<1>4. WrittenByRequest(t)
  BY <1>1, <1>2, <1>3, RowWriters
<1>5. cancelTask(row[t]).status = "disabled" /\ deleteTask(row[t]).status = "deleted"
  BY <1>1 DEF cancelTask, deleteTask, Exists, Stored, NotRunning, NoRow, Row
<1>6. PICK ed \in edit :
        /\ ed \notin edit' /\ ed.task = t
        /\ \/ row'[t] = updateTaskRuntime(row[t], ed.row.status, ed.row.next, ed.row.retry)
           \/ row'[t] = updateTaskDefinition(row[t], ed.row.status, ed.row.next, ed.row.retry, ed.row.max)
  BY <1>4, <1>5, Zenon DEF WrittenByRequest
<1>7. row'[t].status = ed.row.status
  BY <1>1, <1>6 DEF updateTaskRuntime, updateTaskDefinition, NotRunning, Row
<1>8. Idle(ed.row)
  BY <1>6, Zenon DEF HolderInv, PlannedRows
<1> QED
  BY <1>6, <1>7, <1>8 DEF Idle

\* A cancelled task stays disabled until an EnableTask or UpdateTask request writes the row, whatever old scans,
\* executions, recoveries and failures do, where RunTaskNow and the misfire policy "skip", which write back what
\* they read, are not used (cancelTask, and the WHERE clauses of the statements of src/mysql/mysql_client.cpp).
THEOREM CancelledStaysCancelled ==
    ASSUME "run_now" \notin Features, "skip" \notin Features
    PROVE  Spec => CancelSticks
<1>1. TypeOK /\ HolderInv /\ SlotInv /\ [Next]_vars => SlotInv'
  BY SlotNext
<1>2. TypeOK /\ HolderInv /\ SlotInv /\ [Next]_vars => [StaysCancelled]_vars
  BY CancelStep DEF SlotInv
<1>3. Spec => [][StaysCancelled]_vars
  BY <1>1, <1>2, SlotInit, TypeCorrect, HoldersAreClaimed, PTL DEF Spec
<1> QED
  BY <1>3 DEF CancelSticks, StaysCancelled
=============================================================================
