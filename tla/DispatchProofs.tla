---------------------------- MODULE DispatchProofs ----------------------------
(***************************************************************************)
(* DispatchInv is an invariant: what is leased or registered is being      *)
(* worked on, and a node that has stopped has nothing in hand.  The shape  *)
(* lemmas at the start are used by the later proofs too.                   *)
(***************************************************************************)
EXTENDS ControlPlaneProofs

-----------------------------------------------------------------------------
(* What the steps do to the executions, the locks and the leases *)

\* Everybody stays where they are; some are cancelled.
Stays == \A f \in Exec : att'[f].pc = att[f].pc /\ SameWork(att[f], att'[f])

\* g is f without the entry of e for n and t.
Dropped(f, g, n, t, e) ==
    \A m \in Node, u \in Task :
        IF m = n /\ u = t /\ f[m][u] = e THEN g[m][u] = NoExec ELSE g[m][u] = f[m][u]

\* The lock of t is free or as before, and free if it was the owner's and the call did not fail.
Released(t, owner) ==
    /\ \A u \in Task : lock'[u] = lock[u] \/ (u = t /\ lock[u] = owner /\ lock'[u] = None)
    /\ faults' = faults /\ t \in Task => lock'[t] # owner
    /\ faults' = faults \/ faults' = faults + 1

\* Forget takes an entry away only if it is the execution's own.
LEMMA ForgetDrops ==
    ASSUME TypeOK, NEW n, NEW t, NEW e \in Exec, Forget(n, t, e)
    PROVE  Dropped(lease, lease', n, t, e) /\ Dropped(reg, reg', n, t, e)
BY DEF Forget, Dropped, TypeOK

\* unlock frees the lock of its owner, or fails and counts as a fault (RedisClient::unlock).
LEMMA UnlockReleases ==
    ASSUME TypeOK, NEW t, NEW owner \in Owner, unlock(t, owner)
    PROVE  Released(t, owner)
<1>1. lock \in [Task -> Owner \cup {None}] /\ faults \in Nat
  BY ConstantsAssumption DEF TypeOK
<1>2. owner # None
  BY NoneAssumption
<1> QED
  BY <1>1, <1>2 DEF unlock, Unlocked, Released, NoFault, Fault

\* The threads that work on an execution.
LEMMA AttemptShape ==
    ASSUME TypeOK, NEW e \in Exec, AttemptStep(e)
    PROVE  /\ UNCHANGED <<mode, lost, loop, nextExec>>
           /\ \/ /\ att[e].pc \in Locked /\ \E pc \in Locked \ {"claim"} : Moves(e, pc)
                 /\ UNCHANGED <<lock, lease, reg>>
              \/ /\ att[e].pc \in {"claim", "restore"} /\ Moves(e, "unlock") /\ UNCHANGED lock
                 /\ Dropped(lease, lease', att[e].node, att[e].task, e) /\ Dropped(reg, reg', att[e].node, att[e].task, e)
              \/ /\ att[e].pc = "unlock" /\ Leaves(e) /\ unlock(att[e].task, TaskOwner(att[e].node, e))
                 /\ UNCHANGED <<lease, reg>>
              \/ /\ att[e].pc = "cleanup" /\ Leaves(e) /\ unlock(att[e].task, TaskOwner(att[e].node, e))
                 /\ Dropped(lease, lease', att[e].node, att[e].task, e) /\ Dropped(reg, reg', att[e].node, att[e].task, e)
<1>1. CASE ClaimTask(e)
  BY <1>1, MovesBy, ForgetDrops, Zenon DEF ClaimTask, Locked
<1>2. CASE EnqueueTask(e)
  BY <1>2, MovesBy, Zenon DEF EnqueueTask, Locked, nodeVars
<1>3. CASE RestoreTask(e)
  BY <1>3, MovesBy, ForgetDrops, Zenon DEF RestoreTask, Locked
<1>4. CASE UnlockTask(e)
  BY <1>4, MovesBy, Zenon DEF UnlockTask, nodeVars
<1>5. CASE StartTask(e)
  BY <1>5, MovesBy, Zenon DEF StartTask, Locked, nodeVars
<1>6. CASE \E out \in {"ok", "failed"} : FinishRpc(e, out)
  BY <1>6, MovesBy, Zenon DEF FinishRpc, Locked, nodeVars
<1>7. CASE RecordHistory(e)
  BY <1>7, MovesBy, Zenon DEF RecordHistory, Locked, nodeVars
<1>8. CASE CompleteTask(e)
  BY <1>8, MovesBy, Zenon DEF CompleteTask, Locked, nodeVars
<1>9. CASE CleanupTask(e)
  BY <1>9, MovesBy, ForgetDrops, Zenon DEF CleanupTask
<1> QED
  BY <1>1, <1>2, <1>3, <1>4, <1>5, <1>6, <1>7, <1>8, <1>9 DEF AttemptStep

\* RunTaskNow once it has read the row.
LEMMA ManualShape ==
    ASSUME TypeOK, NEW e \in Exec, ManualStep(e)
    PROVE  /\ UNCHANGED <<lock, lease, reg, mode, lost, loop, nextExec>>
           /\ \/ att[e].pc = "manual" /\ (Moves(e, "rpc") \/ Leaves(e))
              \/ att[e].pc = "complete" /\ att[e].kind = "manual" /\ Leaves(e)
<1>1. CASE ClaimManual(e)
  BY <1>1, MovesBy, Zenon DEF ClaimManual, nodeVars
<1>2. CASE CompleteManual(e)
  BY <1>2, MovesBy, Zenon DEF CompleteManual, nodeVars
<1> QED
  BY <1>1, <1>2 DEF ManualStep

\* A new execution is drawn.
Draws(pc, kind, n, t) ==
    /\ nextExec \in Exec /\ nextExec' = nextExec + 1
    /\ att'[nextExec].pc = pc /\ att'[nextExec].kind = kind /\ att'[nextExec].node = n /\ att'[nextExec].task = t
    /\ \A f \in Exec : f # nextExec => att'[f] = att[f]

\* A drawn execution id was not in use, and nobody else moves.
LEMMA DrawsBy ==
    ASSUME TypeOK, nextExec <= MaxExec, nextExec' = nextExec + 1
    PROVE  /\ nextExec \in Exec
           /\ \A pc, kind, n, t, r : att' = [att EXCEPT ![nextExec] = Begin(pc, kind, n, t, r)] => Draws(pc, kind, n, t)
           /\ att' = [att EXCEPT ![nextExec] = Gone("done")] => Leaves(nextExec)
<1>1. att \in [Exec -> Attempt] /\ nextExec \in Exec
  BY ConstantsAssumption DEF TypeOK, Exec
<1>2. ASSUME NEW pc, NEW kind, NEW n, NEW t, NEW r, att' = [att EXCEPT ![nextExec] = Begin(pc, kind, n, t, r)]
      PROVE  Draws(pc, kind, n, t)
  <2>1. att'[nextExec] = Begin(pc, kind, n, t, r) /\ \A f \in Exec : f # nextExec => att'[f] = att[f]
    BY <1>1, <1>2
  <2> QED
    BY <1>1, <2>1 DEF Draws, Begin, NoAttempt
<1> QED
  BY <1>1, <1>2, MovesBy

\* Where the scan thread of n is before and after a step that takes and frees no lock.
Looks(n) ==
    /\ loop[n].pc \in {"scan", "skip"} /\ loop'[n].pc \in {"scan", "skip"}
    /\ loop'[n].pc = "skip" => loop'[n].cur.task \in Task

\* It takes the lock of a task to recover it, or to run it.
TakesForRecovery(n) ==
    LET t == loop'[n].cur.task
    IN  /\ loop[n].pc = "scan" /\ loop'[n].pc = "recovering" /\ t \in Task /\ Lockable(t)
        /\ lock'[t] = RecoveryOwner(n, loop'[n].cur.exec) /\ \A u \in Task : u # t => lock'[u] = lock[u]
Takes(n, t) ==
    /\ loop[n].pc = "scan" /\ loop'[n].pc = "scan" /\ Lockable(t)
    /\ lock'[t] = TaskOwner(n, nextExec) /\ \A u \in Task : u # t => lock'[u] = lock[u]
    /\ lease'[n][t] = nextExec /\ reg'[n][t] = nextExec
    /\ \A m \in Node, u \in Task : m # n \/ u # t => lease'[m][u] = lease[m][u] /\ reg'[m][u] = reg[m][u]

\* The scan thread.
LEMMA LoopShape ==
    ASSUME TypeOK, NEW n \in Node, LoopStep(n)
    PROVE  /\ UNCHANGED <<mode, lost>> /\ \A m \in Node : m # n => loop'[m] = loop[m]
           /\ mode[n] = "up" \/ ~Quiet(n)
           /\ \/ Looks(n) /\ UNCHANGED <<lock, lease, reg, att, nextExec>>
              \/ TakesForRecovery(n) /\ UNCHANGED <<lease, reg, att, nextExec, faults>>
              \/ /\ loop[n].pc = "recovering" /\ loop'[n].pc = "unlocking" /\ loop'[n].cur = loop[n].cur
                 /\ UNCHANGED <<lock, lease, reg, att, nextExec>>
              \/ /\ loop[n].pc = "unlocking" /\ loop'[n].pc = "scan"
                 /\ unlock(loop[n].cur.task, RecoveryOwner(n, loop[n].cur.exec)) /\ UNCHANGED <<lease, reg, att, nextExec>>
              \/ \E t \in Task : Takes(n, t) /\ Draws("claim", "sched", n, t) /\ UNCHANGED faults
              \/ /\ Fault("redis") /\ loop[n].pc = "scan" /\ loop'[n].pc = "scan" /\ UNCHANGED <<lease, reg>>
                 /\ \/ UNCHANGED <<att, nextExec>>
                    \/ nextExec \in Exec /\ Leaves(nextExec) /\ nextExec' = nextExec + 1
<1>loop. loop \in [Node -> LoopState] /\ loop[n] \in LoopState
  BY DEF TypeOK
<1>due. \A s \in loop[n].due : s[1] \in Task
  BY <1>loop DEF LoopState
<1>stale. \A p \in loop[n].stale : p[1] \in Task
  BY <1>loop DEF LoopState
<1>1. CASE \E S \in SUBSET Running : ScanStale(n, S)
  <2>1. loop[n].pc = "scan" /\ loop'[n].pc = "scan" /\ \A m \in Node : m # n => loop'[m] = loop[m]
    BY <1>1, <1>loop DEF ScanStale, LoopState, BetweenScans, Scanning
  <2> QED
    BY <1>1, <2>1, Zenon DEF ScanStale, Looks, nodeVars
<1>2. CASE RecoverLock(n)
  <2>1. PICK p \in loop[n].stale :
          \/ /\ NoFault /\ Lockable(p[1]) /\ lock' = [lock EXCEPT ![p[1]] = RecoveryOwner(n, p[2])]
             /\ loop' = [loop EXCEPT ![n] = [@ EXCEPT !.pc = "recovering", !.stale = loop[n].stale \ {p},
                                                     !.cur = [task |-> p[1], exec |-> p[2], row |-> NoRow]]]
          \/ ((NoFault /\ UNCHANGED lock) \/ Fault("redis")) /\ loop' = [loop EXCEPT ![n].stale = loop[n].stale \ {p}]
    BY <1>2, Zenon DEF RecoverLock
  <2>2. loop[n].pc = "scan" /\ ~Quiet(n)
    BY <1>2, <2>1 DEF RecoverLock, Scanning, Quiet
  <2>3. UNCHANGED <<mode, lost, lease, reg, att, nextExec>>
    BY <1>2 DEF RecoverLock, nodeVars
  <2>4. CASE /\ NoFault /\ Lockable(p[1]) /\ lock' = [lock EXCEPT ![p[1]] = RecoveryOwner(n, p[2])]
             /\ loop' = [loop EXCEPT ![n] = [@ EXCEPT !.pc = "recovering", !.stale = loop[n].stale \ {p},
                                                     !.cur = [task |-> p[1], exec |-> p[2], row |-> NoRow]]]
    <3>1. /\ loop'[n].pc = "recovering" /\ loop'[n].cur.task = p[1] /\ loop'[n].cur.exec = p[2]
          /\ \A m \in Node : m # n => loop'[m] = loop[m]
      BY <2>4, <1>loop DEF LoopState
    <3>2. lock'[p[1]] = RecoveryOwner(n, p[2]) /\ \A u \in Task : u # p[1] => lock'[u] = lock[u]
      BY <2>4, <1>stale DEF TypeOK
    <3>3. TakesForRecovery(n)
      BY <3>1, <3>2, <2>2, <2>4, <1>stale DEF TakesForRecovery
    <3> QED
      BY <2>2, <2>3, <2>4, <3>1, <3>3 DEF NoFault
  <2>5. CASE ((NoFault /\ UNCHANGED lock) \/ Fault("redis")) /\ loop' = [loop EXCEPT ![n].stale = loop[n].stale \ {p}]
    <3>1. loop'[n].pc = loop[n].pc /\ \A m \in Node : m # n => loop'[m] = loop[m]
      BY <2>5, <1>loop DEF LoopState
    <3> QED
      BY <2>2, <2>3, <2>5, <3>1, Zenon DEF Looks
  <2> QED
    BY <2>1, <2>4, <2>5
<1>3. CASE RecoverRow(n)
  <2>1. loop'[n].pc = "unlocking" /\ loop'[n].cur = loop[n].cur /\ \A m \in Node : m # n => loop'[m] = loop[m]
    BY <1>3, <1>loop DEF RecoverRow, LoopState
  <2> QED
    BY <1>3, <2>1 DEF RecoverRow, Quiet, nodeVars
<1>4. CASE RecoverUnlock(n)
  <2>1. loop'[n].pc = "scan" /\ \A m \in Node : m # n => loop'[m] = loop[m]
    BY <1>4, <1>loop DEF RecoverUnlock, LoopState
  <2> QED
    BY <1>4, <2>1 DEF RecoverUnlock, Quiet, nodeVars
<1>5. CASE ScanDue(n)
  <2>1. loop[n].pc = "scan" /\ loop'[n].pc = "scan" /\ \A m \in Node : m # n => loop'[m] = loop[m]
    BY <1>5, <1>loop DEF ScanDue, LoopState, BetweenScans, Scanning
  <2> QED
    BY <1>5, <2>1, Zenon DEF ScanDue, Looks, nodeVars
<1>6. CASE PlanSkip(n)
  <2>1. PICK s \in loop[n].due : \E r :
          loop' = [loop EXCEPT ![n] = [@ EXCEPT !.pc = "skip", !.due = loop[n].due \ {s},
                                               !.cur = [task |-> s[1], exec |-> NoExec, row |-> r]]]
    BY <1>6, Zenon DEF PlanSkip
  <2>2. loop'[n].pc = "skip" /\ loop'[n].cur.task = s[1] /\ \A m \in Node : m # n => loop'[m] = loop[m]
    BY <2>1, <1>loop DEF LoopState
  <2>3. loop[n].pc = "scan" /\ ~Quiet(n) /\ s[1] \in Task
    BY <1>6, <2>1, <1>due DEF PlanSkip, Scanning, Quiet
  <2> QED
    BY <1>6, <2>2, <2>3 DEF PlanSkip, Looks, nodeVars
<1>7. CASE WriteSkip(n)
  <2>1. loop'[n].pc = "scan" /\ \A m \in Node : m # n => loop'[m] = loop[m]
    BY <1>7, <1>loop DEF WriteSkip, LoopState
  <2> QED
    BY <1>7, <2>1 DEF WriteSkip, Quiet, Looks, nodeVars
<1>8. CASE NoWorker(n)
  <2>1. loop'[n].pc = loop[n].pc /\ \A m \in Node : m # n => loop'[m] = loop[m]
    BY <1>8, <1>loop DEF NoWorker, LoopState
  <2> QED
    BY <1>8, <2>1 DEF NoWorker, Scanning, Quiet, Looks, nodeVars
<1>9. CASE LockTask(n)
  <2>1. PICK s \in loop[n].due :
          /\ Lockable(s[1])
          /\ lock' = [lock EXCEPT ![s[1]] = TaskOwner(n, nextExec)]
          /\ lease' = [lease EXCEPT ![n][s[1]] = nextExec] /\ reg' = [reg EXCEPT ![n][s[1]] = nextExec]
          /\ att' = [att EXCEPT ![nextExec] = Begin("claim", "sched", n, s[1], s[2])]
          /\ loop' = [loop EXCEPT ![n].due = @ \ {s}]
    BY <1>9, Zenon DEF LockTask
  <2>2. loop[n].pc = "scan" /\ ~Quiet(n) /\ s[1] \in Task
    BY <1>9, <2>1, <1>due DEF LockTask, Scanning, Quiet
  <2>3. loop'[n].pc = loop[n].pc /\ \A m \in Node : m # n => loop'[m] = loop[m]
    BY <2>1, <1>loop DEF LoopState
  <2>4. Draws("claim", "sched", n, s[1])
    BY <1>9, <2>1, DrawsBy, Zenon DEF LockTask
  <2>5. Takes(n, s[1])
    BY <2>1, <2>2, <2>3 DEF Takes, TypeOK
  <2> QED
    BY <1>9, <2>2, <2>3, <2>4, <2>5 DEF LockTask
<1>10. CASE LockBusy(n)
  <2>1. loop'[n].pc = loop[n].pc /\ \A m \in Node : m # n => loop'[m] = loop[m]
    BY <1>10, <1>loop DEF LockBusy, LoopState
  <2>2. loop[n].pc = "scan" /\ ~Quiet(n) /\ UNCHANGED <<mode, lost, lease, reg>>
    BY <1>10 DEF LockBusy, Scanning, Quiet, nodeVars
  <2>3. \/ UNCHANGED <<lock, att, nextExec>>
        \/ /\ Fault("redis") /\ nextExec <= MaxExec /\ nextExec' = nextExec + 1
           /\ att' = [att EXCEPT ![nextExec] = Gone("done")]
    BY <1>10, Zenon DEF LockBusy
  <2> QED
    BY <2>1, <2>2, <2>3, DrawsBy, Zenon DEF Looks
<1> QED
  BY <1>1, <1>2, <1>3, <1>4, <1>5, <1>6, <1>7, <1>8, <1>9, <1>10, Zenon DEF LoopStep

\* A cancellation request moves no thread.
LEMMA CancelStays ==
    ASSUME TypeOK, \A e \in Exec : att'[e] = att[e] \/ att'[e] = Cancelled(att[e])
    PROVE  Stays
<1> SUFFICES ASSUME NEW f \in Exec PROVE att'[f].pc = att[f].pc /\ SameWork(att[f], att'[f])
  BY DEF Stays
<1>1. att[f] \in Attempt
  BY DEF TypeOK
<1> QED
  BY <1>1 DEF Cancelled, Attempt, SameWork

\* The request handlers, and the statement an edit ends with.
LEMMA RequestShape ==
    ASSUME TypeOK, NEW n \in Node, NEW t \in Task, RequestStep(n, t)
    PROVE  /\ UNCHANGED <<lock, lease, reg, mode, lost, loop>>
           /\ \/ Stays /\ UNCHANGED nextExec
              \/ "run_now" \in Features /\ Serving(n) /\ Draws("manual", "manual", n, t) /\ UNCHANGED row
<1>1. CASE handleRunTaskNow(n, t)
  BY <1>1, DrawsBy, Zenon DEF handleRunTaskNow, nodeVars, storeVars
<1>2. CASE CancelRegistered(n, t)
  <2>1. \A e \in Exec : att'[e] = att[e] \/ att'[e] = Cancelled(att[e])
    BY <1>2, Zenon DEF CancelRegistered
  <2> QED
    BY <1>2, <2>1, CancelStays DEF CancelRegistered, nodeVars
<1>3. CASE \/ handleSubmitTask(n, t) \/ handleCancelTask(n, t) \/ handleEnableTask(n, t)
           \/ handleUpdateTask(n, t) \/ handleDeleteTask(n, t)
  <2>1. UNCHANGED <<lock, lease, reg, mode, lost, loop, att, nextExec>>
    BY <1>3 DEF handleSubmitTask, handleCancelTask, handleEnableTask, handleUpdateTask, handleDeleteTask, nodeVars
  <2> QED
    BY <2>1, CancelStays
<1> QED
  BY <1>1, <1>2, <1>3 DEF RequestStep

\* The lock renewer: it finds a lease lost, or gives up the leases it has found lost.
GivesUp(n) ==
    /\ lost[n] # {} /\ \A m \in Node : m # n => lost'[m] = lost[m]
    /\ \A m \in Node, u \in Task :
         \/ lease'[m][u] = lease[m][u]
         \/ m = n /\ lease'[m][u] = NoExec /\ <<u, lease[m][u]>> \in lost[n]

\* What a step of the lock renewer does: a failed renewal that is noted, or the lost leases given up.
LEMMA RenewerShape ==
    ASSUME TypeOK, NEW n \in Node, RenewerStep(n)
    PROVE  /\ UNCHANGED <<lock, reg, mode, loop, nextExec>> /\ Stays
           /\ \/ /\ UNCHANGED <<lease, att>>
                 /\ \E t \in Task : lease[n][t] # NoExec /\ ("redis" \in Features \/ lock[t] # TaskOwner(n, lease[n][t]))
              \/ GivesUp(n) /\ UNCHANGED faults
<1>1. CASE \E t \in Task : RenewLease(n, t)
  <2>1. PICK t \in Task : RenewLease(n, t)
    BY <1>1
  <2>2. lease[n][t] # NoExec /\ ("redis" \in Features \/ lock[t] # TaskOwner(n, lease[n][t]))
    BY <2>1 DEF RenewLease, Fault
  <2>3. UNCHANGED <<lock, reg, mode, loop, nextExec, lease, att>>
    BY <2>1 DEF RenewLease
  <2> QED
    BY <2>2, <2>3, CancelStays
<1>2. CASE ApplyLost(n)
  <2> DEFINE hit == {p \in lost[n] : lease[n][p[1]] = p[2]}
  <2>1. \A e \in Exec : att'[e] = att[e] \/ att'[e] = Cancelled(att[e])
    BY <1>2, Zenon DEF ApplyLost
  <2>2. \A u \in Task : (\E p \in hit : p[1] = u) => <<u, lease[n][u]>> \in lost[n]
    <3>1. \A p \in lost[n] : p = <<p[1], p[2]>>
      BY DEF TypeOK
    <3> QED
      BY <3>1
  <2>3. lease' = [lease EXCEPT ![n] = [t \in Task |-> IF \E p \in hit : p[1] = t THEN NoExec ELSE @[t]]]
    BY <1>2 DEF ApplyLost
  <2> HIDE DEF hit
  <2>4. \A m \in Node, u \in Task :
          \/ lease'[m][u] = lease[m][u]
          \/ m = n /\ lease'[m][u] = NoExec /\ \E p \in hit : p[1] = u
    BY <2>3, Zenon DEF TypeOK
  <2>5. lost[n] # {} /\ \A m \in Node : m # n => lost'[m] = lost[m]
    BY <1>2 DEF ApplyLost, TypeOK
  <2>6. UNCHANGED <<lock, reg, mode, loop, nextExec, faults>>
    BY <1>2 DEF ApplyLost
  <2>7. GivesUp(n)
    BY <2>2, <2>4, <2>5, Zenon DEF GivesUp
  <2> QED
    BY <2>1, <2>6, <2>7, CancelStays
<1> QED
  BY <1>1, <1>2 DEF RenewerStep

\* A process that crashes loses its threads, its leases and its registrations.
Crashes(n) ==
    /\ mode'[n] = "down" /\ faults' = faults + 1 /\ \A m \in Node : m # n => mode'[m] = mode[m]
    /\ \A m \in Node : IF m = n THEN loop'[m] = IdleLoop ELSE loop'[m] = loop[m]
    /\ \A f \in Exec : IF att[f].node = n THEN att'[f] = Gone("dead") ELSE att'[f] = att[f]
    /\ \A m \in Node, u \in Task :
         IF m = n THEN lease'[m][u] = NoExec /\ reg'[m][u] = NoExec
         ELSE lease'[m][u] = lease[m][u] /\ reg'[m][u] = reg[m][u]
    /\ \A m \in Node : IF m = n THEN lost'[m] = {} ELSE lost'[m] = lost[m]

\* A node that closes gives up the leases it has none of.
Closes(n) ==
    /\ Drained(n) /\ mode'[n] = "closing" /\ \A m \in Node : m # n => mode'[m] = mode[m]
    /\ \A m \in Node, u \in Task : IF m = n THEN lease'[m][u] = NoExec ELSE lease'[m][u] = lease[m][u]
    /\ \A m \in Node : IF m = n THEN lost'[m] = {} ELSE lost'[m] = lost[m]

\* What starting, stopping, draining or crashing a node does.
LEMMA NodeShape ==
    ASSUME TypeOK, NEW n \in Node, NodeStep(n)
    PROVE  /\ UNCHANGED <<row, hist, lock, nextExec>>
           /\ \/ Crashes(n)
              \/ Closes(n) /\ UNCHANGED <<reg, loop, att, faults>>
              \/ /\ UNCHANGED <<lease, lost, reg, loop, att, faults>>
                 /\ \A m \in Node : m # n => mode'[m] = mode[m]
                 /\ mode'[n] = "down" => mode[n] = "closing" /\ \A e \in Exec : att[e].node # n
                 /\ mode'[n] # "closing"
<1>1. CASE CrashNode(n)
  <2>1. UNCHANGED <<row, hist, lock, nextExec>>
    BY <1>1 DEF CrashNode, storeVars
  <2>2. mode'[n] = "down" /\ faults' = faults + 1 /\ \A m \in Node : m # n => mode'[m] = mode[m]
    BY <1>1 DEF CrashNode, Fault, TypeOK
  <2>3. \A m \in Node : IF m = n THEN loop'[m] = IdleLoop ELSE loop'[m] = loop[m]
    BY <1>1 DEF CrashNode, TypeOK
  <2>4. \A f \in Exec : IF att[f].node = n THEN att'[f] = Gone("dead") ELSE att'[f] = att[f]
    BY <1>1, Zenon DEF CrashNode
  <2>5. \A m \in Node, u \in Task :
          IF m = n THEN lease'[m][u] = NoExec /\ reg'[m][u] = NoExec
          ELSE lease'[m][u] = lease[m][u] /\ reg'[m][u] = reg[m][u]
    BY <1>1 DEF CrashNode, TypeOK
  <2>6. \A m \in Node : IF m = n THEN lost'[m] = {} ELSE lost'[m] = lost[m]
    BY <1>1 DEF CrashNode, TypeOK
  <2> QED
    BY <2>1, <2>2, <2>3, <2>4, <2>5, <2>6 DEF Crashes
<1>2. CASE CloseServer(n)
  <2>1. Closes(n)
    BY <1>2 DEF CloseServer, Closes, TypeOK
  <2> QED
    BY <1>2, <2>1 DEF CloseServer, storeVars
<1>3. CASE StopNode(n) \/ StoppedNode(n) \/ StartNode(n)
  <2>1. UNCHANGED <<row, hist, lock, nextExec, lease, lost, reg, loop, att, faults>>
    BY <1>3 DEF StopNode, StoppedNode, StartNode, storeVars
  <2>2. /\ \A m \in Node : m # n => mode'[m] = mode[m]
        /\ mode'[n] = "down" => mode[n] = "closing" /\ \A e \in Exec : att[e].node # n
        /\ mode'[n] # "closing"
    BY <1>3 DEF StopNode, StoppedNode, StartNode, Answered, TypeOK
  <2> QED
    BY <2>1, <2>2
<1> QED
  BY <1>1, <1>2, <1>3 DEF NodeStep

-----------------------------------------------------------------------------
(* DispatchInv *)

\* What an entry of the renewer or the registry says of its execution.
OwnEntry(a, n, t) == a.node = n /\ a.task = t /\ a.kind = "sched" /\ a.pc \in Locked

\* NoLeakedLease, entry by entry.
LEMMA LeaseParts ==
    ASSUME TypeOK, DispatchInv, NEW n \in Node, NEW t \in Task
    PROVE  /\ lease[n][t] # NoExec => lease[n][t] \in Exec /\ OwnEntry(att[lease[n][t]], n, t)
           /\ reg[n][t] # NoExec => reg[n][t] \in Exec /\ OwnEntry(att[reg[n][t]], n, t)
<1>1. lease[n][t] \in 0..MaxExec /\ reg[n][t] \in 0..MaxExec
  BY DEF TypeOK
<1>2. \A e \in {lease[n][t], reg[n][t]} \ {NoExec} : OwnEntry(att[e], n, t)
  BY Zenon DEF DispatchInv, NoLeakedLease, OwnEntry, Locked
<1> QED
  BY <1>1, <1>2, ConstantsAssumption DEF Exec, NoExec

\* NoLeakedLease, entry by entry.
LEMMA LeaseJoined ==
    ASSUME \A n \in Node, t \in Task :
             /\ lease'[n][t] # NoExec => OwnEntry(att'[lease'[n][t]], n, t)
             /\ reg'[n][t] # NoExec => OwnEntry(att'[reg'[n][t]], n, t)
    PROVE  NoLeakedLease'
<1> SUFFICES ASSUME NEW n \in Node, NEW t \in Task, NEW e \in {lease'[n][t], reg'[n][t]} \ {NoExec}
             PROVE  OwnEntry(att'[e], n, t)
  BY Zenon DEF NoLeakedLease, OwnEntry, Locked
<1> QED
  OBVIOUS

\* What is enough for each part of DispatchInv in a step that makes no lease: f goes on, or has no entry left.
Fewer(f, g) == \A m \in Node, u \in Task : g[m][u] = f[m][u] \/ g[m][u] = NoExec
Unentered(f) == \A m \in Node, u \in Task : lease'[m][u] # f /\ reg'[m][u] # f
Continues(f) == att'[f].pc \in Locked /\ SameWork(att[f], att'[f])

\* A step that makes no lease keeps NoLeakedLease if the executions with an entry go on or lose it.
LEMMA LeaseKept ==
    ASSUME TypeOK, DispatchInv, Fewer(lease, lease'), Fewer(reg, reg'),
           \A f \in Exec : att[f].pc \in Locked /\ att[f].kind = "sched" => Continues(f) \/ Unentered(f)
    PROVE  NoLeakedLease'
<1> SUFFICES ASSUME NEW n \in Node, NEW t \in Task
             PROVE  /\ lease'[n][t] # NoExec => OwnEntry(att'[lease'[n][t]], n, t)
                    /\ reg'[n][t] # NoExec => OwnEntry(att'[reg'[n][t]], n, t)
  BY LeaseJoined
<1>1. ASSUME NEW f \in Exec, OwnEntry(att[f], n, t), ~Unentered(f) PROVE OwnEntry(att'[f], n, t)
  BY <1>1 DEF OwnEntry, Continues, SameWork
<1>2. ASSUME lease'[n][t] # NoExec PROVE OwnEntry(att'[lease'[n][t]], n, t)
  <2>1. lease'[n][t] = lease[n][t]
    BY <1>2 DEF Fewer
  <2>2. lease[n][t] \in Exec /\ OwnEntry(att[lease[n][t]], n, t)
    BY <1>2, <2>1, LeaseParts
  <2>3. ~Unentered(lease[n][t])
    BY <2>1 DEF Unentered
  <2> QED
    BY <1>1, <2>1, <2>2, <2>3
<1>3. ASSUME reg'[n][t] # NoExec PROVE OwnEntry(att'[reg'[n][t]], n, t)
  <2>1. reg'[n][t] = reg[n][t]
    BY <1>3 DEF Fewer
  <2>2. reg[n][t] \in Exec /\ OwnEntry(att[reg[n][t]], n, t)
    BY <1>3, <2>1, LeaseParts
  <2>3. ~Unentered(reg[n][t])
    BY <2>1 DEF Unentered
  <2> QED
    BY <1>1, <2>1, <2>2, <2>3
<1> QED
  BY <1>2, <1>3

\* An execution whose entries are dropped has none left.
LEMMA DropsUnenter ==
    ASSUME TypeOK, DispatchInv, NEW e \in Exec,
           Dropped(lease, lease', att[e].node, att[e].task, e), Dropped(reg, reg', att[e].node, att[e].task, e)
    PROVE  Unentered(e) /\ Fewer(lease, lease') /\ Fewer(reg, reg')
<1> SUFFICES ASSUME NEW m \in Node, NEW u \in Task
             PROVE  /\ lease'[m][u] # e /\ reg'[m][u] # e
                    /\ lease'[m][u] = lease[m][u] \/ lease'[m][u] = NoExec
                    /\ reg'[m][u] = reg[m][u] \/ reg'[m][u] = NoExec
  BY DEF Unentered, Fewer
<1>1. NoExec # e
  BY ExecsAreNotNoExec
<1>entry. /\ lease[m][u] # NoExec => lease[m][u] \in Exec /\ OwnEntry(att[lease[m][u]], m, u)
          /\ reg[m][u] # NoExec => reg[m][u] \in Exec /\ OwnEntry(att[reg[m][u]], m, u)
  BY LeaseParts
<1>2. /\ lease[m][u] = e => m = att[e].node /\ u = att[e].task
      /\ reg[m][u] = e => m = att[e].node /\ u = att[e].task
  BY <1>1, <1>entry DEF OwnEntry
<1>3. /\ IF m = att[e].node /\ u = att[e].task /\ lease[m][u] = e THEN lease'[m][u] = NoExec ELSE lease'[m][u] = lease[m][u]
      /\ IF m = att[e].node /\ u = att[e].task /\ reg[m][u] = e THEN reg'[m][u] = NoExec ELSE reg'[m][u] = reg[m][u]
  BY Zenon DEF Dropped
<1> QED
  BY <1>1, <1>2, <1>3

\* Placed is kept if threads keep their task and new ones get one.
LEMMA PlacedKept ==
    ASSUME DispatchInv,
           \A f \in Exec : Busy(att'[f]) => \/ Busy(att[f]) /\ SameWork(att[f], att'[f])
                                            \/ att'[f].node \in Node /\ att'[f].task \in Task,
           \A m \in Node : loop'[m] = loop[m] \/ loop'[m].pc = "scan" \/ loop'[m].cur.task \in Task
    PROVE  Placed'
<1>1. ASSUME NEW f \in Exec, Busy(att'[f]) PROVE att'[f].node \in Node /\ att'[f].task \in Task
  BY <1>1 DEF DispatchInv, Placed, SameWork
<1>2. ASSUME NEW m \in Node, loop'[m].pc # "scan" PROVE loop'[m].cur.task \in Task
  BY <1>2 DEF DispatchInv, Placed
<1> QED
  BY <1>1, <1>2 DEF Placed, Busy

\* Nodes that have stopped stay as they are.
LEMMA StoppedKept ==
    ASSUME TypeOK, DispatchInv, UNCHANGED mode,
           \A f \in Exec : \/ SameWork(att[f], att'[f]) \/ att'[f].node = None
                           \/ att'[f].node \in Node /\ mode[att'[f].node] \notin {"closing", "down"},
           \A m \in Node : loop'[m] = loop[m] \/ mode[m] \notin {"closing", "down"}
    PROVE  Stopped'
<1> SUFFICES ASSUME NEW n \in Node
             PROVE  /\ mode[n] \in {"closing", "down"} => Quiet(n)' /\ \A e \in Exec : att'[e].node = n => att'[e].kind = "manual"
                    /\ mode[n] = "down" => \A e \in Exec : att'[e].node # n
  BY DEF Stopped
<1>1. /\ mode[n] \in {"closing", "down"} => Quiet(n) /\ \A e \in Exec : att[e].node = n => att[e].kind = "manual"
      /\ mode[n] = "down" => \A e \in Exec : att[e].node # n
  BY DEF DispatchInv, Stopped
<1>2. ASSUME mode[n] \in {"closing", "down"}, NEW e \in Exec, att'[e].node = n
      PROVE  att[e].node = n /\ att'[e].kind = att[e].kind
  BY <1>2, ConstantsAssumption DEF SameWork
<1>3. mode[n] \in {"closing", "down"} => Quiet(n)'
  BY <1>1 DEF Quiet
<1> QED
  BY <1>1, <1>2, <1>3

-----------------------------------------------------------------------------
(* DispatchInv *)

\* One thread goes on, or is done.
LEMMA DispatchOne ==
    ASSUME TypeOK, DispatchInv, NEW e \in Exec, UNCHANGED <<mode, loop>>,
           (Busy(att[e]) /\ \E pc \in PCs : Moves(e, pc)) \/ Leaves(e),
           Fewer(lease, lease'), Fewer(reg, reg'),
           att[e].pc \in Locked /\ att[e].kind = "sched" => (att'[e].pc \in Locked /\ ~Leaves(e)) \/ Unentered(e)
    PROVE  DispatchInv'
<1>1. \A f \in Exec : f # e => att'[f] = att[f]
  BY DEF Moves, Leaves
<1>2. /\ att'[e].node = None \/ SameWork(att[e], att'[e])
      /\ Busy(att'[e]) => Busy(att[e]) /\ SameWork(att[e], att'[e])
      /\ ~Leaves(e) => SameWork(att[e], att'[e])
  BY DEF Moves, Leaves, Busy
<1>3. Placed'
  BY <1>1, <1>2, PlacedKept DEF SameWork
<1>4. Stopped'
  BY <1>1, <1>2, StoppedKept DEF SameWork
<1>5. \A f \in Exec : att[f].pc \in Locked /\ att[f].kind = "sched" => Continues(f) \/ Unentered(f)
  BY <1>1, <1>2 DEF Continues, SameWork
<1> QED
  BY <1>3, <1>4, <1>5, LeaseKept DEF DispatchInv

\* A step of a scheduled execution keeps DispatchInv.
LEMMA DispatchAttempt ==
    ASSUME TypeOK, DispatchInv, NEW e \in Exec, AttemptStep(e)
    PROVE  DispatchInv'
<1>1. UNCHANGED <<mode, loop>> /\ att[e].pc \in Locked \cup {"unlock"}
  BY AttemptShape DEF Locked
<1>2. Busy(att[e])
  BY <1>1 DEF Busy, Locked
<1>3. CASE (\E pc \in Locked : Moves(e, pc)) /\ UNCHANGED <<lease, reg>>
  <2>1. PICK pc \in Locked : Moves(e, pc)
    BY <1>3
  <2>2. att'[e].pc \in Locked /\ ~Leaves(e) /\ pc \in PCs
    BY <2>1 DEF Moves, Leaves, Locked, PCs
  <2>3. Fewer(lease, lease') /\ Fewer(reg, reg')
    BY <1>3 DEF Fewer
  <2> QED
    BY <1>1, <1>2, <2>1, <2>2, <2>3, DispatchOne
<1>4. CASE /\ Moves(e, "unlock") \/ Leaves(e)
           /\ Dropped(lease, lease', att[e].node, att[e].task, e) /\ Dropped(reg, reg', att[e].node, att[e].task, e)
  <2>1. Unentered(e) /\ Fewer(lease, lease') /\ Fewer(reg, reg')
    BY <1>4, DropsUnenter
  <2>2. "unlock" \in PCs
    BY DEF PCs
  <2> QED
    BY <1>1, <1>2, <1>4, <2>1, <2>2, DispatchOne
<1>5. CASE att[e].pc = "unlock" /\ Leaves(e) /\ UNCHANGED <<lease, reg>>
  <2>1. att[e].pc \notin Locked /\ Fewer(lease, lease') /\ Fewer(reg, reg')
    BY <1>5 DEF Locked, Fewer
  <2> QED
    BY <1>1, <1>5, <2>1, DispatchOne
<1> QED
  BY <1>3, <1>4, <1>5, AttemptShape

\* A step of a RunTaskNow execution keeps DispatchInv.
LEMMA DispatchManual ==
    ASSUME TypeOK, DispatchInv, NEW e \in Exec, ManualStep(e)
    PROVE  DispatchInv'
<1>1. UNCHANGED <<mode, loop>> /\ Fewer(lease, lease') /\ Fewer(reg, reg')
  BY ManualShape DEF Fewer
<1>2. /\ (att[e].pc = "manual" /\ Moves(e, "rpc")) \/ Leaves(e)
      /\ ~(att[e].pc \in Locked /\ att[e].kind = "sched")
  BY ManualShape DEF Locked
<1>3. "rpc" \in PCs /\ (att[e].pc = "manual" => Busy(att[e]))
  BY DEF PCs, Busy
<1> QED
  BY <1>1, <1>2, <1>3, DispatchOne

\* A step in which no execution goes on, no lease is made and the scan threads keep their work.
LEMMA DispatchStays ==
    ASSUME TypeOK, DispatchInv, Stays, UNCHANGED <<mode, loop, reg>>, Fewer(lease, lease')
    PROVE  DispatchInv'
<1>1. Placed'
  BY PlacedKept DEF Stays, Busy
<1>2. Stopped'
  BY StoppedKept DEF Stays
<1>3. Fewer(reg, reg')
  BY DEF Fewer
<1>4. \A f \in Exec : att[f].pc \in Locked => Continues(f)
  BY DEF Continues, Stays
<1> QED
  BY <1>1, <1>2, <1>3, <1>4, LeaseKept DEF DispatchInv

\* A new execution has no entries yet.
LEMMA NewIsUnentered ==
    ASSUME TypeOK, DispatchInv, FreshExecs, nextExec \in Exec, NEW m \in Node, NEW u \in Task
    PROVE  lease[m][u] # nextExec /\ reg[m][u] # nextExec /\ att[nextExec].pc = "new"
<1>1. att[nextExec].pc = "new" /\ nextExec # NoExec
  BY ExecsAreNotNoExec DEF FreshExecs, Exec
<1>2. /\ lease[m][u] # NoExec => lease[m][u] \in Exec /\ OwnEntry(att[lease[m][u]], m, u)
      /\ reg[m][u] # NoExec => reg[m][u] \in Exec /\ OwnEntry(att[reg[m][u]], m, u)
  BY LeaseParts
<1> QED
  BY <1>1, <1>2 DEF OwnEntry, Locked

\* RunTaskNow starts an execution without a lock.
LEMMA DispatchDraws ==
    ASSUME TypeOK, DispatchInv, FreshExecs, NEW n \in Node, NEW t \in Task, Draws("manual", "manual", n, t), Serving(n),
           UNCHANGED <<mode, loop, lease, reg>>
    PROVE  DispatchInv'
<1>1. nextExec \in Exec /\ att[nextExec].pc = "new"
  BY NewIsUnentered DEF Draws
<1>2. \A f \in Exec : f # nextExec => att'[f] = att[f]
  BY DEF Draws
<1>3. att'[nextExec].node = n /\ att'[nextExec].task = t /\ mode[n] \notin {"closing", "down"}
  BY DEF Draws, Serving
<1>4. Placed'
  BY <1>2, <1>3, PlacedKept DEF SameWork
<1>5. Stopped'
  BY <1>2, <1>3, StoppedKept DEF SameWork
<1>6. \A f \in Exec : att[f].pc \in Locked => Continues(f)
  BY <1>1, <1>2 DEF Continues, SameWork, Locked
<1>7. Fewer(lease, lease') /\ Fewer(reg, reg')
  BY DEF Fewer
<1> QED
  BY <1>4, <1>5, <1>6, <1>7, LeaseKept DEF DispatchInv

\* The scan thread.
LEMMA DispatchLoop ==
    ASSUME TypeOK, DispatchInv, FreshExecs, NEW n \in Node, LoopStep(n)
    PROVE  DispatchInv'
<1>1. UNCHANGED <<mode, lost>> /\ \A m \in Node : m # n => loop'[m] = loop[m]
  BY LoopShape
<1>2. mode[n] \notin {"closing", "down"}
  BY LoopShape DEF DispatchInv, Stopped
<1>3. loop'[n].pc # "scan" => loop'[n].cur.task \in Task
  BY LoopShape DEF Looks, TakesForRecovery, Takes, DispatchInv, Placed
<1>4. CASE UNCHANGED <<lease, reg, att>>
  <2>1. Placed'
    BY <1>1, <1>3, <1>4, PlacedKept DEF SameWork
  <2>2. Stopped'
    BY <1>1, <1>2, <1>4, StoppedKept DEF SameWork
  <2>3. /\ Fewer(lease, lease') /\ Fewer(reg, reg')
        /\ \A f \in Exec : att[f].pc \in Locked => Continues(f)
    BY <1>4 DEF Fewer, Continues, SameWork
  <2> QED
    BY <2>1, <2>2, <2>3, LeaseKept DEF DispatchInv
<1>5. ASSUME NEW t \in Task, Takes(n, t), Draws("claim", "sched", n, t) PROVE DispatchInv'
  <2>1. nextExec \in Exec /\ \A f \in Exec : f # nextExec => att'[f] = att[f]
    BY <1>5 DEF Draws
  <2>2. att'[nextExec].node = n /\ att'[nextExec].task = t /\ OwnEntry(att'[nextExec], n, t)
    BY <1>5 DEF Draws, OwnEntry, Locked
  <2>3. Placed'
    BY <1>1, <1>3, <2>1, <2>2, PlacedKept DEF SameWork
  <2>4. Stopped'
    BY <1>1, <1>2, <2>1, <2>2, StoppedKept DEF SameWork
  <2>5. ASSUME NEW m \in Node, NEW u \in Task
        PROVE  /\ lease'[m][u] # NoExec => OwnEntry(att'[lease'[m][u]], m, u)
               /\ reg'[m][u] # NoExec => OwnEntry(att'[reg'[m][u]], m, u)
    <3>1. CASE m = n /\ u = t
      BY <1>5, <2>2, <3>1 DEF Takes
    <3>2. CASE m # n \/ u # t
      <4>1. lease'[m][u] = lease[m][u] /\ reg'[m][u] = reg[m][u]
        BY <1>5, <3>2 DEF Takes
      <4>2. lease[m][u] # nextExec /\ reg[m][u] # nextExec
        BY <2>1, NewIsUnentered
      <4> QED
        BY <2>1, <4>1, <4>2, LeaseParts
    <3> QED
      BY <3>1, <3>2
  <2>6. NoLeakedLease'
    BY <2>5, LeaseJoined
  <2> QED
    BY <2>3, <2>4, <2>6 DEF DispatchInv
<1>6. CASE nextExec \in Exec /\ Leaves(nextExec) /\ UNCHANGED <<lease, reg>>
  <2>1. att[nextExec].pc = "new"
    BY <1>6 DEF FreshExecs, Exec
  <2>2. /\ \A f \in Exec : f # nextExec => att'[f] = att[f]
        /\ att'[nextExec].node = None /\ ~Busy(att'[nextExec])
    BY <1>6 DEF Leaves, Busy
  <2>3. Placed'
    BY <1>1, <1>3, <2>2, PlacedKept DEF SameWork
  <2>4. Stopped'
    BY <1>1, <1>2, <2>2, StoppedKept DEF SameWork
  <2>5. Fewer(lease, lease') /\ Fewer(reg, reg')
    BY <1>6 DEF Fewer
  <2>6. \A f \in Exec : att[f].pc \in Locked => Continues(f)
    BY <2>1, <2>2 DEF Continues, SameWork, Locked
  <2> QED
    BY <2>3, <2>4, <2>5, <2>6, LeaseKept DEF DispatchInv
<1> QED
  BY <1>4, <1>5, <1>6, LoopShape

\* Nodes that stop, crash and start.
LEMMA DispatchNode ==
    ASSUME TypeOK, DispatchInv, NEW n \in Node, NodeStep(n)
    PROVE  DispatchInv'
<1>1. CASE Crashes(n)
  <2>1. Gone("dead").pc = "dead" /\ Gone("dead").node = None
    BY DEF Gone, NoAttempt
  <2>2. IdleLoop.pc = "scan" /\ IdleLoop.stale = {} /\ IdleLoop.due = {}
    BY DEF IdleLoop
  <2>3. \A f \in Exec : IF att[f].node = n THEN ~Busy(att'[f]) /\ att'[f].node = None ELSE att'[f] = att[f]
    BY <1>1, <2>1 DEF Crashes, Busy
  <2>4. \A m \in Node : IF m = n THEN loop'[m] = IdleLoop /\ mode'[m] = "down" ELSE loop'[m] = loop[m] /\ mode'[m] = mode[m]
    BY <1>1 DEF Crashes
  <2>5. Placed'
    BY <2>2, <2>3, <2>4, PlacedKept DEF SameWork
  <2>6. Stopped'
    <3> SUFFICES ASSUME NEW m \in Node
                 PROVE  /\ mode'[m] \in {"closing", "down"} => Quiet(m)' /\ \A e \in Exec : att'[e].node = m => att'[e].kind = "manual"
                        /\ mode'[m] = "down" => \A e \in Exec : att'[e].node # m
      BY DEF Stopped
    <3>1. CASE m = n
      BY <2>2, <2>3, <2>4, <3>1, ConstantsAssumption DEF Quiet
    <3>2. CASE m # n
      <4>1. /\ mode[m] \in {"closing", "down"} => Quiet(m) /\ \A e \in Exec : att[e].node = m => att[e].kind = "manual"
            /\ mode[m] = "down" => \A e \in Exec : att[e].node # m
        BY DEF DispatchInv, Stopped
      <4> QED
        BY <2>3, <2>4, <3>2, <4>1, ConstantsAssumption DEF Quiet
    <3> QED
      BY <3>1, <3>2
  <2>7. Fewer(lease, lease') /\ Fewer(reg, reg')
    BY <1>1 DEF Crashes, Fewer
  <2>8. ASSUME NEW f \in Exec PROVE Continues(f) \/ Unentered(f) \/ att[f].pc \notin Locked
    <3>1. CASE att[f].node = n
      <4>1. ASSUME NEW m \in Node, NEW u \in Task PROVE lease'[m][u] # f /\ reg'[m][u] # f
        <5>1. f # NoExec
          BY ExecsAreNotNoExec
        <5>2. IF m = n THEN lease'[m][u] = NoExec /\ reg'[m][u] = NoExec
              ELSE lease'[m][u] = lease[m][u] /\ reg'[m][u] = reg[m][u]
          BY <1>1, Zenon DEF Crashes
        <5>3. /\ lease[m][u] # NoExec => lease[m][u] \in Exec /\ OwnEntry(att[lease[m][u]], m, u)
              /\ reg[m][u] # NoExec => reg[m][u] \in Exec /\ OwnEntry(att[reg[m][u]], m, u)
          BY LeaseParts
        <5> QED
          BY SMTT(30), <3>1, <5>1, <5>2, <5>3 DEF OwnEntry
      <4> QED
        BY <4>1 DEF Unentered
    <3>2. CASE att[f].node # n
      BY <2>3, <3>2 DEF Continues, SameWork
    <3> QED
      BY <3>1, <3>2
  <2> QED
    BY <2>5, <2>6, <2>7, <2>8, LeaseKept DEF DispatchInv
<1>2. CASE Closes(n) /\ UNCHANGED <<reg, loop, att, faults>>
  <2>1. Placed'
    BY <1>2, PlacedKept DEF SameWork
  <2>2. \A e \in Exec : att[e].node = n => att[e].kind = "manual"
    BY <1>2 DEF Closes, Drained, TypeOK, Attempt
  <2>3. Stopped'
    <3> SUFFICES ASSUME NEW m \in Node
                 PROVE  /\ mode'[m] \in {"closing", "down"} => Quiet(m)' /\ \A e \in Exec : att'[e].node = m => att'[e].kind = "manual"
                        /\ mode'[m] = "down" => \A e \in Exec : att'[e].node # m
      BY DEF Stopped
    <3>1. CASE m = n
      <4>1. mode'[m] = "closing" /\ Quiet(n)
        BY <1>2, <3>1 DEF Closes, Drained, BetweenScans, Scanning, Quiet
      <4> QED
        BY <1>2, <2>2, <3>1, <4>1 DEF Quiet
    <3>2. CASE m # n
      <4>1. /\ mode[m] \in {"closing", "down"} => Quiet(m) /\ \A e \in Exec : att[e].node = m => att[e].kind = "manual"
            /\ mode[m] = "down" => \A e \in Exec : att[e].node # m
        BY DEF DispatchInv, Stopped
      <4>2. mode'[m] = mode[m]
        BY <1>2, <3>2 DEF Closes
      <4> QED
        BY <1>2, <4>1, <4>2 DEF Quiet
    <3> QED
      BY <3>1, <3>2
  <2>4. Fewer(lease, lease') /\ Fewer(reg, reg')
    BY <1>2 DEF Closes, Fewer
  <2>5. \A f \in Exec : att[f].pc \in Locked => Continues(f)
    BY <1>2 DEF Continues, SameWork
  <2> QED
    BY <2>1, <2>3, <2>4, <2>5, LeaseKept DEF DispatchInv
<1>3. CASE /\ UNCHANGED <<lease, lost, reg, loop, att, faults>>
           /\ \A m \in Node : m # n => mode'[m] = mode[m]
           /\ mode'[n] = "down" => mode[n] = "closing" /\ \A e \in Exec : att[e].node # n
           /\ mode'[n] # "closing"
  <2>1. Placed'
    BY <1>3, PlacedKept DEF SameWork
  <2>2. /\ Fewer(lease, lease') /\ Fewer(reg, reg')
        /\ \A f \in Exec : att[f].pc \in Locked => Continues(f)
    BY <1>3 DEF Fewer, Continues, SameWork
  <2>3. Stopped'
    <3> SUFFICES ASSUME NEW m \in Node
                 PROVE  /\ mode'[m] \in {"closing", "down"} => Quiet(m)' /\ \A e \in Exec : att'[e].node = m => att'[e].kind = "manual"
                        /\ mode'[m] = "down" => \A e \in Exec : att'[e].node # m
      BY DEF Stopped
    <3>1. /\ mode[m] \in {"closing", "down"} => Quiet(m) /\ \A e \in Exec : att[e].node = m => att[e].kind = "manual"
          /\ mode[m] = "down" => \A e \in Exec : att[e].node # m
      BY DEF DispatchInv, Stopped
    <3>2. mode'[m] = mode[m] \/ (mode'[m] \notin {"closing", "down"})
          \/ (mode[m] = "closing" /\ \A e \in Exec : att[e].node # m)
      BY <1>3 DEF TypeOK
    <3> QED
      BY <1>3, <3>1, <3>2 DEF Quiet
  <2> QED
    BY <2>1, <2>2, <2>3, LeaseKept DEF DispatchInv
<1> QED
  BY <1>1, <1>2, <1>3, NodeShape

\* Every step.
LEMMA DispatchNext ==
    ASSUME TypeOK, HolderInv, DispatchInv, [Next]_vars
    PROVE  DispatchInv'
<1>fresh. FreshExecs
  BY DEF HolderInv
<1>1. ASSUME Stays, UNCHANGED <<mode, loop, lease, reg>> PROVE DispatchInv'
  BY <1>1, DispatchStays DEF Fewer
<1>2. ASSUME UNCHANGED <<mode, loop, lease, reg, att>> PROVE DispatchInv'
  BY <1>1, <1>2 DEF Stays, SameWork
<1>3. CASE SchedulerNext /\ UNCHANGED dispVars
  <2>1. ASSUME NEW n \in Node, RenewerStep(n) PROVE DispatchInv'
    <3>1. Fewer(lease, lease')
      BY <2>1, RenewerShape DEF GivesUp, Fewer
    <3> QED
      BY <2>1, <3>1, RenewerShape, DispatchStays
  <2>2. ASSUME NEW t \in Task, ExpireLock(t) PROVE DispatchInv'
    BY <2>2, <1>2 DEF ExpireLock, nodeVars
  <2>3. ASSUME Tick PROVE DispatchInv'
    BY <2>3, <1>2 DEF Tick, nodeVars
  <2> QED
    BY <1>3, <1>fresh, <2>1, <2>2, <2>3, DispatchLoop, DispatchAttempt DEF SchedulerNext
<1>4. CASE DispatcherNext
  <2>1. ASSUME NEW n \in Node, NEW t \in Task, RequestStep(n, t) PROVE DispatchInv'
    BY <2>1, <1>1, <1>fresh, RequestShape, DispatchDraws
  <2>2. ASSUME NEW ed \in edit, WriteEdit(ed) PROVE DispatchInv'
    BY <2>2, <1>2 DEF WriteEdit, nodeVars
  <2> QED
    BY <1>4, <2>1, <2>2, DispatchManual DEF DispatcherNext
<1>5. CASE NodeNext
  BY <1>5, DispatchNode DEF NodeNext
<1>6. CASE UNCHANGED vars
  BY <1>6, <1>2 DEF vars
<1> QED
  BY <1>3, <1>4, <1>5, <1>6 DEF Next

\* At the start nothing is leased.
LEMMA DispatchInit == Init => DispatchInv
<1> SUFFICES ASSUME Init PROVE DispatchInv
  OBVIOUS
<1>1. /\ att = [e \in Exec |-> NoAttempt] /\ loop = [n \in Node |-> IdleLoop] /\ mode = [n \in Node |-> "up"]
      /\ lease = [n \in Node |-> [t \in Task |-> NoExec]] /\ reg = [n \in Node |-> [t \in Task |-> NoExec]]
  BY DEF Init, SchedulerInit
<1>2. Placed
  BY <1>1 DEF Placed, Busy, NoAttempt, IdleLoop
<1>3. Stopped /\ NoLeakedLease
  BY <1>1 DEF Stopped, NoLeakedLease
<1> QED
  BY <1>2, <1>3 DEF DispatchInv

\* DispatchInv is an invariant, with those it rests on.
LEMMA DispatchAlways == Spec => [](TypeOK /\ HolderInv /\ DispatchInv)
<1>1. TypeOK /\ HolderInv /\ DispatchInv /\ [Next]_vars => DispatchInv'
  BY DispatchNext
<1> QED
  BY <1>1, DispatchInit, TypeCorrect, HoldersAreClaimed, PTL DEF Spec

\* The renewer and the cancellation registry of a node know only scheduled executions this node has
\* in progress, whatever fails, crashes, is cancelled or is stopped: the scope guards of
\* scanAndDispatch and the cleanup of executeTask leave no lease that would be renewed for ever.
THEOREM LeasesAreInUse == Spec => []NoLeakedLease
<1>1. DispatchInv => NoLeakedLease
  BY DEF DispatchInv
<1> QED
  BY <1>1, DispatchAlways, PTL

\* What a step may do to the entries of an execution.
OwnCleanup ==
    \A n \in Node, t \in Task, e \in Exec :
        /\ reg[n][t] = e => reg'[n][t] # NoExec \/ att'[e].pc \in {"unlock", "done", "dead"}
        /\ lease[n][t] = e => lease'[n][t] # NoExec \/ att'[e].pc \in {"unlock", "done", "dead"}
                                                    \/ <<t, e>> \in lost[n]

\* No step takes the entry of an execution that goes on, unless the renewer found its lock lost.
LEMMA CleanupStep ==
    ASSUME TypeOK, DispatchInv, Next
    PROVE  OwnCleanup
<1>exec. NoExec \notin Exec
  BY ExecsAreNotNoExec
<1>1. ASSUME UNCHANGED <<lease, reg>> PROVE OwnCleanup
  BY <1>1, <1>exec DEF OwnCleanup
<1>2. ASSUME NEW n \in Node, LoopStep(n) PROVE OwnCleanup
  <2>1. ASSUME NEW t \in Task, Takes(n, t), nextExec \in Exec PROVE OwnCleanup
    <3> SUFFICES ASSUME NEW m \in Node, NEW u \in Task
                 PROVE  /\ reg'[m][u] = reg[m][u] \/ reg'[m][u] # NoExec
                        /\ lease'[m][u] = lease[m][u] \/ lease'[m][u] # NoExec
      BY <1>exec DEF OwnCleanup
    <3>1. nextExec # NoExec
      BY <2>1, <1>exec
    <3> QED
      BY <2>1, <3>1 DEF Takes
  <2> QED
    BY <1>1, <1>2, <2>1, LoopShape DEF Draws
<1>3. ASSUME NEW e \in Exec, AttemptStep(e) PROVE OwnCleanup
  <2>1. CASE /\ att'[e].pc \in {"unlock", "done"}
             /\ Dropped(lease, lease', att[e].node, att[e].task, e) /\ Dropped(reg, reg', att[e].node, att[e].task, e)
    <3> SUFFICES ASSUME NEW m \in Node, NEW u \in Task, NEW f \in Exec, f # e
                 PROVE  (reg[m][u] = f => reg'[m][u] = f) /\ (lease[m][u] = f => lease'[m][u] = f)
      BY <2>1, <1>exec DEF OwnCleanup
    <3> QED
      BY <2>1 DEF Dropped
  <2> QED
    BY <1>1, <1>3, <2>1, AttemptShape DEF Moves, Leaves
<1>4. ASSUME NEW n \in Node, RenewerStep(n) PROVE OwnCleanup
  <2>1. CASE UNCHANGED lease
    BY <1>1, <1>4, <2>1, RenewerShape
  <2>2. CASE UNCHANGED reg /\ GivesUp(n)
    <3> SUFFICES ASSUME NEW m \in Node, NEW u \in Task, NEW e \in Exec
                 PROVE  /\ reg[m][u] = e => reg'[m][u] = e
                        /\ lease[m][u] = e => lease'[m][u] = e \/ <<u, e>> \in lost[m]
      BY <1>exec DEF OwnCleanup
    <3> QED
      BY <2>2, Zenon DEF GivesUp
  <2> QED
    BY <1>4, <2>1, <2>2, RenewerShape
<1>5. ASSUME NEW n \in Node, NodeStep(n) PROVE OwnCleanup
  <2>1. CASE Crashes(n)
    <3>1. \A f \in Exec : att[f].node = n => att'[f].pc = "dead"
      BY <2>1 DEF Crashes, Gone, NoAttempt
    <3> SUFFICES ASSUME NEW m \in Node, NEW u \in Task, NEW e \in Exec
                 PROVE  /\ reg[m][u] = e => reg'[m][u] # NoExec \/ att'[e].pc = "dead"
                        /\ lease[m][u] = e => lease'[m][u] # NoExec \/ att'[e].pc = "dead"
      BY DEF OwnCleanup
    <3>2. e # NoExec
      BY <1>exec
    <3>3. m # n => lease'[m][u] = lease[m][u] /\ reg'[m][u] = reg[m][u]
      BY <2>1, Zenon DEF Crashes
    <3>4. /\ lease[m][u] # NoExec => lease[m][u] \in Exec /\ OwnEntry(att[lease[m][u]], m, u)
          /\ reg[m][u] # NoExec => reg[m][u] \in Exec /\ OwnEntry(att[reg[m][u]], m, u)
      BY LeaseParts
    <3> QED
      BY <3>1, <3>2, <3>3, <3>4 DEF OwnEntry
  <2>2. CASE Closes(n) /\ UNCHANGED reg
    <3> SUFFICES ASSUME NEW m \in Node, NEW u \in Task PROVE lease'[m][u] = lease[m][u]
      BY <2>2, <1>exec DEF OwnCleanup
    <3>1. lease[m][u] # NoExec => lease[m][u] \in Exec /\ OwnEntry(att[lease[m][u]], m, u)
      BY LeaseParts
    <3>2. lease[n][u] # NoExec => m # n
      BY <2>2, <3>1 DEF Closes, Drained, OwnEntry
    <3> QED
      BY <2>2, <3>2 DEF Closes
  <2> QED
    BY <1>1, <1>5, <2>1, <2>2, NodeShape
<1>6. ASSUME NEW t \in Task, ExpireLock(t) PROVE OwnCleanup
  BY <1>1, <1>6 DEF ExpireLock, nodeVars
<1>7. ASSUME Tick PROVE OwnCleanup
  BY <1>1, <1>7 DEF Tick, nodeVars
<1>8. ASSUME NEW ed \in edit, WriteEdit(ed) PROVE OwnCleanup
  BY <1>1, <1>8 DEF WriteEdit, nodeVars
<1> QED
  BY <1>1, <1>2, <1>3, <1>4, <1>5, <1>6, <1>7, <1>8, RequestShape, ManualShape
     DEF Next, SchedulerNext, DispatcherNext, NodeNext

\* Cleaning up after an execution removes only that execution's lease and registration
\* (LockRenewer::remove and TaskCancellationRegistry::unregisterTask compare the execution id); a lease
\* goes away otherwise only with its process or when the renewer has found the lock lost.
THEOREM CleanupTakesItsOwn == Spec => CleanupIsOwn
<1>1. TypeOK /\ DispatchInv /\ [Next]_vars => [OwnCleanup]_vars
  BY CleanupStep
<1>2. Spec => [][OwnCleanup]_vars
  BY <1>1, DispatchAlways, PTL DEF Spec
<1> QED
  BY <1>2 DEF CleanupIsOwn, OwnCleanup
=============================================================================
