------------------------------- MODULE TaskStore -------------------------------
(***************************************************************************)
(* The `tasks` table as MySQLClient reads and writes it                    *)
(* (src/mysql/mysql_client.cpp).  Each operator is one SQL statement: it   *)
(* maps a row to the row the statement leaves behind, its WHERE clause     *)
(* included, so a statement that matches nothing returns the row it got.   *)
(*                                                                         *)
(* Kept of a row: what the control plane branches on.  cron_expr, params,  *)
(* handler, last_run_at, running_node and started_at are only copied.      *)
(***************************************************************************)
EXTENDS Integers

NoExec == 0     \* current_execution_id IS NULL
NoTime == -1    \* an empty expected_next_run_at: do not compare the schedule

\* TaskStatus, and the two ways of not being in the table: a task id is a uuid
\* that is drawn once, so a deleted id is never inserted again.
Stored   == {"disabled", "scheduled", "running"}
Statuses == Stored \cup {"unborn", "deleted"}

Row == [status : Statuses, next : Nat, retry : Nat, max : Nat, exec : Nat]

NoRow == [status |-> "unborn", next |-> 0, retry |-> 0, max |-> 0, exec |-> NoExec]

Exists(r)     == r.status \in Stored
NotRunning(r) == r.status \in {"disabled", "scheduled"}   \* ... WHERE id=? AND status<>RUNNING
IsDue(r, now) == r.status = "scheduled" /\ r.next <= now  \* getDueTasks

-----------------------------------------------------------------------------

addTask(next, max) ==
    [status |-> "scheduled", next |-> next, retry |-> 0, max |-> max, exec |-> NoExec]

\* The execution columns are not in its SET list.
updateTaskDefinition(r, status, next, retry, max) ==
    IF NotRunning(r)
    THEN [r EXCEPT !.status = status, !.next = next, !.retry = retry, !.max = max]
    ELSE r

updateTaskRuntime(r, status, next, retry) ==
    IF NotRunning(r)
    THEN [r EXCEPT !.status = status, !.next = next, !.retry = retry, !.exec = NoExec]
    ELSE r

\* Mutant: WHERE id=? alone.
deleteTask_Unguarded(r) == [NoRow EXCEPT !.status = "deleted"]

deleteTask(r) == IF NotRunning(r) THEN [NoRow EXCEPT !.status = "deleted"] ELSE r

cancelTask(r) ==
    IF Exists(r) THEN [r EXCEPT !.status = "disabled", !.exec = NoExec] ELSE r

\* Mutant: the schedule is not compared.
ClaimMatches_StatusOnly(r, expectedStatus, expectedNext, now) == r.status = expectedStatus

\* The WHERE clause of claimTaskExecution, with and without the schedule.
ClaimMatches(r, expectedStatus, expectedNext, now) ==
    /\ r.status = expectedStatus
    /\ expectedNext # NoTime => r.next = expectedNext /\ r.next <= now

claimTaskExecution(r, e) == [r EXCEPT !.status = "running", !.exec = e]

\* Mutant: WHERE id=? alone.
completeTaskExecution_Unfenced(r, e, status, next, retry) ==
    [r EXCEPT !.status = status, !.next = next, !.retry = retry, !.exec = NoExec]

completeTaskExecution(r, e, status, next, retry) ==
    IF r.status = "running" /\ r.exec = e
    THEN [r EXCEPT !.status = status, !.next = next, !.retry = retry, !.exec = NoExec]
    ELSE r

\* Mutants: the execution id is left in the row; the status in the WHERE clause is the new one.
recoverTaskExecution_KeepsId(r, e) ==
    IF r.status = "running" /\ r.exec = e THEN [r EXCEPT !.status = "scheduled"] ELSE r
recoverTaskExecution_NeverMatches(r, e) ==
    IF r.status = "scheduled" /\ r.exec = e THEN [r EXCEPT !.exec = NoExec] ELSE r

recoverTaskExecution(r, e) ==
    IF r.status = "running" /\ r.exec = e
    THEN [r EXCEPT !.status = "scheduled", !.exec = NoExec]
    ELSE r
=============================================================================
