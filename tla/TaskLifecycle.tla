----------------------------- MODULE TaskLifecycle -----------------------------
(***************************************************************************)
(* What the `tasks` table promises about executions, whatever the nodes,   *)
(* the locks and the failures do: a task is held by one execution at a     *)
(* time, and an execution id holds a task once, for one stretch of time.   *)
(* That is what makes current_execution_id a fencing token: an execution   *)
(* that lost its row can not come to hold one again, so its late           *)
(* completion matches nothing.  ControlPlane implements this module.       *)
(***************************************************************************)
CONSTANTS Task, Exec, NoExec

VARIABLES
    status,     \* task: its status, or unborn / deleted
    holder,     \* task: the execution that holds it
    used        \* executions that have held a task, or never will

lifeVars == <<status, holder, used>>

Init ==
    /\ status = [t \in Task |-> "unborn"]
    /\ holder = [t \in Task |-> NoExec]
    /\ used = {}

Submit(t) ==
    /\ status[t] = "unborn"
    /\ status' = [status EXCEPT ![t] = "scheduled"]
    /\ UNCHANGED <<holder, used>>

\* The scheduler claims a scheduled task; RunTaskNow may claim a disabled one.
Claim(t, e) ==
    /\ status[t] \in {"scheduled", "disabled"} /\ e \notin used
    /\ status' = [status EXCEPT ![t] = "running"]
    /\ holder' = [holder EXCEPT ![t] = e]
    /\ used' = used \cup {e}

\* Completed, put back, recovered or cancelled.
Release(t, s) ==
    /\ status[t] = "running"
    /\ status' = [status EXCEPT ![t] = s]
    /\ holder' = [holder EXCEPT ![t] = NoExec]
    /\ UNCHANGED used

\* Cancelled, enabled, updated or skipped while nobody holds it.
Switch(t, s) ==
    /\ status[t] \in {"scheduled", "disabled"}
    /\ status' = [status EXCEPT ![t] = s]
    /\ UNCHANGED <<holder, used>>

Delete(t) ==
    /\ status[t] \in {"scheduled", "disabled"}
    /\ status' = [status EXCEPT ![t] = "deleted"]
    /\ UNCHANGED <<holder, used>>

\* Executions that give up before they claim anything.
Discard(S) == used' = used \cup S /\ UNCHANGED <<status, holder>>

Next ==
    \/ \E t \in Task : Submit(t) \/ Delete(t)
    \/ \E t \in Task, e \in Exec : Claim(t, e)
    \/ \E t \in Task, s \in {"scheduled", "disabled"} : Release(t, s) \/ Switch(t, s)
    \/ \E S \in SUBSET Exec : Discard(S)

Spec == Init /\ [][Next]_lifeVars
=============================================================================
