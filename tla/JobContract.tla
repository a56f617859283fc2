----------------------------- MODULE JobContract -----------------------------
(***************************************************************************)
(* What the scheduler and its workers promise of a job, seen from outside: *)
(* whether the job is being executed, and what the store says of it.  No   *)
(* locks, maps, histories or channels.  JobRefinement shows that           *)
(* JobLifecycle implements this.                                           *)
(***************************************************************************)
CONSTANT Jobs

VARIABLES execution,    \* "none", "running" or "ended"
          record        \* the status column, "absent" before there is a row

vars == <<execution, record>>

Outcomes == {"Completed", "Failed"}

Init ==
    /\ execution = [j \in Jobs |-> "none"]
    /\ record = [j \in Jobs |-> "absent"]

\* The row is written before the job is executed; a cancellation may overtake it.
Accept(j, status) ==
    /\ execution[j] = "none" /\ record[j] = "absent"
    /\ record' = [record EXCEPT ![j] = status]
    /\ UNCHANGED execution

\* A job is executed at most once, and only after it has a row.
Begin(j) ==
    /\ execution[j] = "none" /\ record[j] # "absent"
    /\ execution' = [execution EXCEPT ![j] = "running"]
    /\ UNCHANGED record

\* The execution ends and its status becomes durable in one step.  A job recorded
\* as cancelled can still be recorded as stuck, never as a success or failure.
Settle(j, status) ==
    /\ execution[j] = "running"
    /\ record[j] \notin Outcomes
    /\ record[j] = "Cancelled" => status = "Stuck"
    /\ execution' = [execution EXCEPT ![j] = "ended"]
    /\ record' = [record EXCEPT ![j] = status]

\* The execution ends without a status: stopped, aborted, panicked or unable to
\* write.
GiveUp(j) ==
    /\ execution[j] = "running"
    /\ execution' = [execution EXCEPT ![j] = "ended"]
    /\ UNCHANGED record

\* A stop records the cancellation of a job that was executed, unless the job has
\* an outcome.
Cancel(j) ==
    /\ execution[j] # "none"
    /\ record[j] \notin Outcomes
    /\ record' = [record EXCEPT ![j] = "Cancelled"]
    /\ UNCHANGED execution

End(j) ==
    \/ \E status \in Outcomes \cup {"Stuck"} : Settle(j, status)
    \/ GiveUp(j)

Next ==
    \E j \in Jobs :
        \/ \E status \in {"Pending", "Cancelled"} : Accept(j, status)
        \/ Begin(j) \/ End(j) \/ Cancel(j)

Spec == Init /\ [][Next]_vars

\* Every execution that began ends.
FairSpec == Spec /\ \A j \in Jobs : WF_vars(End(j))
=============================================================================
