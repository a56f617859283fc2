---------------------------- MODULE JobRefinement ----------------------------
(* JobLifecycle implements JobContract: the worker task is the execution, the  *)
(* status column of agent_jobs the record.                                     *)
EXTENDS JobLifecycle

ExecutionOf(j) ==
    IF worker[j] \in {"none", "finished"}
    THEN IF worker[j] = "none" THEN "none" ELSE "ended"
    ELSE "running"

Contract == INSTANCE JobContract WITH
                execution <- [j \in Jobs |-> ExecutionOf(j)],
                record <- db

\* Whatever the scheduler, the workers, the stop calls and the helpers do to a
\* job is, from outside, a step of JobContract or nothing: a job is executed at
\* most once and only with a row, an outcome is recorded by the execution that
\* reached it, in the same step, and is never recorded over, not even over a
\* cancellation, and every execution ends (schedule_with_context,
\* persist_terminal_result_and_status, persist_cancelled_status).
ImplementsContract == Contract!FairSpec
=============================================================================
