---------------------------- MODULE JobLifecycle ----------------------------
(* The life of in-process agent jobs: ContextManager (context/manager.rs),     *)
(* Scheduler (agent/scheduler/*.rs), Worker (worker/job/*.rs), and the callers *)
(* that act on a job from outside: stop, stop_all, the cancel_job tool, the    *)
(* help command and the self-repair task.                                      *)
(*                                                                             *)
(* Each action is what one task does between two points where another task     *)
(* can run: a critical section under the contexts lock or under the jobs lock, *)
(* or the return of a database call.  Payloads, metadata, token budgets and    *)
(* timestamps are left out; what the worker does while it runs is WorkerLoop.  *)
EXTENDS JobState, FiniteSets

CONSTANTS
    Jobs,               \* job ids that may be allocated
    MaxJobs,            \* ContextManager.max_jobs
    MaxParallelJobs,    \* config.max_parallel_jobs
    MaxRepairAttempts,  \* DefaultSelfRepair.max_repair_attempts
    Callers             \* the outside callers present in this instance

ASSUME LimitAssumption ==
    /\ IsFiniteSet(Jobs)
    /\ MaxJobs \in Nat /\ MaxParallelJobs \in Nat /\ MaxRepairAttempts \in Nat
    /\ Callers \subseteq {"stop", "stop_all", "cancel_job", "help", "repair"}

VARIABLES
    state, transitions, repair_attempts,    \* JobContext, "absent" before it exists
    jobs,       \* Scheduler.jobs: "absent", "tracked", or "pinned"
                \* (pending_cancel_persist)
    worker,     \* where the spawned worker task is; "finished" is is_finished()
    outcome,    \* the terminal state the worker is settling on
    previous,   \* transition_terminal_state's result, kept for the rollback
    stopSent,   \* a Stop message is in the worker's channel
    aborted,    \* handle.abort() has been called
    db,         \* the status column of agent_jobs
    dispatch,   \* progress of dispatch_job_inner for this id
    cleanup,    \* the task spawn_cleanup_task starts
    stop,       \* progress of a stop() call on this job
    stopAll,    \* what stop_all is doing for this job
    shutdown,   \* progress of stop_all itself
    help,       \* progress of a help command for this job
    repair      \* the self-repair task's snapshot of repair_attempts, or -1

ctxVars == <<state, transitions, repair_attempts>>
workerVars == <<worker, outcome, previous, stopSent, aborted>>
stopVars == <<stop, stopAll, shutdown>>
helperVars == <<help, repair>>
vars == <<ctxVars, jobs, workerVars, db, dispatch, cleanup, stopVars, helperVars>>

Settled == {"Completed", "Failed", "Stuck"}     \* what a worker may settle on
Live == {"running", "checking", "marking", "persisting", "rollback"}

WorkerPC == Live \cup {"none", "finished"}
DispatchPC == {"idle", "created", "saved", "done"}
CleanupPC == {"none", "polling", "removing", "done"}
StopPC == {"idle", "cancel", "pin", "persist", "finalize"}
StopAllPC ==
    StopPC \cup {"signal", "joined", "timedout", "recancel", "repin", "settled"}
ShutdownPC == {"no", "stopping", "settling", "done"}

Init ==
    /\ state = [j \in Jobs |-> "absent"]
    /\ transitions = [j \in Jobs |-> <<>>]
    /\ repair_attempts = [j \in Jobs |-> 0]
    /\ jobs = [j \in Jobs |-> "absent"]
    /\ worker = [j \in Jobs |-> "none"]
    /\ outcome = [j \in Jobs |-> "Completed"]
    /\ previous = [j \in Jobs |-> "Pending"]
    /\ stopSent = [j \in Jobs |-> FALSE]
    /\ aborted = [j \in Jobs |-> FALSE]
    /\ db = [j \in Jobs |-> "absent"]
    /\ dispatch = [j \in Jobs |-> "idle"]
    /\ cleanup = [j \in Jobs |-> "none"]
    /\ stop = [j \in Jobs |-> "idle"]
    /\ stopAll = [j \in Jobs |-> "idle"]
    /\ shutdown = "no"
    /\ help = [j \in Jobs |-> "idle"]
    /\ repair = [j \in Jobs |-> -1]

-----------------------------------------------------------------------------
(* Updates of a job context, each made under the contexts write lock.          *)

ActiveJobs == {j \in Jobs : IsActive(state[j])}
TrackedJobs == {j \in Jobs : jobs[j] # "absent"}

\* JobContext::transition_to, when it returns Ok.
TransitionTo(j, t) ==
    /\ CanTransitionTo(state[j], t)
    /\ transitions' = [transitions EXCEPT ![j] = Push(@, <<state[j], t>>)]
    /\ state' = [state EXCEPT ![j] = t]

\* Mutant: the rollback does not check the newest transition.
SetStateRollback_Unchecked(j, s) ==
    /\ state' = [state EXCEPT ![j] = s]
    /\ transitions' = [transitions EXCEPT ![j] = Pop(@)]
    /\ UNCHANGED repair_attempts

\* JobContext::set_state_rollback: undo the newest transition if it leads from s
\* to the current state, otherwise do nothing.
SetStateRollback(j, s) ==
    IF MatchesRollback(transitions[j], state[j], s)
    THEN /\ state' = [state EXCEPT ![j] = s]
         /\ transitions' = [transitions EXCEPT ![j] = Pop(@)]
         /\ UNCHANGED repair_attempts
    ELSE UNCHANGED ctxVars

\* JobContext::attempt_recovery, when it returns Ok.
AttemptRecovery(j) ==
    /\ state[j] = "Stuck"
    /\ repair_attempts' = [repair_attempts EXCEPT ![j] = @ + 1]
    /\ TransitionTo(j, "InProgress")

-----------------------------------------------------------------------------
(* dispatch_job_inner                                                          *)

\* create_job_for_user: check and insert under one lock.  When the limit is
\* reached the call fails and no id exists, so there is nothing to record.
CreateJob(j) ==
    /\ state[j] = "absent"
    /\ Cardinality(ActiveJobs) < MaxJobs
    /\ state' = [state EXCEPT ![j] = "Pending"]
    /\ dispatch' = [dispatch EXCEPT ![j] = "created"]
    /\ UNCHANGED <<transitions, repair_attempts, jobs, workerVars, db, cleanup,
                   stopVars, helperVars>>

\* save_job of a snapshot of the context, which a cancellation may overtake; on
\* an error dispatch returns and the context stays.
SaveJob(j) ==
    /\ dispatch[j] = "created"
    /\ \/ /\ \E snapshot \in {"Pending", state[j]} :
                db' = [db EXCEPT ![j] = snapshot]
          /\ dispatch' = [dispatch EXCEPT ![j] = "saved"]
       \/ /\ dispatch' = [dispatch EXCEPT ![j] = "done"]
          /\ UNCHANGED db
    /\ UNCHANGED <<ctxVars, jobs, workerVars, cleanup, stopVars, helperVars>>

HasCapacity == Cardinality(TrackedJobs) < MaxParallelJobs

TrackWorker(j) ==
    /\ jobs' = [jobs EXCEPT ![j] = "tracked"]
    /\ worker' = [worker EXCEPT ![j] = "running"]
    /\ cleanup' = [cleanup EXCEPT ![j] = "polling"]
    /\ UNCHANGED <<repair_attempts, outcome, previous, stopSent, aborted>>

\* Mutant: a refused transition is ignored instead of returned as an error.
SpawnWorker_IgnoresState(j) ==
    /\ jobs[j] = "absent"
    /\ HasCapacity
    /\ state' = [state EXCEPT ![j] = "InProgress"]
    /\ TrackWorker(j)
    /\ UNCHANGED transitions

\* schedule_with_context, when it gets as far as spawning: the checks, the
\* transition, the spawn, the Start message and the insert are one critical
\* section of the jobs lock; the cleanup task starts right after it.
SpawnWorker(j) ==
    /\ jobs[j] = "absent"
    /\ HasCapacity
    /\ TransitionTo(j, "InProgress")
    /\ TrackWorker(j)

\* The early returns of schedule_with_context: Ok if the job is already in the
\* map, an error if the map is full or the transition is illegal.
SpawnRefused(j) ==
    /\ \/ jobs[j] # "absent"
       \/ ~HasCapacity
       \/ ~CanTransitionTo(state[j], "InProgress")
    /\ UNCHANGED <<ctxVars, jobs, workerVars, cleanup>>

ScheduleJob(j) ==
    /\ dispatch[j] = "saved"
    /\ SpawnWorker(j) \/ SpawnRefused(j)
    /\ dispatch' = [dispatch EXCEPT ![j] = "done"]
    /\ UNCHANGED <<db, stopVars, helperVars>>

-----------------------------------------------------------------------------
(* The worker task: Worker::run after the Start message                        *)

Finish(j) ==
    /\ worker' = [worker EXCEPT ![j] = "finished"]
    /\ UNCHANGED <<outcome, previous, stopSent, aborted>>

\* execution_loop returns.  Done: the model signalled completion.  Error: an
\* LLM, budget or iteration-cap error, settled by mark_failed.  Timeout: the
\* job timeout elapsed, settled by mark_stuck.
RunEnds(j) ==
    /\ worker[j] = "running"
    /\ \E t \in Settled :
          /\ outcome' = [outcome EXCEPT ![j] = t]
          /\ worker' = [worker EXCEPT
                          ![j] = IF t = "Completed" THEN "checking" ELSE "marking"]
    /\ UNCHANGED <<previous, stopSent, aborted, ctxVars, jobs, db, dispatch,
                   cleanup, stopVars, helperVars>>

\* execution_loop returns Exited: check_signals saw a Stop message, or a state
\* in which there is nothing left to do.
RunExits(j) ==
    /\ worker[j] = "running"
    /\ stopSent[j] \/ state[j] \in Settled \cup {"Cancelled", "Submitted", "Accepted"}
    /\ Finish(j)
    /\ UNCHANGED <<ctxVars, jobs, db, dispatch, cleanup, stopVars, helperVars>>

\* A tool that panics on the worker's own task ends it with nothing settled.
RunPanics(j) ==
    /\ worker[j] = "running"
    /\ Finish(j)
    /\ UNCHANGED <<ctxVars, jobs, db, dispatch, cleanup, stopVars, helperVars>>

\* mark_completed_if_active reads the state first, and leaves a job alone that
\* is terminal, completed or stuck.
CheckActive(j) ==
    /\ worker[j] = "checking"
    /\ IF IsTerminal(state[j]) \/ state[j] \in {"Completed", "Stuck"}
       THEN Finish(j)
       ELSE /\ worker' = [worker EXCEPT ![j] = "marking"]
            /\ UNCHANGED <<outcome, previous, stopSent, aborted>>
    /\ UNCHANGED <<ctxVars, jobs, db, dispatch, cleanup, stopVars, helperVars>>

\* Mutant: the state is set without the re-check and without transition_to.
MarkTerminal_Unchecked(j) ==
    /\ worker[j] = "marking"
    /\ state' = [state EXCEPT ![j] = outcome[j]]
    /\ transitions' = [transitions EXCEPT ![j] = Push(@, <<state[j], outcome[j]>>)]
    /\ previous' = [previous EXCEPT ![j] = state[j]]
    /\ worker' = [worker EXCEPT ![j] = "persisting"]
    /\ UNCHANGED <<repair_attempts, outcome, stopSent, aborted, jobs, db, dispatch,
                   cleanup, stopVars, helperVars>>

\* transition_terminal_state: re-check and transition under one lock.  A refusal
\* ends the worker with an error.
MarkTerminal(j) ==
    /\ worker[j] = "marking"
    /\ IF \/ state[j] \in Settled \cup {"Cancelled"}
          \/ ~CanTransitionTo(state[j], outcome[j])
       THEN Finish(j) /\ UNCHANGED ctxVars
       ELSE /\ TransitionTo(j, outcome[j])
            /\ previous' = [previous EXCEPT ![j] = state[j]]
            /\ worker' = [worker EXCEPT ![j] = "persisting"]
            /\ UNCHANGED <<repair_attempts, outcome, stopSent, aborted>>
    /\ UNCHANGED <<jobs, db, dispatch, cleanup, stopVars, helperVars>>

\* persist_terminal_result_and_status commits event and status together.
PersistOutcome(j) ==
    /\ worker[j] = "persisting"
    /\ db' = [db EXCEPT ![j] = outcome[j]]
    /\ Finish(j)
    /\ UNCHANGED <<ctxVars, jobs, dispatch, cleanup, stopVars, helperVars>>

\* Mutant: a failed write is reported but not rolled back.
PersistFails_NoRollback(j) ==
    /\ worker[j] = "persisting"
    /\ Finish(j)
    /\ UNCHANGED <<ctxVars, jobs, db, dispatch, cleanup, stopVars, helperVars>>

\* The transaction fails; rollback_context is still to run.  A failed write is
\* assumed to have written nothing, here and in stop: the code treats it so, but a
\* commit whose answer is lost would have.
PersistFails(j) ==
    /\ worker[j] = "persisting"
    /\ worker' = [worker EXCEPT ![j] = "rollback"]
    /\ UNCHANGED <<outcome, previous, stopSent, aborted, ctxVars, jobs, db,
                   dispatch, cleanup, stopVars, helperVars>>

\* rollback_context, after which the error is returned and the worker ends.
RollbackContext(j) ==
    /\ worker[j] = "rollback"
    /\ SetStateRollback(j, previous[j])
    /\ Finish(j)
    /\ UNCHANGED <<jobs, db, dispatch, cleanup, stopVars, helperVars>>

\* An aborted task is dropped at one of its awaits.  A write that was in flight
\* may or may not have been committed.
AbortTakesEffect(j) ==
    /\ aborted[j] /\ worker[j] \in Live
    /\ \/ UNCHANGED db
       \/ worker[j] = "persisting" /\ db' = [db EXCEPT ![j] = outcome[j]]
    /\ Finish(j)
    /\ UNCHANGED <<ctxVars, jobs, dispatch, cleanup, stopVars, helperVars>>

WorkerStep(j) ==
    \/ RunEnds(j) \/ RunExits(j) \/ RunPanics(j)
    \/ CheckActive(j) \/ MarkTerminal(j)
    \/ PersistOutcome(j) \/ PersistFails(j) \/ RollbackContext(j)
    \/ AbortTakesEffect(j)

-----------------------------------------------------------------------------
(* spawn_cleanup_task: the decision under the read lock, the removal later     *)
(* under the write lock                                                        *)

\* Mutant: the entry is dropped without waiting for the worker.
ShouldRemove_Unfinished(j) == jobs[j] # "pinned"

ShouldRemove(j) ==
    \/ jobs[j] = "absent"
    \/ jobs[j] = "tracked" /\ worker[j] = "finished"

CleanupDecides(j) ==
    /\ cleanup[j] = "polling"
    /\ ShouldRemove(j)
    /\ cleanup' = [cleanup EXCEPT ![j] = "removing"]
    /\ UNCHANGED <<ctxVars, jobs, workerVars, db, dispatch, stopVars, helperVars>>

CleanupRemoves(j) ==
    /\ cleanup[j] = "removing"
    /\ jobs' = [jobs EXCEPT ![j] = "absent"]
    /\ cleanup' = [cleanup EXCEPT ![j] = "done"]
    /\ UNCHANGED <<ctxVars, workerVars, db, dispatch, stopVars, helperVars>>

CleanupStep(j) == CleanupDecides(j) \/ CleanupRemoves(j)

-----------------------------------------------------------------------------
(* The critical sections that stop and stop_all are built from                 *)

\* stop_in_memory up to the end of the grace period: the entry must exist; the
\* Stop message is sent, or the send fails or times out, which is only logged.
SignalStop(j) ==
    /\ jobs[j] # "absent"
    /\ \/ stopSent' = [stopSent EXCEPT ![j] = TRUE]
       \/ UNCHANGED stopSent
    /\ UNCHANGED <<ctxVars, jobs, worker, outcome, previous, aborted, db, dispatch,
                   cleanup, helperVars>>

\* transition_to_cancelled succeeds on a job that is already cancelled.
CanCancel(j) == state[j] = "Cancelled" \/ CanTransitionTo(state[j], "Cancelled")

\* Mutant: the job is cancelled whatever its state.
TransitionToCancelled_Forced(j) ==
    /\ state' = [state EXCEPT ![j] = "Cancelled"]
    /\ transitions' = [transitions EXCEPT ![j] = Push(@, <<state[j], "Cancelled">>)]
    /\ UNCHANGED <<repair_attempts, jobs, workerVars, db, dispatch, cleanup,
                   helperVars>>

\* transition_to_cancelled, Ok or InvalidTransition.
TransitionToCancelled(j) ==
    /\ IF CanTransitionTo(state[j], "Cancelled")
       THEN TransitionTo(j, "Cancelled") ELSE UNCHANGED <<state, transitions>>
    /\ UNCHANGED <<repair_attempts, jobs, workerVars, db, dispatch, cleanup,
                   helperVars>>

Abort(j) ==
    /\ aborted' = [aborted EXCEPT
                     ![j] = @ \/ (jobs[j] # "absent" /\ worker[j] # "finished")]
    /\ UNCHANGED <<worker, outcome, previous, stopSent>>

\* pin_cancel_persist_and_abort: nothing if the entry is gone.
PinCancelPersistAndAbort(j) ==
    /\ jobs' = [jobs EXCEPT ![j] = IF @ = "absent" THEN @ ELSE "pinned"]
    /\ Abort(j)
    /\ UNCHANGED <<ctxVars, db, dispatch, cleanup, helperVars>>

\* persist_cancelled_status: update_job_status with no condition on the row.
PersistCancelled(j) ==
    /\ db' = [db EXCEPT ![j] = "Cancelled"]
    /\ UNCHANGED <<ctxVars, jobs, workerVars, dispatch, cleanup, helperVars>>

\* Mutant: the entry of a worker that has finished is left in the map.
FinalizeStop_KeepsFinished(j) ==
    /\ jobs' = [jobs EXCEPT ![j] = IF worker[j] = "finished" THEN @ ELSE "absent"]
    /\ Abort(j)
    /\ UNCHANGED <<ctxVars, db, dispatch, cleanup, helperVars>>

FinalizeStop(j) ==
    /\ jobs' = [jobs EXCEPT ![j] = "absent"]
    /\ Abort(j)
    /\ UNCHANGED <<ctxVars, db, dispatch, cleanup, helperVars>>

NoJobChange == UNCHANGED <<ctxVars, jobs, workerVars, db, dispatch, cleanup, helperVars>>

-----------------------------------------------------------------------------
(* stop(job_id): cancel command, web cancel handler                            *)

StopGoes(j, from, to) ==
    /\ stop[j] = from
    /\ stop' = [stop EXCEPT ![j] = to]
    /\ UNCHANGED <<stopAll, shutdown>>

StopBegins(j) == "stop" \in Callers /\ StopGoes(j, "idle", "cancel") /\ SignalStop(j)

StopCancels(j) ==
    /\ StopGoes(j, "cancel", IF CanCancel(j) THEN "pin" ELSE "idle")
    /\ TransitionToCancelled(j)

StopPins(j) == StopGoes(j, "pin", "persist") /\ PinCancelPersistAndAbort(j)

StopPersists(j) == StopGoes(j, "persist", "finalize") /\ PersistCancelled(j)

\* Nothing was written; the error is returned to the caller, who may call stop
\* again.
StopPersistFails(j) == StopGoes(j, "persist", "idle") /\ NoJobChange

StopFinalizes(j) == StopGoes(j, "finalize", "idle") /\ FinalizeStop(j)

StopStep(j) ==
    \/ StopCancels(j) \/ StopPins(j) \/ StopPersists(j) \/ StopPersistFails(j)
    \/ StopFinalizes(j)

-----------------------------------------------------------------------------
(* stop_all: every tracked job is stopped in memory concurrently, under a      *)
(* timeout each; the results are then settled one after the other              *)

\* The ids are read from the map once.
StopAllBegins ==
    /\ "stop_all" \in Callers
    /\ shutdown = "no"
    /\ shutdown' = "stopping"
    /\ stopAll' = [j \in Jobs |-> IF jobs[j] = "absent" THEN "idle" ELSE "signal"]
    /\ UNCHANGED stop
    /\ NoJobChange

StopAllGoes(j, phase, from, to) ==
    /\ shutdown = phase
    /\ stopAll[j] = from
    /\ stopAll' = [stopAll EXCEPT ![j] = to]
    /\ UNCHANGED <<stop, shutdown>>

StopAllSignals(j) == StopAllGoes(j, "stopping", "signal", "cancel") /\ SignalStop(j)

\* stop_in_memory finds no entry: a NotFound error, only logged.
StopAllMisses(j) ==
    /\ jobs[j] = "absent"
    /\ StopAllGoes(j, "stopping", "signal", "settled")
    /\ NoJobChange

StopAllCancels(j) ==
    /\ StopAllGoes(j, "stopping", "cancel",
                   IF CanCancel(j) THEN "pin" ELSE "settled")
    /\ TransitionToCancelled(j)

StopAllPins(j) ==
    StopAllGoes(j, "stopping", "pin", "joined") /\ PinCancelPersistAndAbort(j)

\* The 5s timeout drops stop_in_memory wherever it is waiting.
StopAllTimesOut(j) ==
    /\ \E from \in {"signal", "cancel", "pin"} :
          StopAllGoes(j, "stopping", from, "timedout")
    /\ NoJobChange

\* Mutant: the loop waits for results that were already consumed.
StopAllReturns_Waits ==
    /\ shutdown = "settling"
    /\ \A j \in Jobs : stopAll[j] = "idle"
    /\ shutdown' = "done"
    /\ UNCHANGED <<stop, stopAll>>
    /\ NoJobChange

\* Between two of stop_all's steps on a job.
Resting == {"idle", "joined", "timedout", "settled"}

\* join_all has every result.
StopAllJoins ==
    /\ shutdown = "stopping"
    /\ \A j \in Jobs : stopAll[j] \in Resting
    /\ shutdown' = "settling"
    /\ UNCHANGED <<stop, stopAll>>
    /\ NoJobChange

\* The loop over the results takes the next one: persist_then_finalize after an
\* Ok, handle_stop_timeout after a timeout.
StopAllSettles(j) ==
    /\ \A k \in Jobs : stopAll[k] \in Resting
    /\ \/ StopAllGoes(j, "settling", "joined", "persist")
       \/ StopAllGoes(j, "settling", "timedout", "recancel")
    /\ NoJobChange

\* Mutant: the timeout path persists without pinning and aborting first.
StopAllRecancels_NoPin(j) ==
    /\ StopAllGoes(j, "settling", "recancel",
                   IF CanCancel(j) THEN "persist" ELSE "settled")
    /\ TransitionToCancelled(j)

\* handle_stop_timeout
StopAllRecancels(j) ==
    /\ StopAllGoes(j, "settling", "recancel",
                   IF CanCancel(j) THEN "repin" ELSE "settled")
    /\ TransitionToCancelled(j)

StopAllRepins(j) ==
    StopAllGoes(j, "settling", "repin", "persist") /\ PinCancelPersistAndAbort(j)

StopAllPersists(j) ==
    StopAllGoes(j, "settling", "persist", "finalize") /\ PersistCancelled(j)

StopAllPersistFails(j) ==
    StopAllGoes(j, "settling", "persist", "settled") /\ NoJobChange

StopAllFinalizes(j) ==
    StopAllGoes(j, "settling", "finalize", "settled") /\ FinalizeStop(j)

StopAllReturns ==
    /\ shutdown = "settling"
    /\ \A j \in Jobs : stopAll[j] \in {"idle", "settled"}
    /\ shutdown' = "done"
    /\ UNCHANGED <<stop, stopAll>>
    /\ NoJobChange

StopAllJobStep(j) ==
    \/ StopAllSignals(j) \/ StopAllMisses(j) \/ StopAllCancels(j)
    \/ StopAllPins(j) \/ StopAllTimesOut(j) \/ StopAllSettles(j)
    \/ StopAllRecancels(j) \/ StopAllRepins(j) \/ StopAllPersists(j)
    \/ StopAllPersistFails(j) \/ StopAllFinalizes(j)

-----------------------------------------------------------------------------
(* The other callers                                                           *)

\* CancelJobTool::execute: a transition of the context and nothing else.
CancelJobTool(j) ==
    /\ "cancel_job" \in Callers
    /\ TransitionTo(j, "Cancelled")
    /\ UNCHANGED <<repair_attempts, jobs, workerVars, db, dispatch, cleanup,
                   stopVars, helperVars>>

\* handle_help_job: a snapshot of the context decides whether to recover it ...
HelpReads(j) ==
    /\ "help" \in Callers
    /\ help[j] = "idle" /\ state[j] = "Stuck"
    /\ help' = [help EXCEPT ![j] = "recover"]
    /\ UNCHANGED <<ctxVars, jobs, workerVars, db, dispatch, cleanup, stopVars,
                   repair>>

\* ... attempt_recovery then runs on the current state, and may refuse ...
HelpRecovers(j) ==
    /\ help[j] = "recover"
    /\ \/ /\ AttemptRecovery(j)
          /\ help' = [help EXCEPT ![j] = "schedule"]
       \/ /\ state[j] # "Stuck"
          /\ help' = [help EXCEPT ![j] = "idle"]
          /\ UNCHANGED ctxVars
    /\ UNCHANGED <<jobs, workerVars, db, dispatch, cleanup, stopVars, repair>>

\* ... and the job is handed back to schedule().
HelpSchedules(j) ==
    /\ help[j] = "schedule"
    /\ SpawnWorker(j) \/ SpawnRefused(j)
    /\ help' = [help EXCEPT ![j] = "idle"]
    /\ UNCHANGED <<db, dispatch, stopVars, repair>>

\* detect_stuck_jobs takes a snapshot of a job that has been stuck long enough.
RepairDetects(j) ==
    /\ "repair" \in Callers
    /\ repair[j] = -1 /\ state[j] = "Stuck"
    /\ repair' = [repair EXCEPT ![j] = repair_attempts[j]]
    /\ UNCHANGED <<ctxVars, jobs, workerVars, db, dispatch, cleanup, stopVars, help>>

\* repair_stuck_job: the limit is tested on the snapshot, attempt_recovery on
\* the current state.
RepairJob(j) ==
    /\ repair[j] # -1
    /\ IF repair[j] < MaxRepairAttempts /\ state[j] = "Stuck"
       THEN AttemptRecovery(j) ELSE UNCHANGED ctxVars
    /\ repair' = [repair EXCEPT ![j] = -1]
    /\ UNCHANGED <<jobs, workerVars, db, dispatch, cleanup, stopVars, help>>

-----------------------------------------------------------------------------
DispatchStep(j) == SaveJob(j) \/ ScheduleJob(j)

HelpStep(j) == HelpRecovers(j) \/ HelpSchedules(j)

Next ==
    \/ \E j \in Jobs :
          \/ CreateJob(j) \/ DispatchStep(j)
          \/ WorkerStep(j) \/ CleanupStep(j)
          \/ StopBegins(j) \/ StopStep(j) \/ StopAllJobStep(j)
          \/ CancelJobTool(j)
          \/ HelpReads(j) \/ HelpStep(j)
          \/ RepairDetects(j) \/ RepairJob(j)
    \/ StopAllBegins \/ StopAllJoins \/ StopAllReturns

Spec == Init /\ [][Next]_vars

\* Tasks that have begun keep running: the runtime polls every ready task, sleeps
\* and timeouts end, database calls return.  The self-repair task comes round
\* again.  No user is obliged to create, stop, cancel or help anything.
FairSpec ==
    /\ Spec
    /\ \A j \in Jobs :
          /\ WF_vars(DispatchStep(j)) /\ WF_vars(WorkerStep(j))
          /\ WF_vars(CleanupStep(j)) /\ WF_vars(StopStep(j))
          /\ WF_vars(StopAllJobStep(j)) /\ WF_vars(HelpStep(j))
          /\ WF_vars(RepairDetects(j)) /\ WF_vars(RepairJob(j))
    /\ WF_vars(StopAllJoins) /\ WF_vars(StopAllReturns)

\* Only stop_all itself has to keep running: nothing is asked of the workers it
\* stops, of the cleanup tasks or of anyone else.
ShutdownSpec ==
    /\ Spec
    /\ \A j \in Jobs : WF_vars(StopAllJobStep(j))
    /\ WF_vars(StopAllJoins) /\ WF_vars(StopAllReturns)

-----------------------------------------------------------------------------
(* Properties                                                                  *)

TypeOK_Context ==
    /\ state \in [Jobs -> State \cup {"absent"}]
    /\ transitions \in [Jobs -> Seq(Edges)]
    /\ repair_attempts \in [Jobs -> Nat]

TypeOK_Tasks ==
    /\ jobs \in [Jobs -> {"absent", "tracked", "pinned"}]
    /\ worker \in [Jobs -> WorkerPC]
    /\ outcome \in [Jobs -> Settled]
    /\ previous \in [Jobs -> State]
    /\ stopSent \in [Jobs -> BOOLEAN]
    /\ aborted \in [Jobs -> BOOLEAN]
    /\ db \in [Jobs -> State \cup {"absent"}]
    /\ dispatch \in [Jobs -> DispatchPC]
    /\ cleanup \in [Jobs -> CleanupPC]
    /\ stop \in [Jobs -> StopPC]
    /\ stopAll \in [Jobs -> StopAllPC]
    /\ shutdown \in ShutdownPC
    /\ help \in [Jobs -> {"idle", "recover", "schedule"}]
    /\ repair \in [Jobs -> Nat \cup {-1}]

\* Every variable keeps its type: in particular every recorded transition is one
\* that can_transition_to allows.
TypeOK == TypeOK_Context /\ TypeOK_Tasks

\* The history of a job is a path of the state machine that ends in its current
\* state, and is within the cap, after any mix of transition_to (which drops the
\* oldest entries) and set_state_rollback (which drops the newest).
HistoryConsistent ==
    \A j \in Jobs :
        LET h == transitions[j]
        IN  /\ Len(h) <= MaxTransitions
            /\ h # <<>> => Newest(h)[2] = state[j]
            /\ \A i \in 1 .. Len(h) - 1 : h[i][2] = h[i + 1][1]

\* A worker that is alive and has not been told to abort is in the scheduler's
\* map, where stop, send_message and stop_all can find it: the cleanup task and
\* finalize_stop never strand one.
WorkerTracked ==
    \A j \in Jobs : worker[j] \in Live /\ ~aborted[j] => jobs[j] # "absent"

\* The map never holds more than max_parallel_jobs entries, whatever mix of
\* dispatches and help commands schedules them.
ParallelBound == Cardinality(TrackedJobs) <= MaxParallelJobs

\* A worker is never started for a job whose earlier worker is still alive, even
\* one that stop has removed from the map and that is still winding down.
NoDuplicateExecution ==
    [][\A j \in Jobs :
         jobs[j] = "absent" /\ jobs'[j] = "tracked" => worker[j] \notin Live]_vars

\* Memory and database agree on a job's success or failure, except while the
\* worker that settled it is still writing or rolling back.
DurableOutcome ==
    \A j \in Jobs :
        /\ db[j] \in {"Completed", "Failed"} => state[j] = db[j]
        /\ state[j] \in {"Completed", "Failed"} =>
             db[j] = state[j] \/ worker[j] \in {"persisting", "rollback"}

\* Once a success or failure is in the database, no stop, cancel, help, repair or
\* shutdown changes it, in the database or in memory.
OutcomeFinal ==
    [][\A j \in Jobs : db[j] \in {"Completed", "Failed"} =>
         db'[j] = db[j] /\ state'[j] = state[j]]_vars

\* The slot of a finished worker is given back, unless a cancellation could not
\* be persisted, in which case the entry stays pinned for another stop call.
SlotReleased ==
    \A j \in Jobs :
        worker[j] = "finished" ~>
            \/ jobs[j] = "absent"
            \/ /\ jobs[j] = "pinned" /\ db[j] # "Cancelled"
               /\ stop[j] = "idle" /\ stopAll[j] \in {"idle", "settled"}

\* stop_all returns: no result of join_all is waited for in vain and the loop
\* over the results comes to its end.
ShutdownReturns == shutdown = "stopping" ~> shutdown = "done"

\* A job that stop_all has dealt with, in whichever way its stop ended, is no
\* longer executing: its worker has left the loop or has been aborted.
ShutdownStopsWork ==
    \A j \in Jobs : stopAll[j] = "settled" => worker[j] # "running" \/ aborted[j]

-----------------------------------------------------------------------------
(* What the repository says of the program and the program does not do         *)

\* "Job {} recovered and will be retried" (self_repair/default.rs): a recovered
\* job that stays in progress gets a worker again.
RecoveredIsRetried ==
    \A j \in Jobs :
        repair_attempts[j] > 0 /\ state[j] = "InProgress" ~>
            worker[j] = "running" \/ state[j] # "InProgress"

\* Cancelled "is a terminal state" (is_terminal; can_transition_to has no pair
\* out of it): a cancelled job stays cancelled.
CancelledIsFinal ==
    [][\A j \in Jobs : state[j] = "Cancelled" => state'[j] = "Cancelled"]_vars

=============================================================================
