------------------------ MODULE JobRefinementProofs ------------------------
(* The safety part of the refinement, for any number of jobs: every behaviour  *)
(* of JobLifecycle is, through the mapping of JobRefinement, a behaviour of    *)
(* JobContract.  To IInv it adds Recording, what the row says of a job at each *)
(* stage of its dispatch and after its cancellation.                           *)
EXTENDS JobRefinement, JobLifecycleProofs

\* The row appears between the two steps of dispatch; nobody stops a job that has
\* no worker yet; and a row that says Cancelled is not ahead of the context.
Recording ==
    \A j \in Jobs :
        /\ dispatch[j] \in {"idle", "created"} => db[j] = "absent"
        /\ dispatch[j] = "saved" => db[j] # "absent"
        /\ worker[j] = "none" => stop[j] = "idle"
        /\ db[j] = "Cancelled" => CancelSeen(j)

RInv == IInv /\ Recording

\* What a step has to be, seen from outside.
ContractStep == [Contract!Next]_(Contract!vars)

-----------------------------------------------------------------------------
(* The mapping                                                                 *)

\* The mapping tells apart none, live and finished, and nothing else.
LEMMA ExecutionCases ==
    ASSUME TypeOK, NEW j \in Jobs
    PROVE  /\ ExecutionOf(j) = "none" <=> worker[j] = "none"
           /\ ExecutionOf(j) = "ended" <=> worker[j] = "finished"
           /\ ExecutionOf(j) = "running" <=> worker[j] \in Live
BY DEF TypeOK, TypeOK_Tasks, ExecutionOf, WorkerPC, Live

\* A step that leaves the row, and each worker in its class, is a stutter.
LEMMA Unseen ==
    ASSUME TypeOK, TypeOK', UNCHANGED db,
           \A k \in Jobs : \/ worker'[k] = worker[k]
                           \/ worker[k] \in Live /\ worker'[k] \in Live
    PROVE  UNCHANGED Contract!vars
<1>1. ASSUME NEW k \in Jobs PROVE ExecutionOf(k)' = ExecutionOf(k)
  BY DEF ExecutionOf, Live
<1> QED BY <1>1 DEF Contract!vars

\* A step that changes one worker changes one execution.
LEMMA OneExecution ==
    ASSUME TypeOK, NEW j \in Jobs, NEW pc, worker' = [worker EXCEPT ![j] = pc],
           NEW e, e = ExecutionOf(j)'
    PROVE  [k \in Jobs |-> ExecutionOf(k)]' =
             [[k \in Jobs |-> ExecutionOf(k)] EXCEPT ![j] = e]
<1>1. ASSUME NEW k \in Jobs, k # j PROVE ExecutionOf(k)' = ExecutionOf(k)
  BY <1>1 DEF ExecutionOf, TypeOK, TypeOK_Tasks
<1> QED BY <1>1

\* The end of a live worker that writes nothing is a GiveUp.
LEMMA GivesUp ==
    ASSUME TypeOK, NEW j \in Jobs, worker[j] \in Live,
           worker' = [worker EXCEPT ![j] = "finished"], UNCHANGED db
    PROVE  ContractStep
<1>1. ExecutionOf(j)' = "ended" /\ ExecutionOf(j) = "running"
  BY ExecutionCases DEF ExecutionOf, TypeOK, TypeOK_Tasks
<1>2. Contract!GiveUp(j)
  BY <1>1, OneExecution DEF Contract!GiveUp
<1> QED BY <1>2 DEF ContractStep, Contract!Next, Contract!End

\* The spawn of a worker for a job that has a row is a Begin.
LEMMA Begins ==
    ASSUME TypeOK, NEW j \in Jobs, worker[j] = "none", db[j] # "absent",
           worker' = [worker EXCEPT ![j] = "running"], UNCHANGED db
    PROVE  ContractStep
<1>1. ExecutionOf(j)' = "running" /\ ExecutionOf(j) = "none"
  BY ExecutionCases DEF ExecutionOf, TypeOK, TypeOK_Tasks
<1>2. Contract!Begin(j)
  BY <1>1, OneExecution DEF Contract!Begin
<1> QED BY <1>2 DEF ContractStep, Contract!Next

\* The end of a live worker together with the write of its outcome is a Settle.
LEMMA Settles ==
    ASSUME TypeOK, NEW j \in Jobs, worker[j] \in Live, db[j] \notin Outcomes,
           db[j] = "Cancelled" => outcome[j] = "Stuck",
           worker' = [worker EXCEPT ![j] = "finished"],
           db' = [db EXCEPT ![j] = outcome[j]]
    PROVE  ContractStep
<1>1. ExecutionOf(j)' = "ended" /\ ExecutionOf(j) = "running"
  BY ExecutionCases DEF ExecutionOf, TypeOK, TypeOK_Tasks
<1>2. Contract!Settle(j, outcome[j])
  BY <1>1, OneExecution DEF Contract!Settle, Contract!Outcomes, Outcomes
<1>3. outcome[j] \in Contract!Outcomes \cup {"Stuck"}
  BY DEF TypeOK, TypeOK_Tasks, Settled, Contract!Outcomes
<1> QED BY <1>2, <1>3 DEF ContractStep, Contract!Next, Contract!End

\* The cancellation of a job that had a worker and has no outcome is a Cancel.
LEMMA Cancels ==
    ASSUME TypeOK, NEW j \in Jobs, worker[j] # "none", db[j] \notin Outcomes,
           UNCHANGED worker, db' = [db EXCEPT ![j] = "Cancelled"]
    PROVE  ContractStep
<1>1. ExecutionOf(j) # "none" /\ \A k \in Jobs : ExecutionOf(k)' = ExecutionOf(k)
  BY ExecutionCases DEF ExecutionOf
<1>2. Contract!Cancel(j)
  BY <1>1 DEF Contract!Cancel, Contract!Outcomes, Outcomes
<1> QED BY <1>2 DEF ContractStep, Contract!Next

-----------------------------------------------------------------------------
(* One lemma per group of actions: Recording is preserved, and the step is one *)
(* of JobContract or a stutter                                                 *)

\* dispatch_job_inner: the save is Accept, the spawn is Begin.
LEMMA DispatchRefines ==
    ASSUME RInv, TypeOK', NEW j \in Jobs, CreateJob(j) \/ DispatchStep(j)
    PROVE  Recording' /\ ContractStep
<1> USE DEF RInv, IInv, TypeOK, TypeOK_Context, TypeOK_Tasks, Safe, Stages,
            CancelSeen, Recording
<1>1. CASE CreateJob(j)
  <2>1. Recording'
    BY <1>1 DEF CreateJob, workerVars, stopVars
  <2>2. UNCHANGED Contract!vars
    BY <1>1, Unseen DEF CreateJob, workerVars
  <2> QED BY <2>1, <2>2 DEF ContractStep
<1>2. CASE SaveJob(j)
  <2>1. worker[j] = "none" /\ state[j] \in {"Pending", "Cancelled"} /\ db[j] = "absent"
    BY <1>2 DEF SaveJob
  <2>2. Recording'
    BY <1>2, <2>1 DEF SaveJob, ctxVars, workerVars, stopVars
  <2>3. CASE UNCHANGED db
    BY <1>2, <2>2, <2>3, Unseen DEF SaveJob, workerVars, ContractStep
  <2>4. CASE \E s \in {"Pending", "Cancelled"} : db' = [db EXCEPT ![j] = s]
    <3>1. PICK s \in {"Pending", "Cancelled"} : db' = [db EXCEPT ![j] = s]
      BY <2>4
    <3>2. \A k \in Jobs : ExecutionOf(k)' = ExecutionOf(k)
      BY <1>2 DEF SaveJob, workerVars, ExecutionOf
    <3>3. Contract!Accept(j, s)
      BY <2>1, <3>1, <3>2, ExecutionCases DEF Contract!Accept
    <3> QED BY <2>2, <3>3 DEF ContractStep, Contract!Next
  <2> QED BY <1>2, <2>1, <2>3, <2>4 DEF SaveJob
<1>3. CASE ScheduleJob(j) /\ SpawnWorker(j)
  <2>1. worker[j] = "none" /\ state[j] = "Pending"
    BY <1>3, SpawnOnlyFresh DEF ScheduleJob
  <2>2. Recording'
    BY <1>3, <2>1
       DEF ScheduleJob, SpawnWorker, TransitionTo, TrackWorker, stopVars
  <2>3. /\ worker' = [worker EXCEPT ![j] = "running"]
        /\ db' = db /\ db[j] # "absent"
    BY <1>3 DEF ScheduleJob, SpawnWorker, TrackWorker
  <2>4. ContractStep
    BY <2>1, <2>3, Begins
  <2> QED BY <2>2, <2>4
<1>4. CASE ScheduleJob(j) /\ SpawnRefused(j)
  <2>1. Recording'
    BY <1>4 DEF ScheduleJob, SpawnRefused, ctxVars, workerVars, stopVars
  <2>2. UNCHANGED Contract!vars
    BY <1>4, Unseen DEF ScheduleJob, SpawnRefused, workerVars
  <2> QED BY <2>1, <2>2 DEF ContractStep
<1> QED BY <1>1, <1>2, <1>3, <1>4 DEF DispatchStep, ScheduleJob

\* The worker: its end is GiveUp, or Settle if it takes a status along.
LEMMA WorkerRefines ==
    ASSUME RInv, TypeOK', NEW j \in Jobs, WorkerStep(j)
    PROVE  Recording' /\ ContractStep
<1> USE DEF RInv, IInv, TypeOK, TypeOK_Context, TypeOK_Tasks, Safe, Stages,
            CancelSeen, Recording, Live
<1>1. CASE RunEnds(j)
  <2>1. Recording'
    BY <1>1 DEF RunEnds, ctxVars, stopVars
  <2>2. UNCHANGED Contract!vars
    BY <1>1, Unseen DEF RunEnds
  <2> QED BY <2>1, <2>2 DEF ContractStep
<1>2. CASE RunExits(j) \/ RunPanics(j)
  <2>1. Recording'
    BY <1>2 DEF RunExits, RunPanics, Finish, ctxVars, stopVars
  <2>2. ContractStep
    BY <1>2, GivesUp DEF RunExits, RunPanics, Finish
  <2> QED BY <2>1, <2>2
<1>3. CASE CheckActive(j)
  <2>1. Recording'
    BY <1>3 DEF CheckActive, Finish, ctxVars, stopVars
  <2>2. CASE worker' = [worker EXCEPT ![j] = "finished"]
    BY <1>3, <2>1, <2>2, GivesUp DEF CheckActive
  <2>3. CASE worker' = [worker EXCEPT ![j] = "marking"]
    BY <1>3, <2>1, <2>3, Unseen DEF CheckActive, ContractStep
  <2> QED BY <1>3, <2>2, <2>3 DEF CheckActive, Finish
<1>4. CASE MarkTerminal(j) /\ Finish(j)
  <2>1. UNCHANGED <<state, db>>
    BY <1>4 DEF MarkTerminal, Finish, ctxVars, TransitionTo
  <2>2. Recording'
    BY <1>4, <2>1 DEF MarkTerminal, Finish, stopVars
  <2>3. ContractStep
    BY <1>4, <2>1, GivesUp DEF MarkTerminal, Finish
  <2> QED BY <2>2, <2>3
<1>5. CASE MarkTerminal(j) /\ ~Finish(j)
  <2>1. /\ state[j] # "Cancelled"
        /\ state' = [state EXCEPT ![j] = outcome[j]]
        /\ worker' = [worker EXCEPT ![j] = "persisting"]
    BY <1>5 DEF MarkTerminal, TransitionTo
  <2>2. Recording'
    BY <1>5, <2>1 DEF MarkTerminal, stopVars
  <2>3. UNCHANGED Contract!vars
    BY <1>5, <2>1, Unseen DEF MarkTerminal
  <2> QED BY <2>2, <2>3 DEF ContractStep
<1>6. ASSUME worker[j] = "persisting", db' = [db EXCEPT ![j] = outcome[j]], Finish(j),
             UNCHANGED <<ctxVars, dispatch, stopVars>>
      PROVE  Recording' /\ ContractStep
  <2>0. dispatch[j] = "done" /\ outcome[j] \in {"Completed", "Failed", "Stuck"}
    BY <1>6 DEF Settled
  <2>1. Recording'
    <3>1. /\ worker' = [worker EXCEPT ![j] = "finished"]
          /\ state' = state /\ dispatch' = dispatch /\ stop' = stop
      BY <1>6 DEF Finish, ctxVars, stopVars
    <3> QED BY <1>6, <2>0, <3>1
  <2>2. db[j] \notin Outcomes /\ (db[j] = "Cancelled" => outcome[j] = "Stuck")
    BY <1>6 DEF Settling, Settled, Outcomes
  <2>3. ContractStep
    BY <1>6, <2>2, Settles DEF Finish
  <2> QED BY <2>1, <2>3
<1>7. CASE PersistOutcome(j)
  BY <1>6, <1>7 DEF PersistOutcome
<1>8. CASE PersistFails(j)
  <2>1. Recording'
    BY <1>8 DEF PersistFails, ctxVars, stopVars
  <2>2. UNCHANGED Contract!vars
    BY <1>8, Unseen DEF PersistFails
  <2> QED BY <2>1, <2>2 DEF ContractStep
<1>9. CASE RollbackContext(j)
  <2>1. \/ state' = [state EXCEPT ![j] = "InProgress"]
        \/ UNCHANGED state
    BY <1>9 DEF RollbackContext, SetStateRollback, ctxVars
  <2>2. Recording'
    BY <1>9, <2>1 DEF RollbackContext, Finish, stopVars
  <2>3. ContractStep
    BY <1>9, GivesUp DEF RollbackContext, Finish
  <2> QED BY <2>2, <2>3
<1>10. CASE AbortTakesEffect(j) /\ UNCHANGED db
  <2>1. Recording'
    BY <1>10 DEF AbortTakesEffect, Finish, ctxVars, stopVars
  <2>2. ContractStep
    BY <1>10, GivesUp DEF AbortTakesEffect, Finish
  <2> QED BY <2>1, <2>2
<1>11. CASE AbortTakesEffect(j) /\ ~UNCHANGED db
  BY <1>6, <1>11 DEF AbortTakesEffect
<1> QED BY <1>1, <1>2, <1>3, <1>4, <1>5, <1>7, <1>8, <1>9, <1>10, <1>11 DEF WorkerStep

\* stop and stop_all: the two persisting steps are Cancel, the others stutter.
LEMMA StopRefines ==
    ASSUME RInv, TypeOK', NEW j \in Jobs,
           StopBegins(j) \/ StopStep(j) \/ StopAllJobStep(j)
    PROVE  Recording' /\ ContractStep
<1> USE DEF RInv, IInv, TypeOK, TypeOK_Context, TypeOK_Tasks, Safe, Stages,
            CancelSeen, Recording
<1>1. ASSUME stop[j] = "persist" \/ stopAll[j] = "persist", PersistCancelled(j),
             \A k \in Jobs : worker[k] = "none" => stop'[k] = "idle"
      PROVE  Recording' /\ ContractStep
  <2>1. worker[j] # "none" /\ dispatch[j] = "done" /\ CancelSeen(j)
    BY <1>1 DEF Cancelling
  <2>2. db[j] \notin Outcomes
    BY <2>1 DEF Settling, Outcomes
  <2>3. Recording'
    BY <1>1, <2>1 DEF PersistCancelled, ctxVars, workerVars
  <2>4. ContractStep
    BY <1>1, <2>1, <2>2, Cancels DEF PersistCancelled, workerVars
  <2> QED BY <2>3, <2>4
<1>2. CASE StopPersists(j) \/ StopAllPersists(j)
  BY <1>1, <1>2 DEF StopPersists, StopAllPersists, StopGoes, StopAllGoes
<1>3. CASE ~(StopPersists(j) \/ StopAllPersists(j))
  <2>1. UNCHANGED <<worker, db, dispatch>>
    BY <1>3
       DEF StopBegins, StopStep, StopCancels, StopPins, StopPersistFails,
           StopFinalizes, StopAllJobStep, StopAllSignals, StopAllMisses,
           StopAllCancels, StopAllPins, StopAllTimesOut, StopAllSettles,
           StopAllRecancels, StopAllRepins, StopAllPersistFails, StopAllFinalizes,
           SignalStop, TransitionToCancelled, PinCancelPersistAndAbort, FinalizeStop,
           Abort, NoJobChange, workerVars
  <2>2. state' = state \/ state' = [state EXCEPT ![j] = "Cancelled"]
    BY <1>3
       DEF StopBegins, StopStep, StopCancels, StopPins, StopPersistFails,
           StopFinalizes, StopAllJobStep, StopAllSignals, StopAllMisses,
           StopAllCancels, StopAllPins, StopAllTimesOut, StopAllSettles,
           StopAllRecancels, StopAllRepins, StopAllPersistFails, StopAllFinalizes,
           SignalStop, TransitionToCancelled, TransitionTo, PinCancelPersistAndAbort,
           FinalizeStop, NoJobChange, ctxVars
  <2>3. \A k \in Jobs : worker[k] = "none" => stop'[k] = "idle"
    <3>1. CASE StopBegins(j)
      BY <3>1 DEF StopBegins, StopGoes, SignalStop
    <3>2. CASE StopStep(j)
      <4>1. /\ worker[j] # "none"
            /\ \A k \in Jobs \ {j} : stop'[k] = stop[k]
        BY <3>2 DEF StopStep, StopCancels, StopPins, StopPersists, StopPersistFails,
                    StopFinalizes, StopGoes
      <4> QED BY <4>1
    <3>3. CASE StopAllJobStep(j)
      <4>1. UNCHANGED stop
        BY <3>3 DEF StopAllJobStep, StopAllSignals, StopAllMisses, StopAllCancels,
                    StopAllPins, StopAllTimesOut, StopAllSettles, StopAllRecancels,
                    StopAllRepins, StopAllPersists, StopAllPersistFails,
                    StopAllFinalizes, StopAllGoes
      <4> QED BY <4>1
    <3> QED BY <3>1, <3>2, <3>3
  <2>4. Recording'
    BY <2>1, <2>2, <2>3
  <2>5. UNCHANGED Contract!vars
    BY <2>1, Unseen
  <2> QED BY <2>4, <2>5 DEF ContractStep
<1> QED BY <1>2, <1>3

\* Cleanup, cancel_job, help, self-repair and stop_all itself are not seen.
LEMMA OthersRefine ==
    ASSUME RInv, TypeOK',
           \/ \E j \in Jobs : \/ CleanupStep(j) \/ CancelJobTool(j) \/ HelpReads(j)
                              \/ HelpStep(j) \/ RepairDetects(j) \/ RepairJob(j)
           \/ StopAllBegins \/ StopAllJoins \/ StopAllReturns
    PROVE  Recording' /\ ContractStep
<1> USE DEF RInv, IInv, TypeOK, TypeOK_Context, TypeOK_Tasks, Safe, Stages,
            CancelSeen, Recording
<1>1. /\ UNCHANGED <<worker, db, dispatch, stop>>
      /\ \A k \in Jobs : CancelSeen(k) => state'[k] = state[k] \/ state'[k] = "Cancelled"
  <2>1. ASSUME NEW j \in Jobs, CleanupStep(j) \/ HelpReads(j) \/ RepairDetects(j)
        PROVE  UNCHANGED <<worker, db, dispatch, stop, state>>
    BY <2>1 DEF CleanupStep, CleanupDecides, CleanupRemoves, HelpReads, RepairDetects,
                ctxVars, workerVars, stopVars
  <2>2. ASSUME NEW j \in Jobs, CancelJobTool(j)
        PROVE  /\ UNCHANGED <<worker, db, dispatch, stop>>
               /\ state' = [state EXCEPT ![j] = "Cancelled"]
    BY <2>2 DEF CancelJobTool, TransitionTo, workerVars, stopVars
  <2>3. ASSUME NEW j \in Jobs, HelpRecovers(j) \/ RepairJob(j)
        PROVE  /\ UNCHANGED <<worker, db, dispatch, stop>>
               /\ \/ state' = state
                  \/ state[j] = "Stuck" /\ state' = [state EXCEPT ![j] = "InProgress"]
    BY <2>3 DEF HelpRecovers, RepairJob, AttemptRecovery, TransitionTo, ctxVars,
                workerVars, stopVars
  <2>4. ASSUME NEW j \in Jobs, HelpSchedules(j)
        PROVE  UNCHANGED <<worker, db, dispatch, stop, state>>
    <3>1. ~SpawnWorker(j)
      BY <2>4, SpawnOnlyFresh DEF HelpSchedules
    <3> QED BY <2>4, <3>1 DEF HelpSchedules, SpawnRefused, ctxVars, workerVars, stopVars
  <2>5. CASE StopAllBegins \/ StopAllJoins \/ StopAllReturns
    BY <2>5 DEF StopAllBegins, StopAllJoins, StopAllReturns, NoJobChange, ctxVars,
                workerVars
  <2> QED BY <2>1, <2>2, <2>3, <2>4, <2>5 DEF HelpStep
<1>2. Recording'
  BY <1>1
<1>3. UNCHANGED Contract!vars
  BY <1>1, Unseen
<1> QED BY <1>2, <1>3 DEF ContractStep

-----------------------------------------------------------------------------
(* The theorem                                                                 *)

\* Recording is preserved, and every step is one of JobContract or a stutter.
LEMMA StepRefines == RInv /\ [Next]_vars => RInv' /\ ContractStep
<1> SUFFICES ASSUME RInv, [Next]_vars PROVE RInv' /\ ContractStep
  OBVIOUS
<1>1. IInv' /\ TypeOK'
  BY NextSafe DEF RInv, IInv
<1>2. CASE Next
  BY <1>1, <1>2, DispatchRefines, WorkerRefines, StopRefines, OthersRefine
     DEF Next, RInv
<1>3. CASE UNCHANGED vars
  <2>1. Recording'
    BY <1>3 DEF RInv, Recording, CancelSeen, vars, ctxVars, workerVars, stopVars
  <2>2. UNCHANGED Contract!vars
    BY <1>1, <1>3, Unseen DEF RInv, IInv, vars, workerVars
  <2> QED BY <1>1, <2>1, <2>2 DEF RInv, ContractStep
<1> QED BY <1>2, <1>3

\* JobLifecycle implements JobContract: seen from outside, every job has a row
\* before it is executed, is executed at most once, and keeps the outcome that is
\* recorded when its execution ends, for any number of jobs and callers.
THEOREM Refinement == Spec => Contract!Spec
<1>1. Init => RInv /\ Contract!Init
  <2>1. ASSUME Init PROVE IInv /\ Recording
    BY <2>1, InitTypes, InitSafe DEF Init, IInv, Recording, CancelSeen
  <2>2. ASSUME Init PROVE Contract!Init
    BY <2>2 DEF Init, Contract!Init, ExecutionOf
  <2> QED BY <2>1, <2>2 DEF RInv
<1> QED BY <1>1, StepRefines, PTL DEF Spec, ContractStep, Contract!Spec
=============================================================================
