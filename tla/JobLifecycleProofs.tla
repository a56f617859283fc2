------------------------- MODULE JobLifecycleProofs -------------------------
(* Theorems about JobLifecycle, for any number of jobs and any limits.         *)
(*                                                                             *)
(* No safety property of JobLifecycle is inductive by itself.  That a settled  *)
(* outcome stays what it is depends on which stage every other task has        *)
(* reached: nobody who could still abort the worker, overwrite the row or roll *)
(* the context back may be left.  Safe says so: Stages ties the job's state to *)
(* the progress of dispatch and worker, Tracking the map to the worker,        *)
(* Cancelling the stop calls to a cancellation that has taken effect, Settling *)
(* the database to the context, Halting stop_all to the worker.  IInv, its     *)
(* conjunction with the types, is inductive (JobInvariant).                    *)
(*                                                                             *)
(* The capacity bound and the history are proved each by an invariant of their *)
(* own on top of IInv (CapacityStep, HistoryStep).                             *)
EXTENDS JobLifecycle, SequenceTheorems, FiniteSetTheorems, TLAPS

Outcomes == {"Completed", "Failed"}

\* How far dispatch and the worker have come says which states the job can be in.
Stages ==
    \A j \in Jobs :
        /\ state[j] \notin {"Submitted", "Accepted"}
        /\ dispatch[j] = "idle" <=> state[j] = "absent"
        /\ dispatch[j] # "done" => worker[j] = "none"
        /\ worker[j] = "none" =>
             /\ state[j] \in {"absent", "Pending", "Cancelled"}
             /\ jobs[j] = "absent" /\ cleanup[j] = "none" /\ help[j] = "idle"
             /\ stopAll[j] = "idle" /\ ~aborted[j]
        /\ state[j] \in {"absent", "Pending"} => worker[j] = "none"
        /\ worker[j] \in {"running", "checking", "marking"} =>
             state[j] \in {"InProgress", "Cancelled"} /\ help[j] = "idle"
        /\ worker[j] \in {"persisting", "rollback"} => previous[j] = "InProgress"
        /\ help[j] = "schedule" => state[j] # "Stuck"

\* The entry of a worker that is alive and not aborted is neither gone nor about
\* to be removed by the cleanup task.
Tracking ==
    /\ WorkerTracked
    /\ \A j \in Jobs :
          cleanup[j] = "removing" => worker[j] \notin Live \/ aborted[j]

\* The job was cancelled; its worker may have undone that by a rollback, and is
\* then gone.
CancelSeen(j) ==
    state[j] = "Cancelled" \/ (state[j] = "InProgress" /\ worker[j] = "finished")

\* Whoever is past transition_to_cancelled, or has aborted the worker, does so on
\* a job that no longer has an outcome to lose.
Cancelling ==
    \A j \in Jobs :
        \/ aborted[j]
        \/ stop[j] \in {"pin", "persist", "finalize"}
        \/ stopAll[j] \in {"pin", "joined", "persist", "repin", "finalize"}
        => CancelSeen(j)

\* A success or failure is either in the database, its worker gone, or is being
\* written by its worker, who can still roll it back.
Settling ==
    \A j \in Jobs :
        /\ db[j] \in Outcomes => state[j] = db[j] /\ worker[j] = "finished"
        /\ worker[j] = "persisting" /\ outcome[j] \in Outcomes => state[j] = outcome[j]
        /\ state[j] \in Outcomes =>
             \/ db[j] = state[j]
             \/ /\ worker[j] \in {"persisting", "rollback"}
                /\ outcome[j] = state[j]
                /\ MatchesRollback(transitions[j], state[j], "InProgress")

\* A job that stop_all has dealt with no longer executes.
Halted(j) == worker[j] # "running" \/ aborted[j]

Halting ==
    \A j \in Jobs :
        stopAll[j] \in {"joined", "persist", "finalize", "settled"} => Halted(j)

Safe == Stages /\ Tracking /\ Cancelling /\ Settling /\ Halting

\* The inductive invariant.
IInv == TypeOK /\ Safe

-----------------------------------------------------------------------------
(* The history operators                                                       *)

\* Push keeps at most MaxTransitions pairs, the newest of which is the new one.
LEMMA PushProperties ==
    ASSUME NEW S, NEW h \in Seq(S), NEW e \in S
    PROVE  /\ Push(h, e) \in Seq(S)
           /\ Push(h, e) # <<>>
           /\ Newest(Push(h, e)) = e
<1> DEFINE p == Append(h, e)
           n == Len(p)
<1>1. p \in Seq(S) /\ n = Len(h) + 1 /\ p[n] = e /\ n \in Nat
  BY AppendProperties, LenProperties
<1>2. CASE n > MaxTransitions
  <2> DEFINE q == SubSeq(p, n - MaxTransitions + 1, n)
  <2>1. q \in Seq(S) /\ Len(q) = MaxTransitions /\ q[MaxTransitions] = p[n]
    BY <1>1, <1>2, SubSeqProperties, MaxTransitionsAssumption
  <2>2. q # <<>>
    BY <2>1, EmptySeq, MaxTransitionsAssumption
  <2> QED BY <1>1, <1>2, <2>1, <2>2 DEF Push, Newest
<1>3. CASE ~(n > MaxTransitions)
  BY <1>1, <1>3, EmptySeq DEF Push, Newest
<1> QED BY <1>2, <1>3

\* Pop removes the newest pair and nothing else.
LEMMA PopProperties ==
    ASSUME NEW S, NEW h \in Seq(S), h # <<>>
    PROVE  Pop(h) \in Seq(S)
<1>1. Len(h) \in Nat \ {0}
  BY EmptySeq
<1> QED BY <1>1, SubSeqProperties, LenProperties DEF Pop

-----------------------------------------------------------------------------
(* Type correctness                                                            *)

\* Every pair of can_transition_to is a pair of states.
LEMMA EdgesAreStates == Edges \subseteq State \X State
BY DEF Edges, State

\* transition_to leaves a state and a history of the right types.
LEMMA TransitionTypes ==
    ASSUME TypeOK_Context, NEW j \in Jobs, NEW t, TransitionTo(j, t)
    PROVE  /\ t \in State /\ state[j] \in State
           /\ state' \in [Jobs -> State \cup {"absent"}]
           /\ transitions' \in [Jobs -> Seq(Edges)]
<1>1. <<state[j], t>> \in Edges
  BY DEF TransitionTo, CanTransitionTo
<1>2. state[j] \in State /\ t \in State
  BY <1>1, EdgesAreStates
<1>3. Push(transitions[j], <<state[j], t>>) \in Seq(Edges)
  BY <1>1, PushProperties DEF TypeOK_Context
<1> QED BY <1>2, <1>3 DEF TypeOK_Context, TransitionTo

\* So does set_state_rollback, whichever state it is handed.
LEMMA RollbackTypes ==
    ASSUME TypeOK_Context, NEW j \in Jobs, NEW s \in State, SetStateRollback(j, s)
    PROVE  TypeOK_Context'
<1>1. CASE MatchesRollback(transitions[j], state[j], s)
  <2>1. Pop(transitions[j]) \in Seq(Edges)
    BY <1>1, PopProperties DEF MatchesRollback, TypeOK_Context
  <2> QED BY <1>1, <2>1 DEF SetStateRollback, TypeOK_Context
<1>2. CASE ~MatchesRollback(transitions[j], state[j], s)
  BY <1>2 DEF SetStateRollback, TypeOK_Context, ctxVars
<1> QED BY <1>1, <1>2

\* Init satisfies the types.
LEMMA InitTypes == Init => TypeOK
BY EmptySeq
   DEF Init, TypeOK, TypeOK_Context, TypeOK_Tasks, State, WorkerPC, Live, Settled,
       DispatchPC, CleanupPC, StopPC, StopAllPC, ShutdownPC

\* The critical sections of stop and stop_all preserve the types of what they
\* touch; stopVars is their callers' business.
CriticalSection(j) ==
    \/ SignalStop(j) \/ TransitionToCancelled(j) \/ PinCancelPersistAndAbort(j)
    \/ PersistCancelled(j) \/ FinalizeStop(j) \/ NoJobChange

\* A critical section of stop or stop_all preserves the types.
LEMMA CriticalSectionTypes ==
    ASSUME TypeOK, NEW j \in Jobs, CriticalSection(j),
           stop' \in [Jobs -> StopPC], stopAll' \in [Jobs -> StopAllPC],
           shutdown' \in ShutdownPC
    PROVE  TypeOK'
<1> USE DEF TypeOK, TypeOK_Tasks, State
<1>1. CASE SignalStop(j)
  BY <1>1 DEF SignalStop, TypeOK_Context, ctxVars, helperVars
<1>2. CASE TransitionToCancelled(j)
  <2>1. TypeOK_Context'
    BY <1>2, TransitionTypes DEF TransitionToCancelled, TypeOK_Context
  <2> QED BY <1>2, <2>1 DEF TransitionToCancelled, workerVars, helperVars
<1>3. CASE PinCancelPersistAndAbort(j)
  BY <1>3 DEF PinCancelPersistAndAbort, Abort, TypeOK_Context, ctxVars, helperVars
<1>4. CASE PersistCancelled(j)
  BY <1>4 DEF PersistCancelled, TypeOK_Context, ctxVars, workerVars, helperVars
<1>5. CASE FinalizeStop(j)
  BY <1>5 DEF FinalizeStop, Abort, TypeOK_Context, ctxVars, helperVars
<1>6. CASE NoJobChange
  BY <1>6 DEF NoJobChange, TypeOK_Context, ctxVars, workerVars, helperVars
<1> QED BY <1>1, <1>2, <1>3, <1>4, <1>5, <1>6 DEF CriticalSection

\* Spawning a worker, for dispatch or for the help command, preserves the types.
LEMMA SpawnTypes ==
    ASSUME TypeOK, NEW j \in Jobs, SpawnWorker(j) \/ SpawnRefused(j),
           dispatch' \in [Jobs -> DispatchPC],
           help' \in [Jobs -> {"idle", "recover", "schedule"}],
           UNCHANGED <<db, stopVars, repair>>
    PROVE  TypeOK'
<1>1. CASE SpawnWorker(j)
  <2>1. TypeOK_Context'
    BY <1>1, TransitionTypes DEF SpawnWorker, TrackWorker, TypeOK, TypeOK_Context
  <2> QED BY <1>1, <2>1
          DEF SpawnWorker, TrackWorker, TypeOK, TypeOK_Tasks, WorkerPC, Live,
              CleanupPC, stopVars
<1>2. CASE SpawnRefused(j)
  BY <1>2 DEF SpawnRefused, TypeOK, TypeOK_Context, TypeOK_Tasks, ctxVars,
              workerVars, stopVars
<1> QED BY <1>1, <1>2

\* Each step of stop and of stop_all on a job is one critical section.
LEMMA StopIsCritical ==
    ASSUME NEW j \in Jobs, StopBegins(j) \/ StopStep(j) \/ StopAllJobStep(j)
    PROVE  CriticalSection(j)
BY DEF StopBegins, StopStep, StopCancels, StopPins, StopPersists, StopPersistFails,
       StopFinalizes, StopAllJobStep, StopAllSignals, StopAllMisses, StopAllCancels,
       StopAllPins, StopAllTimesOut, StopAllSettles, StopAllRecancels, StopAllRepins,
       StopAllPersists, StopAllPersistFails, StopAllFinalizes, CriticalSection

\* stop and stop_all preserve the types.
LEMMA StopTypes ==
    ASSUME TypeOK, NEW j \in Jobs,
           StopBegins(j) \/ StopStep(j) \/ StopAllJobStep(j)
    PROVE  TypeOK'
<1>1. /\ stop' \in [Jobs -> StopPC] /\ stopAll' \in [Jobs -> StopAllPC]
      /\ shutdown' \in ShutdownPC
  <2> USE DEF TypeOK, TypeOK_Tasks, StopPC, StopAllPC, ShutdownPC
  <2>1. CASE StopBegins(j)
    BY <2>1 DEF StopBegins, StopGoes
  <2>2. CASE StopStep(j)
    BY <2>2
       DEF StopStep, StopCancels, StopPins, StopPersists, StopPersistFails,
           StopFinalizes, StopGoes
  <2>3. CASE StopAllJobStep(j)
    BY <2>3
       DEF StopAllJobStep, StopAllSignals, StopAllMisses, StopAllCancels,
           StopAllPins, StopAllTimesOut, StopAllSettles, StopAllRecancels,
           StopAllRepins, StopAllPersists, StopAllPersistFails, StopAllFinalizes,
           StopAllGoes
  <2> QED BY <2>1, <2>2, <2>3
<1> QED BY <1>1, StopIsCritical, CriticalSectionTypes

\* Each step of the worker preserves the types.
LEMMA WorkerTypes ==
    ASSUME TypeOK, NEW j \in Jobs, WorkerStep(j)
    PROVE  TypeOK'
<1>0. Settled \subseteq State /\ "Cancelled" \in State
  BY DEF Settled, State
<1> USE DEF TypeOK, TypeOK_Tasks, WorkerPC, Live
<1>1. CASE RunEnds(j)
  BY <1>1 DEF RunEnds, Settled, TypeOK_Context, ctxVars, stopVars, helperVars
<1>2. CASE RunExits(j) \/ RunPanics(j)
  BY <1>2 DEF RunExits, RunPanics, Finish, TypeOK_Context, ctxVars, stopVars, helperVars
<1>3. CASE CheckActive(j)
  BY <1>3 DEF CheckActive, Finish, TypeOK_Context, ctxVars, stopVars, helperVars
<1>4. CASE MarkTerminal(j)
  <2>1. CASE TransitionTo(j, outcome[j]) /\ worker' = [worker EXCEPT ![j] = "persisting"]
    <3>1. TypeOK_Context' /\ state[j] \in State
      BY <1>4, <2>1, TransitionTypes
         DEF MarkTerminal, TypeOK_Context, Finish, ctxVars
    <3>2. /\ previous' = [previous EXCEPT ![j] = state[j]]
          /\ UNCHANGED <<outcome, stopSent, aborted>>
      BY <1>4, <2>1 DEF MarkTerminal, Finish
    <3> QED BY <1>4, <2>1, <3>1, <3>2 DEF MarkTerminal, stopVars, helperVars
  <2>2. CASE Finish(j) /\ UNCHANGED ctxVars
    BY <1>4, <2>2
       DEF MarkTerminal, Finish, TypeOK_Context, ctxVars, stopVars, helperVars
  <2> QED BY <1>4, <2>1, <2>2 DEF MarkTerminal
<1>5. CASE PersistOutcome(j)
  BY <1>0, <1>5 DEF PersistOutcome, Finish, TypeOK_Context, ctxVars, stopVars, helperVars
<1>6. CASE PersistFails(j)
  BY <1>6 DEF PersistFails, TypeOK_Context, ctxVars, stopVars, helperVars
<1>7. CASE RollbackContext(j)
  <2>1. TypeOK_Context'
    BY <1>7, RollbackTypes DEF RollbackContext
  <2> QED BY <1>7, <2>1 DEF RollbackContext, Finish, stopVars, helperVars
<1>8. CASE AbortTakesEffect(j)
  <2>1. db' \in [Jobs -> State \cup {"absent"}]
    BY <1>0, <1>8 DEF AbortTakesEffect
  <2> QED BY <1>8, <2>1
          DEF AbortTakesEffect, Finish, TypeOK_Context, ctxVars, stopVars, helperVars
<1> QED BY <1>1, <1>2, <1>3, <1>4, <1>5, <1>6, <1>7, <1>8 DEF WorkerStep

\* Every step of every task preserves the types.
LEMMA NextTypes == TypeOK /\ [Next]_vars => TypeOK'
<1> SUFFICES ASSUME TypeOK, [Next]_vars PROVE TypeOK'
  OBVIOUS
<1>1. ASSUME NEW j \in Jobs, CreateJob(j) PROVE TypeOK'
  BY <1>1 DEF CreateJob, TypeOK, TypeOK_Context, TypeOK_Tasks, State, DispatchPC,
              workerVars, stopVars, helperVars
<1>2. ASSUME NEW j \in Jobs, SaveJob(j) PROVE TypeOK'
  <2>1. \A snapshot \in {"Pending", state[j]} :
           snapshot \in State \cup {"absent"}
    BY <1>2 DEF TypeOK, TypeOK_Context, State
  <2> QED BY <1>2, <2>1 DEF SaveJob, TypeOK, TypeOK_Context, TypeOK_Tasks, DispatchPC,
                            ctxVars, workerVars, stopVars, helperVars
<1>3. ASSUME NEW j \in Jobs, ScheduleJob(j) PROVE TypeOK'
  <2>1. /\ dispatch' \in [Jobs -> DispatchPC]
        /\ help' \in [Jobs -> {"idle", "recover", "schedule"}]
        /\ UNCHANGED <<db, stopVars, repair>>
    BY <1>3 DEF ScheduleJob, TypeOK, TypeOK_Tasks, DispatchPC, helperVars
  <2> QED BY <1>3, <2>1, SpawnTypes DEF ScheduleJob
<1>4. ASSUME NEW j \in Jobs, CleanupStep(j) PROVE TypeOK'
  BY <1>4 DEF CleanupStep, CleanupDecides, CleanupRemoves, TypeOK, TypeOK_Context,
              TypeOK_Tasks, CleanupPC, ctxVars, workerVars, stopVars, helperVars
<1>5. ASSUME NEW j \in Jobs, CancelJobTool(j) PROVE TypeOK'
  <2>1. TypeOK_Context'
    BY <1>5, TransitionTypes DEF CancelJobTool, TypeOK, TypeOK_Context
  <2> QED BY <1>5, <2>1
          DEF CancelJobTool, TypeOK, TypeOK_Tasks, workerVars, stopVars, helperVars
<1>6. ASSUME NEW j \in Jobs, HelpReads(j) \/ RepairDetects(j) PROVE TypeOK'
  BY <1>6 DEF HelpReads, RepairDetects, TypeOK, TypeOK_Context, TypeOK_Tasks,
              ctxVars, workerVars, stopVars
<1>7. ASSUME NEW j \in Jobs, HelpRecovers(j) \/ RepairJob(j) PROVE TypeOK'
  <2>1. TypeOK_Context'
    BY <1>7, TransitionTypes
       DEF HelpRecovers, RepairJob, AttemptRecovery, TypeOK, TypeOK_Context, ctxVars
  <2> QED BY <1>7, <2>1
          DEF HelpRecovers, RepairJob, TypeOK, TypeOK_Tasks, workerVars, stopVars
<1>8. ASSUME NEW j \in Jobs, HelpSchedules(j) PROVE TypeOK'
  <2>1. /\ dispatch' \in [Jobs -> DispatchPC]
        /\ help' \in [Jobs -> {"idle", "recover", "schedule"}]
        /\ UNCHANGED <<db, stopVars, repair>>
    BY <1>8 DEF HelpSchedules, TypeOK, TypeOK_Tasks
  <2> QED BY <1>8, <2>1, SpawnTypes DEF HelpSchedules
<1>9. CASE StopAllBegins \/ StopAllJoins \/ StopAllReturns
  BY <1>9 DEF StopAllBegins, StopAllJoins, StopAllReturns, NoJobChange, TypeOK,
              TypeOK_Context, TypeOK_Tasks, StopPC, StopAllPC, ShutdownPC, ctxVars,
              workerVars, helperVars
<1>10. CASE UNCHANGED vars
  BY <1>10 DEF vars, TypeOK, TypeOK_Context, TypeOK_Tasks, ctxVars, workerVars,
               stopVars, helperVars
<1> QED BY <1>1, <1>2, <1>3, <1>4, <1>5, <1>6, <1>7, <1>8, <1>9, <1>10,
           StopTypes, WorkerTypes
        DEF Next, DispatchStep, HelpStep

\* Type correctness; in particular every pair any task ever records in a job's
\* history is one that can_transition_to allows.
THEOREM TypeCorrect == Spec => []TypeOK
BY InitTypes, NextTypes, PTL DEF Spec

-----------------------------------------------------------------------------
(* The inductive invariant                                                     *)

\* Nothing has happened yet.
LEMMA InitSafe == Init => Safe
BY DEF Init, Safe, Stages, Tracking, WorkerTracked, Cancelling, CancelSeen, Settling,
       Halting, Halted, Live, Outcomes

\* A worker is only ever spawned for a job that never had one: the help command
\* comes back to a job that is in progress or terminal, and is refused.
LEMMA SpawnOnlyFresh ==
    ASSUME TypeOK, Stages, NEW j \in Jobs, SpawnWorker(j),
           dispatch[j] = "saved" \/ help[j] = "schedule"
    PROVE  worker[j] = "none" /\ state[j] = "Pending"
<1>1. <<state[j], "InProgress">> \in Edges
  BY DEF SpawnWorker, TransitionTo, CanTransitionTo
<1>2. state[j] \in {"Pending", "Stuck"}
  BY <1>1 DEF Edges
<1> QED BY <1>2 DEF Stages

\* dispatch_job_inner.
LEMMA DispatchSafe ==
    ASSUME TypeOK, Safe, NEW j \in Jobs, CreateJob(j) \/ DispatchStep(j)
    PROVE  Safe'
<1> USE DEF TypeOK, TypeOK_Context, TypeOK_Tasks, Safe, Stages, Tracking,
            WorkerTracked, Cancelling, CancelSeen, Settling, Halting, Halted, Live,
            Outcomes
<1>1. CASE CreateJob(j)
  BY <1>1 DEF CreateJob, workerVars, stopVars, helperVars
<1>2. CASE SaveJob(j)
  BY <1>2 DEF SaveJob, ctxVars, workerVars, stopVars, helperVars
<1>3. CASE ScheduleJob(j) /\ SpawnWorker(j)
  <2>1. worker[j] = "none" /\ state[j] = "Pending"
    BY <1>3, SpawnOnlyFresh DEF ScheduleJob
  <2> QED BY <1>3, <2>1
          DEF ScheduleJob, SpawnWorker, TransitionTo, TrackWorker, stopVars, helperVars
<1>4. CASE ScheduleJob(j) /\ SpawnRefused(j)
  BY <1>4 DEF ScheduleJob, SpawnRefused, ctxVars, workerVars, stopVars, helperVars
<1> QED BY <1>1, <1>2, <1>3, <1>4 DEF DispatchStep, ScheduleJob

\* The worker.  The two delicate steps are marking, which leaves a transition that
\* rollback_context can match, and the rollback itself, which must find it.
LEMMA WorkerSafe ==
    ASSUME TypeOK, Safe, NEW j \in Jobs, WorkerStep(j)
    PROVE  Safe'
<1> USE DEF TypeOK, TypeOK_Context, TypeOK_Tasks, Safe, Stages, Tracking,
            WorkerTracked, Cancelling, CancelSeen, Settling, Halting, Halted, Live,
            Outcomes, Settled
<1>1. CASE RunEnds(j)
  BY <1>1 DEF RunEnds, ctxVars, stopVars, helperVars
<1>2. CASE RunExits(j) \/ RunPanics(j)
  <2>1. Stages'
    BY <1>2 DEF RunExits, RunPanics, Finish, ctxVars, stopVars, helperVars
  <2>2. Tracking'
    BY <1>2 DEF RunExits, RunPanics, Finish, ctxVars, stopVars, helperVars
  <2>3. Cancelling'
    BY <1>2 DEF RunExits, RunPanics, Finish, ctxVars, stopVars, helperVars
  <2>4. Settling'
    <3>1. /\ state[j] \notin Outcomes /\ db[j] \notin Outcomes
          /\ UNCHANGED <<state, transitions, db, outcome>>
          /\ worker' = [worker EXCEPT ![j] = "finished"]
      BY <1>2 DEF RunExits, RunPanics, Finish, ctxVars
    <3> QED BY <3>1
  <2>5. Halting'
    BY <1>2 DEF RunExits, RunPanics, Finish, ctxVars, stopVars, helperVars
  <2> QED BY <2>1, <2>2, <2>3, <2>4, <2>5 DEF Safe
<1>3. CASE CheckActive(j)
  <2>1. Stages'
    BY <1>3 DEF CheckActive, Finish, ctxVars, stopVars, helperVars
  <2>2. Tracking'
    BY <1>3 DEF CheckActive, Finish, ctxVars, stopVars, helperVars
  <2>3. Cancelling'
    BY <1>3 DEF CheckActive, Finish, ctxVars, stopVars, helperVars
  <2>4. Settling'
    <3>1. /\ state[j] \notin Outcomes /\ db[j] \notin Outcomes
          /\ UNCHANGED <<state, transitions, db, outcome>>
          /\ \/ worker' = [worker EXCEPT ![j] = "finished"]
             \/ worker' = [worker EXCEPT ![j] = "marking"]
      BY <1>3 DEF CheckActive, Finish, ctxVars
    <3>2. CASE worker' = [worker EXCEPT ![j] = "finished"]
      BY <3>1, <3>2
    <3>3. CASE worker' = [worker EXCEPT ![j] = "marking"]
      BY <3>1, <3>3
    <3> QED BY <3>1, <3>2, <3>3
  <2>5. Halting'
    BY <1>3 DEF CheckActive, Finish, ctxVars, stopVars, helperVars
  <2> QED BY <2>1, <2>2, <2>3, <2>4, <2>5 DEF Safe
<1>4. CASE MarkTerminal(j)
  <2>1. CASE Finish(j) /\ UNCHANGED ctxVars
    BY <1>4, <2>1 DEF MarkTerminal, Finish, ctxVars, stopVars, helperVars
  <2>2. CASE ~(Finish(j) /\ UNCHANGED ctxVars)
    <3>1. /\ TransitionTo(j, outcome[j])
          /\ previous' = [previous EXCEPT ![j] = state[j]]
          /\ worker' = [worker EXCEPT ![j] = "persisting"]
          /\ UNCHANGED <<repair_attempts, outcome, stopSent, aborted>>
          /\ state[j] \notin Settled \cup {"Cancelled"}
      BY <1>4, <2>2 DEF MarkTerminal
    <3>2. state[j] = "InProgress"
      BY <1>4, <3>1 DEF MarkTerminal
    <3>3. MatchesRollback(transitions'[j], outcome[j], "InProgress")
      <4>1. <<state[j], outcome[j]>> \in Edges
        BY <3>1 DEF TransitionTo, CanTransitionTo
      <4> QED BY <3>1, <3>2, <4>1, PushProperties DEF TransitionTo, MatchesRollback
    <3>4. /\ state' = [state EXCEPT ![j] = outcome[j]]
          /\ \A k \in Jobs \ {j} : transitions'[k] = transitions[k]
      BY <3>1 DEF TransitionTo
    <3>5. Stages'
      <4>1. worker[j] = "marking" /\ help[j] = "idle" /\ outcome[j] \in Settled
        BY <1>4 DEF MarkTerminal
      <4>2. UNCHANGED <<jobs, dispatch, cleanup, stopAll, help>>
        BY <1>4 DEF MarkTerminal, stopVars, helperVars
      <4> QED BY <3>1, <3>2, <3>4, <4>1, <4>2
    <3>6. Tracking'
      BY <1>4, <3>1, <3>2, <3>3, <3>4 DEF MarkTerminal, stopVars, helperVars
    <3>7. Cancelling'
      BY <1>4, <3>1, <3>2, <3>3, <3>4 DEF MarkTerminal, stopVars, helperVars
    <3>8. Settling'
      BY <1>4, <3>1, <3>2, <3>3, <3>4 DEF MarkTerminal, stopVars, helperVars
    <3>9. Halting'
      BY <1>4, <3>1, <3>2, <3>3, <3>4 DEF MarkTerminal, stopVars, helperVars
    <3> QED BY <3>5, <3>6, <3>7, <3>8, <3>9 DEF Safe
  <2> QED BY <2>1, <2>2
<1>5. CASE PersistOutcome(j)
  BY <1>5 DEF PersistOutcome, Finish, ctxVars, stopVars, helperVars
<1>6. CASE PersistFails(j)
  BY <1>6 DEF PersistFails, ctxVars, stopVars, helperVars
<1>7. CASE RollbackContext(j)
  <2>1. previous[j] = "InProgress"
    BY <1>7 DEF RollbackContext
  <2>2. CASE MatchesRollback(transitions[j], state[j], "InProgress")
    BY <1>7, <2>1, <2>2
       DEF RollbackContext, SetStateRollback, Finish, stopVars, helperVars
  <2>3. CASE ~MatchesRollback(transitions[j], state[j], "InProgress")
    BY <1>7, <2>1, <2>3
       DEF RollbackContext, SetStateRollback, Finish, ctxVars, stopVars, helperVars
  <2> QED BY <2>2, <2>3
<1>8. CASE AbortTakesEffect(j)
  BY <1>8 DEF AbortTakesEffect, Finish, ctxVars, stopVars, helperVars
<1> QED BY <1>1, <1>2, <1>3, <1>4, <1>5, <1>6, <1>7, <1>8 DEF WorkerStep

\* The cleanup task: what it decided under the read lock still holds when it
\* removes the entry under the write lock.
LEMMA CleanupSafe ==
    ASSUME TypeOK, Safe, NEW j \in Jobs, CleanupStep(j)
    PROVE  Safe'
<1> USE DEF TypeOK, TypeOK_Context, TypeOK_Tasks, Safe, Stages, Tracking,
            WorkerTracked, Cancelling, CancelSeen, Settling, Halting, Halted, Live,
            Outcomes, Settled
<1>1. CASE CleanupDecides(j)
  BY <1>1 DEF CleanupDecides, ShouldRemove, ctxVars, workerVars, stopVars, helperVars
<1>2. CASE CleanupRemoves(j)
  BY <1>2 DEF CleanupRemoves, ctxVars, workerVars, stopVars, helperVars
<1> QED BY <1>1, <1>2 DEF CleanupStep

\* What transition_to_cancelled does to the state, when it does anything.
LEMMA CancelEdge ==
    ASSUME TypeOK, NEW j \in Jobs, CanTransitionTo(state[j], "Cancelled")
    PROVE  state[j] \in {"Pending", "InProgress", "Stuck"}
BY DEF CanTransitionTo, Edges

\* handle.abort() on the entry of a worker that has not finished, if there is one.
LEMMA AbortEffect ==
    ASSUME TypeOK, NEW j \in Jobs, Abort(j)
    PROVE  /\ \A k \in Jobs : aborted[k] => aborted'[k]
           /\ \A k \in Jobs \ {j} : aborted'[k] = aborted[k]
           /\ jobs[j] # "absent" /\ worker[j] # "finished" => aborted'[j]
           /\ worker' = worker
BY DEF TypeOK, TypeOK_Tasks, Abort

\* stop().
LEMMA StopSafe ==
    ASSUME TypeOK, Safe, NEW j \in Jobs, StopBegins(j) \/ StopStep(j)
    PROVE  Safe'
<1> USE DEF TypeOK, TypeOK_Context, TypeOK_Tasks, Safe, Stages, Tracking,
            WorkerTracked, Cancelling, CancelSeen, Settling, Halting, Halted, Live,
            Outcomes, Settled
<1>1. CASE StopBegins(j)
  BY <1>1 DEF StopBegins, StopGoes, SignalStop, ctxVars, helperVars
<1>2. CASE StopCancels(j)
  <2>1. CASE CanTransitionTo(state[j], "Cancelled")
    BY <1>2, <2>1, CancelEdge
       DEF StopCancels, StopGoes, CanCancel, TransitionToCancelled, TransitionTo,
           workerVars, helperVars
  <2>2. CASE ~CanTransitionTo(state[j], "Cancelled")
    BY <1>2, <2>2
       DEF StopCancels, StopGoes, CanCancel, TransitionToCancelled, workerVars,
           helperVars
  <2> QED BY <2>1, <2>2
<1>3. CASE StopPins(j)
  BY <1>3 DEF StopPins, StopGoes, PinCancelPersistAndAbort, Abort, ctxVars, helperVars
<1>4. CASE StopPersists(j)
  BY <1>4 DEF StopPersists, StopGoes, PersistCancelled, ctxVars, workerVars, helperVars
<1>5. CASE StopPersistFails(j)
  BY <1>5 DEF StopPersistFails, StopGoes, NoJobChange, ctxVars, workerVars, helperVars
<1>6. CASE StopFinalizes(j)
  <2>1. Stages'
    BY <1>6 DEF StopFinalizes, StopGoes, FinalizeStop, Abort, ctxVars, helperVars
  <2>2. Tracking'
    BY <1>6, AbortEffect DEF StopFinalizes, FinalizeStop
  <2>3. Cancelling'
    BY <1>6 DEF StopFinalizes, StopGoes, FinalizeStop, Abort, ctxVars, helperVars
  <2>4. Settling'
    BY <1>6 DEF StopFinalizes, StopGoes, FinalizeStop, Abort, ctxVars, helperVars
  <2>5. Halting'
    BY <1>6 DEF StopFinalizes, StopGoes, FinalizeStop, Abort, ctxVars, helperVars
  <2> QED BY <2>1, <2>2, <2>3, <2>4, <2>5 DEF Safe
<1> QED BY <1>1, <1>2, <1>3, <1>4, <1>5, <1>6 DEF StopStep

\* A step that touches nothing but stop_all's own progress on a job.
LEMMA StopAllProgress ==
    ASSUME TypeOK, Safe, NEW j \in Jobs, NEW to \in StopAllPC, NoJobChange,
           stopAll' = [stopAll EXCEPT ![j] = to], UNCHANGED stop,
           worker[j] # "none" \/ to = "idle",
           to \in {"pin", "joined", "persist", "repin", "finalize"} => CancelSeen(j),
           to \in {"joined", "persist", "finalize", "settled"} => Halted(j)
    PROVE  Safe'
<1> USE DEF TypeOK, TypeOK_Context, TypeOK_Tasks, Safe, Stages, Tracking,
            WorkerTracked, Cancelling, CancelSeen, Settling, Halting, Halted, Live,
            Outcomes, Settled
<1> QED BY DEF NoJobChange, ctxVars, workerVars, helperVars

\* stop_all on one job.
LEMMA StopAllSafe ==
    ASSUME TypeOK, Safe, NEW j \in Jobs, StopAllJobStep(j)
    PROVE  Safe'
<1>1. CASE \/ StopAllMisses(j) \/ StopAllTimesOut(j) \/ StopAllSettles(j)
           \/ StopAllPersistFails(j)
  <2> USE DEF TypeOK, TypeOK_Tasks, Safe, Stages, Tracking, WorkerTracked, Cancelling,
              Halting, Halted, Live, StopPC, StopAllPC
  <2>1. CASE StopAllMisses(j)
    BY <1>1, <2>1, StopAllProgress DEF StopAllMisses, StopAllGoes
  <2>2. CASE StopAllTimesOut(j)
    <3>1. /\ stopAll[j] \in {"signal", "cancel", "pin"}
          /\ stopAll' = [stopAll EXCEPT ![j] = "timedout"]
          /\ UNCHANGED stop /\ NoJobChange
      BY <2>2 DEF StopAllTimesOut, StopAllGoes
    <3>2. worker[j] # "none"
      BY <3>1
    <3> QED BY <3>1, <3>2, StopAllProgress
  <2>3. CASE StopAllSettles(j)
    BY <1>1, <2>3, StopAllProgress DEF StopAllSettles, StopAllGoes
  <2>4. CASE StopAllPersistFails(j)
    BY <1>1, <2>4, StopAllProgress DEF StopAllPersistFails, StopAllGoes
  <2> QED BY <1>1, <2>1, <2>2, <2>3, <2>4
<1> USE DEF TypeOK, TypeOK_Context, TypeOK_Tasks, Safe, Stages, Tracking,
            WorkerTracked, Cancelling, CancelSeen, Settling, Halting, Halted, Live,
            Outcomes, Settled
<1>2. CASE StopAllSignals(j)
  BY <1>2 DEF StopAllSignals, StopAllGoes, SignalStop, ctxVars, helperVars
<1>3. CASE StopAllCancels(j) \/ StopAllRecancels(j)
  <2>1. /\ stopAll[j] \in {"cancel", "recancel"}
        /\ stopAll' = [stopAll EXCEPT
                        ![j] = IF CanCancel(j)
                               THEN (IF stopAll[j] = "cancel" THEN "pin" ELSE "repin")
                               ELSE "settled"]
        /\ UNCHANGED stop
        /\ TransitionToCancelled(j)
    BY <1>3 DEF StopAllCancels, StopAllRecancels, StopAllGoes
  <2>2. CASE CanTransitionTo(state[j], "Cancelled")
    <3>1. state[j] \in {"Pending", "InProgress", "Stuck"} /\ worker[j] # "none"
      BY <2>1, <2>2, CancelEdge
    <3>2. /\ state' = [state EXCEPT ![j] = "Cancelled"]
          /\ \A k \in Jobs \ {j} : transitions'[k] = transitions[k]
          /\ UNCHANGED <<jobs, workerVars, db, dispatch, cleanup, helperVars>>
      BY <2>1, <2>2 DEF TransitionToCancelled, TransitionTo
    <3>3. stopAll' = [stopAll EXCEPT
                        ![j] = IF stopAll[j] = "cancel" THEN "pin" ELSE "repin"]
      BY <2>1, <2>2 DEF CanCancel
    <3>4. Stages'
      BY <2>1, <3>1, <3>2, <3>3 DEF workerVars, helperVars
    <3>5. Tracking'
      BY <2>1, <3>1, <3>2, <3>3 DEF workerVars, helperVars
    <3>6. Cancelling'
      BY <2>1, <3>1, <3>2, <3>3 DEF workerVars, helperVars
    <3>7. Settling'
      BY <2>1, <3>1, <3>2, <3>3 DEF workerVars, helperVars
    <3>8. Halting'
      BY <2>1, <3>1, <3>2, <3>3 DEF workerVars, helperVars
    <3> QED BY <3>4, <3>5, <3>6, <3>7, <3>8 DEF Safe
  <2>3. CASE ~CanTransitionTo(state[j], "Cancelled") /\ state[j] = "Cancelled"
    BY <2>1, <2>3 DEF CanCancel, TransitionToCancelled, workerVars, helperVars
  <2>4. CASE ~CanTransitionTo(state[j], "Cancelled") /\ state[j] # "Cancelled"
    <3>1. state[j] # "InProgress"
      BY <2>4 DEF CanTransitionTo, Edges
    <3>2. worker[j] # "running" /\ worker[j] # "none"
      BY <2>1, <3>1, <2>4
    <3> QED BY <2>1, <2>4, <3>2
            DEF CanCancel, TransitionToCancelled, workerVars, helperVars
  <2> QED BY <2>2, <2>3, <2>4
<1>4. CASE StopAllPins(j) \/ StopAllRepins(j)
  <2>1. PICK to \in {"joined", "persist"} :
          /\ stopAll[j] \in {"pin", "repin"}
          /\ stopAll' = [stopAll EXCEPT ![j] = to]
          /\ UNCHANGED stop
          /\ PinCancelPersistAndAbort(j)
    BY <1>4 DEF StopAllPins, StopAllRepins, StopAllGoes
  <2>2. /\ jobs' = [jobs EXCEPT ![j] = IF @ = "absent" THEN @ ELSE "pinned"]
        /\ Abort(j)
        /\ UNCHANGED <<state, transitions, db, dispatch, cleanup, help, worker, outcome,
                       previous>>
    BY <2>1 DEF PinCancelPersistAndAbort, Abort, ctxVars, helperVars
  <2>3. Stages'
    BY <2>1, <2>2, AbortEffect
  <2>4. Tracking'
    BY <2>2, AbortEffect
  <2>5. Cancelling'
    BY <2>1, <2>2, AbortEffect
  <2>6. Settling'
    BY <2>2
  <2>7. Halting'
    BY <2>1, <2>2, AbortEffect
  <2> QED BY <2>3, <2>4, <2>5, <2>6, <2>7 DEF Safe
<1>5. CASE StopAllPersists(j)
  BY <1>5 DEF StopAllPersists, StopAllGoes, PersistCancelled, ctxVars, workerVars,
              helperVars
<1>6. CASE StopAllFinalizes(j)
  <2>1. Stages'
    BY <1>6
       DEF StopAllFinalizes, StopAllGoes, FinalizeStop, Abort, ctxVars, helperVars
  <2>2. Tracking'
    BY <1>6, AbortEffect DEF StopAllFinalizes, FinalizeStop
  <2>3. Cancelling'
    BY <1>6
       DEF StopAllFinalizes, StopAllGoes, FinalizeStop, Abort, ctxVars, helperVars
  <2>4. Settling'
    BY <1>6
       DEF StopAllFinalizes, StopAllGoes, FinalizeStop, Abort, ctxVars, helperVars
  <2>5. Halting'
    BY <1>6
       DEF StopAllFinalizes, StopAllGoes, FinalizeStop, Abort, ctxVars, helperVars
  <2> QED BY <2>1, <2>2, <2>3, <2>4, <2>5 DEF Safe
<1> QED BY <1>1, <1>2, <1>3, <1>4, <1>5, <1>6 DEF StopAllJobStep

\* stop_all between its jobs.
LEMMA ShutdownSafe ==
    ASSUME TypeOK, Safe, StopAllBegins \/ StopAllJoins \/ StopAllReturns
    PROVE  Safe'
<1> USE DEF TypeOK, TypeOK_Context, TypeOK_Tasks, Safe, Stages, Tracking,
            WorkerTracked, Cancelling, CancelSeen, Settling, Halting, Halted, Live,
            Outcomes, Settled
<1>1. CASE StopAllBegins
  <2>1. Stages'
    BY <1>1 DEF StopAllBegins, NoJobChange, ctxVars, workerVars, helperVars
  <2>2. Tracking'
    BY <1>1 DEF StopAllBegins, NoJobChange, ctxVars, workerVars, helperVars
  <2>3. Cancelling'
    BY <1>1 DEF StopAllBegins, NoJobChange, ctxVars, workerVars, helperVars
  <2>4. Settling'
    BY <1>1 DEF StopAllBegins, NoJobChange, ctxVars, workerVars, helperVars
  <2>5. Halting'
    BY <1>1 DEF StopAllBegins, NoJobChange, ctxVars, workerVars, helperVars
  <2> QED BY <2>1, <2>2, <2>3, <2>4, <2>5 DEF Safe
<1>2. CASE StopAllJoins \/ StopAllReturns
  <2>1. Stages'
    BY <1>2
       DEF StopAllJoins, StopAllReturns, NoJobChange, ctxVars, workerVars, helperVars
  <2>2. Tracking'
    BY <1>2
       DEF StopAllJoins, StopAllReturns, NoJobChange, ctxVars, workerVars, helperVars
  <2>3. Cancelling'
    BY <1>2
       DEF StopAllJoins, StopAllReturns, NoJobChange, ctxVars, workerVars, helperVars
  <2>4. Settling'
    BY <1>2
       DEF StopAllJoins, StopAllReturns, NoJobChange, ctxVars, workerVars, helperVars
  <2>5. Halting'
    BY <1>2
       DEF StopAllJoins, StopAllReturns, NoJobChange, ctxVars, workerVars, helperVars
  <2> QED BY <2>1, <2>2, <2>3, <2>4, <2>5 DEF Safe
<1> QED BY <1>1, <1>2

\* The cancel_job tool, the help command and self-repair.
LEMMA OthersSafe ==
    ASSUME TypeOK, Safe, NEW j \in Jobs,
           \/ CancelJobTool(j) \/ HelpReads(j) \/ HelpStep(j)
           \/ RepairDetects(j) \/ RepairJob(j)
    PROVE  Safe'
<1> USE DEF TypeOK, TypeOK_Context, TypeOK_Tasks, Safe, Stages, Tracking,
            WorkerTracked, Cancelling, CancelSeen, Settling, Halting, Halted, Live,
            Outcomes, Settled
<1>1. CASE CancelJobTool(j)
  <2>1. state[j] \in {"Pending", "InProgress", "Stuck"}
    BY <1>1, CancelEdge DEF CancelJobTool, TransitionTo
  <2>2. /\ state' = [state EXCEPT ![j] = "Cancelled"]
        /\ \A k \in Jobs \ {j} : transitions'[k] = transitions[k]
    BY <1>1 DEF CancelJobTool, TransitionTo
  <2>3. Stages'
    BY <1>1, <2>1, <2>2 DEF CancelJobTool, workerVars, stopVars, helperVars
  <2>4. Tracking'
    BY <1>1, <2>1, <2>2 DEF CancelJobTool, workerVars, stopVars, helperVars
  <2>5. Cancelling'
    BY <1>1, <2>1, <2>2 DEF CancelJobTool, workerVars, stopVars, helperVars
  <2>6. Settling'
    BY <1>1, <2>1, <2>2 DEF CancelJobTool, workerVars, stopVars, helperVars
  <2>7. Halting'
    BY <1>1, <2>1, <2>2 DEF CancelJobTool, workerVars, stopVars, helperVars
  <2> QED BY <2>3, <2>4, <2>5, <2>6, <2>7 DEF Safe
<1>2. CASE HelpReads(j)
  BY <1>2 DEF HelpReads, ctxVars, workerVars, stopVars
<1>3. CASE HelpRecovers(j) /\ AttemptRecovery(j)
  BY <1>3 DEF HelpRecovers, AttemptRecovery, TransitionTo, workerVars, stopVars
<1>4. CASE HelpRecovers(j) /\ ~AttemptRecovery(j)
  BY <1>4 DEF HelpRecovers, ctxVars, workerVars, stopVars
<1>5. CASE HelpSchedules(j)
  <2>1. ~SpawnWorker(j)
    BY <1>5, SpawnOnlyFresh DEF HelpSchedules
  <2> QED BY <1>5, <2>1 DEF HelpSchedules, SpawnRefused, ctxVars, workerVars, stopVars
<1>6. CASE RepairDetects(j)
  BY <1>6 DEF RepairDetects, ctxVars, workerVars, stopVars
<1>7. CASE RepairJob(j) /\ AttemptRecovery(j)
  BY <1>7 DEF RepairJob, AttemptRecovery, TransitionTo, workerVars, stopVars
<1>8. CASE RepairJob(j) /\ ~AttemptRecovery(j)
  BY <1>8 DEF RepairJob, ctxVars, workerVars, stopVars
<1> QED BY <1>1, <1>2, <1>3, <1>4, <1>5, <1>6, <1>7, <1>8 DEF HelpStep

\* Every step of every task preserves the inductive invariant.
LEMMA NextSafe == IInv /\ [Next]_vars => IInv'
<1> SUFFICES ASSUME IInv, [Next]_vars PROVE IInv'
  OBVIOUS
<1>1. TypeOK'
  BY NextTypes DEF IInv
<1>2. CASE Next
  BY <1>1, <1>2, DispatchSafe, WorkerSafe, CleanupSafe, StopSafe, StopAllSafe,
     ShutdownSafe, OthersSafe
     DEF Next, IInv
<1>3. CASE UNCHANGED vars
  BY <1>1, <1>3
     DEF IInv, Safe, Stages, Tracking, WorkerTracked, Cancelling, CancelSeen, Settling,
         Halting, Halted, vars, ctxVars, workerVars, stopVars, helperVars
<1> QED BY <1>2, <1>3

\* The inductive invariant holds in every reachable state.
LEMMA JobInvariant == Spec => []IInv
<1>1. Init => IInv
  BY InitTypes, InitSafe DEF IInv
<1> QED BY <1>1, NextSafe, PTL DEF Spec

-----------------------------------------------------------------------------
(* What follows from it                                                        *)

\* No live worker is stranded outside the scheduler's map.
THEOREM LiveWorkerTracked == Spec => []WorkerTracked
<1>1. IInv => WorkerTracked
  BY DEF IInv, Safe, Tracking
<1> QED BY <1>1, JobInvariant, PTL

\* Memory and database agree on every success and failure that no worker is still
\* writing or rolling back.
THEOREM OutcomesDurable == Spec => []DurableOutcome
<1>1. IInv => DurableOutcome
  BY DEF IInv, Safe, Settling, Outcomes, DurableOutcome
<1> QED BY <1>1, JobInvariant, PTL

\* What stop_all has dealt with no longer executes.
THEOREM ShutdownStops == Spec => []ShutdownStopsWork
<1>1. IInv => ShutdownStopsWork
  BY DEF IInv, Safe, Halting, Halted, ShutdownStopsWork
<1> QED BY <1>1, JobInvariant, PTL

-----------------------------------------------------------------------------
(* How each piece of state changes                                             *)

Spawns(j) ==
    /\ worker[j] = "none" /\ HasCapacity
    /\ jobs' = [jobs EXCEPT ![j] = "tracked"]

\* An entry appears in the scheduler's map only when a worker is spawned, within
\* the capacity and for a job that has none.
LEMMA MapSteps ==
    ASSUME IInv, [Next]_vars
    PROVE  \/ \A k \in Jobs : jobs[k] = "absent" => jobs'[k] = "absent"
           \/ \E j \in Jobs : Spawns(j)
<1> USE DEF IInv, TypeOK, TypeOK_Tasks
<1> DEFINE Shrinks == \A k \in Jobs : jobs[k] = "absent" => jobs'[k] = "absent"
<1>1. ASSUME NEW j \in Jobs, CreateJob(j) \/ SaveJob(j) \/ WorkerStep(j)
      PROVE  Shrinks
  BY <1>1 DEF CreateJob, SaveJob, WorkerStep, RunEnds, RunExits, RunPanics, CheckActive,
              MarkTerminal, PersistOutcome, PersistFails, RollbackContext,
              AbortTakesEffect
<1>2. ASSUME NEW j \in Jobs, ScheduleJob(j) \/ HelpSchedules(j)
      PROVE  Shrinks \/ Spawns(j)
  BY <1>2, SpawnOnlyFresh
     DEF ScheduleJob, HelpSchedules, SpawnRefused, SpawnWorker, TrackWorker, Spawns, Safe
<1>3. ASSUME NEW j \in Jobs, CleanupStep(j) PROVE Shrinks
  BY <1>3 DEF CleanupStep, CleanupDecides, CleanupRemoves
<1>4. ASSUME NEW j \in Jobs, CriticalSection(j) PROVE Shrinks
  BY <1>4 DEF CriticalSection, SignalStop, TransitionToCancelled,
              PinCancelPersistAndAbort, PersistCancelled, FinalizeStop, NoJobChange
<1>5. ASSUME NEW j \in Jobs, StopBegins(j) \/ StopStep(j) \/ StopAllJobStep(j)
      PROVE  Shrinks
  BY <1>4, <1>5, StopIsCritical
<1>6. ASSUME NEW j \in Jobs,
             \/ CancelJobTool(j) \/ HelpReads(j) \/ HelpRecovers(j)
             \/ RepairDetects(j) \/ RepairJob(j)
      PROVE  Shrinks
  BY <1>6 DEF CancelJobTool, HelpReads, HelpRecovers, RepairDetects, RepairJob
<1>7. ASSUME StopAllBegins \/ StopAllJoins \/ StopAllReturns PROVE Shrinks
  BY <1>7 DEF StopAllBegins, StopAllJoins, StopAllReturns, NoJobChange
<1>8. ASSUME UNCHANGED vars PROVE Shrinks
  BY <1>8 DEF vars
<1> HIDE DEF IInv, TypeOK, TypeOK_Tasks, Shrinks
<1>9. CASE \E j \in Jobs : ScheduleJob(j) \/ HelpSchedules(j)
  BY <1>2, <1>9 DEF Shrinks
<1>10. CASE ~\E j \in Jobs : ScheduleJob(j) \/ HelpSchedules(j)
  <2>1. Shrinks
    BY <1>1, <1>3, <1>5, <1>6, <1>7, <1>8, <1>10 DEF Next, DispatchStep, HelpStep
  <2> QED BY <2>1 DEF Shrinks
<1> QED BY <1>9, <1>10

\* A success or failure in the database is never overwritten: not by a late
\* worker, not by the cancellation that stop and stop_all persist.
LEMMA OutcomeKept ==
    ASSUME IInv, [Next]_vars, NEW k \in Jobs, db[k] \in Outcomes
    PROVE  db'[k] = db[k]
<1> USE DEF IInv, TypeOK, TypeOK_Tasks, Safe
<1>1. state[k] \in Outcomes /\ worker[k] = "finished"
  BY DEF Settling
<1>2. ASSUME NEW j \in Jobs, CreateJob(j) \/ SaveJob(j) \/ ScheduleJob(j)
      PROVE  db'[k] = db[k]
  BY <1>1, <1>2 DEF CreateJob, SaveJob, ScheduleJob, Stages
<1>3. ASSUME NEW j \in Jobs, WorkerStep(j) PROVE db'[k] = db[k]
  BY <1>1, <1>3
     DEF WorkerStep, RunEnds, RunExits, RunPanics, CheckActive, MarkTerminal,
         PersistOutcome, PersistFails, RollbackContext, AbortTakesEffect
<1>4. ASSUME NEW j \in Jobs, StopPersists(j) \/ StopAllPersists(j)
      PROVE  db'[k] = db[k]
  <2>1. j # k
    BY <1>1, <1>4 DEF StopPersists, StopAllPersists, StopGoes, StopAllGoes, Cancelling,
                      CancelSeen, Outcomes
  <2> QED BY <1>4, <2>1 DEF StopPersists, StopAllPersists, PersistCancelled
<1>5. ASSUME NEW j \in Jobs, StopBegins(j) \/ StopStep(j) \/ StopAllJobStep(j)
      PROVE  db'[k] = db[k]
  <2>1. CASE StopPersists(j) \/ StopAllPersists(j)
    BY <1>4, <2>1
  <2>2. CASE ~(StopPersists(j) \/ StopAllPersists(j))
    BY <1>5, <2>2
       DEF StopBegins, StopStep, StopCancels, StopPins, StopPersistFails,
           StopFinalizes, StopAllJobStep, StopAllSignals, StopAllMisses,
           StopAllCancels, StopAllPins, StopAllTimesOut, StopAllSettles,
           StopAllRecancels, StopAllRepins, StopAllPersistFails, StopAllFinalizes,
           SignalStop, TransitionToCancelled, PinCancelPersistAndAbort, FinalizeStop,
           NoJobChange
  <2> QED BY <2>1, <2>2
<1>6. ASSUME NEW j \in Jobs,
             \/ CleanupStep(j) \/ CancelJobTool(j) \/ HelpReads(j) \/ HelpStep(j)
             \/ RepairDetects(j) \/ RepairJob(j)
      PROVE  db'[k] = db[k]
  BY <1>6 DEF CleanupStep, CleanupDecides, CleanupRemoves, CancelJobTool, HelpReads,
              HelpStep, HelpRecovers, HelpSchedules, RepairDetects, RepairJob
<1>7. CASE StopAllBegins \/ StopAllJoins \/ StopAllReturns
  BY <1>7 DEF StopAllBegins, StopAllJoins, StopAllReturns, NoJobChange
<1>8. CASE UNCHANGED vars
  BY <1>8 DEF vars
<1> HIDE DEF IInv, TypeOK, TypeOK_Tasks, Safe
<1> QED BY <1>2, <1>3, <1>5, <1>6, <1>7, <1>8 DEF Next, DispatchStep

-----------------------------------------------------------------------------
(* Action properties and the capacity bound                                    *)

\* No job is executed by two workers at a time.
THEOREM NoDuplicates == Spec => NoDuplicateExecution
<1>1. IInv /\ [Next]_vars =>
        [\A j \in Jobs :
           jobs[j] = "absent" /\ jobs'[j] = "tracked" => worker[j] \notin Live]_vars
  <2> SUFFICES ASSUME IInv, [Next]_vars, NEW j \in Jobs,
                      jobs[j] = "absent", jobs'[j] = "tracked"
               PROVE  worker[j] \notin Live
    OBVIOUS
  <2>1. worker[j] = "none"
    BY MapSteps DEF Spawns, IInv, TypeOK, TypeOK_Tasks
  <2> QED BY <2>1 DEF Live
<1> QED BY <1>1, JobInvariant, PTL DEF Spec, NoDuplicateExecution

\* A recorded success or failure is final, in the database and in memory.
THEOREM OutcomesFinal == Spec => OutcomeFinal
<1>1. IInv /\ IInv' /\ [Next]_vars =>
        [\A j \in Jobs : db[j] \in {"Completed", "Failed"} =>
           db'[j] = db[j] /\ state'[j] = state[j]]_vars
  <2> SUFFICES ASSUME IInv, IInv', [Next]_vars, NEW j \in Jobs, db[j] \in Outcomes
               PROVE  db'[j] = db[j] /\ state'[j] = state[j]
    BY DEF Outcomes
  <2>1. db'[j] = db[j]
    BY OutcomeKept
  <2> QED BY <2>1 DEF IInv, Safe, Settling
<1> QED BY <1>1, JobInvariant, PTL DEF Spec, OutcomeFinal

\* Some jobs are tracked; a set of jobs is finite.
LEMMA TrackedFinite ==
    /\ IsFiniteSet(TrackedJobs) /\ Cardinality(TrackedJobs) \in Nat
BY LimitAssumption, FS_Subset, FS_CardinalityType DEF TrackedJobs

\* Every step keeps the map within its capacity.
LEMMA CapacityStep == IInv /\ ParallelBound /\ [Next]_vars => ParallelBound'
<1> SUFFICES ASSUME IInv, ParallelBound, [Next]_vars PROVE ParallelBound'
  OBVIOUS
<1>1. CASE \A k \in Jobs : jobs[k] = "absent" => jobs'[k] = "absent"
  <2>1. TrackedJobs' \subseteq TrackedJobs
    BY <1>1 DEF TrackedJobs
  <2>2. /\ Cardinality(TrackedJobs') <= Cardinality(TrackedJobs)
        /\ Cardinality(TrackedJobs') \in Nat
    BY <2>1, TrackedFinite, FS_Subset, FS_CardinalityType
  <2> QED BY <2>2, TrackedFinite, LimitAssumption DEF ParallelBound
<1>2. ASSUME NEW j \in Jobs, Spawns(j) PROVE ParallelBound'
  <2>1. TrackedJobs' = TrackedJobs \cup {j}
    BY <1>2 DEF Spawns, TrackedJobs, IInv, TypeOK, TypeOK_Tasks
  <2>2. j \notin TrackedJobs
    BY <1>2 DEF Spawns, TrackedJobs, IInv, Safe, Stages
  <2>3. Cardinality(TrackedJobs') = Cardinality(TrackedJobs) + 1
    BY <2>1, <2>2, TrackedFinite, FS_AddElement
  <2> QED BY <1>2, <2>3, TrackedFinite, LimitAssumption
          DEF Spawns, HasCapacity, ParallelBound
<1> QED BY <1>1, <1>2, MapSteps

\* The map never holds more than max_parallel_jobs entries.
THEOREM CapacityRespected == Spec => []ParallelBound
<1>1. Init => ParallelBound
  <2> SUFFICES ASSUME Init PROVE ParallelBound
    OBVIOUS
  <2>1. TrackedJobs = {}
    BY DEF Init, TrackedJobs
  <2> QED BY <2>1, FS_EmptySet, LimitAssumption DEF ParallelBound
<1> QED BY <1>1, CapacityStep, JobInvariant, PTL DEF Spec

-----------------------------------------------------------------------------
(* The transition history                                                      *)

\* HistoryConsistent for one history h of a job in state s.
Path(h, s) ==
    /\ Len(h) <= MaxTransitions
    /\ h # <<>> => Newest(h)[2] = s
    /\ \A i \in 1 .. Len(h) - 1 : h[i][2] = h[i + 1][1]

\* A pair from the current state extends the path, also when the oldest pair has
\* to go.
LEMMA PushPath ==
    ASSUME NEW h \in Seq(Edges), NEW s, NEW t, <<s, t>> \in Edges, Path(h, s)
    PROVE  Path(Push(h, <<s, t>>), t)
<1> DEFINE e == <<s, t>>
           p == Append(h, e)
           n == Len(p)
<1>1. /\ p \in Seq(Edges) /\ n = Len(h) + 1 /\ Len(h) \in Nat
      /\ p[n] = e /\ \A i \in 1 .. Len(h) : p[i] = h[i]
  BY AppendProperties, LenProperties
<1>2. \A i \in 1 .. n - 1 : p[i][2] = p[i + 1][1]
  <2> SUFFICES ASSUME NEW i \in 1 .. n - 1 PROVE p[i][2] = p[i + 1][1]
    OBVIOUS
  <2>1. CASE i < Len(h)
    BY <1>1, <2>1 DEF Path
  <2>2. CASE i = Len(h)
    <3>1. h # <<>>
      BY <1>1, <2>2, EmptySeq
    <3> QED BY <1>1, <2>2, <3>1 DEF Path, Newest
  <2> QED BY <1>1, <2>1, <2>2
<1>3. CASE n > MaxTransitions
  <2> DEFINE q == SubSeq(p, n - MaxTransitions + 1, n)
  <2>1. /\ q \in Seq(Edges) /\ Len(q) = MaxTransitions
        /\ \A i \in 1 .. MaxTransitions : q[i] = p[n - MaxTransitions + i]
    BY <1>1, <1>3, SubSeqProperties, MaxTransitionsAssumption
  <2>2. \A i \in 1 .. MaxTransitions - 1 : q[i][2] = q[i + 1][1]
    <3> SUFFICES ASSUME NEW i \in 1 .. MaxTransitions - 1
                 PROVE  q[i][2] = q[i + 1][1]
      OBVIOUS
    <3> DEFINE k == n - MaxTransitions + i
    <3> HIDE DEF q, p, n
    <3>1. k \in 1 .. n - 1 /\ n - MaxTransitions + (i + 1) = k + 1
      BY <1>1, <1>3, MaxTransitionsAssumption
    <3>2. q[i] = p[k] /\ q[i + 1] = p[k + 1]
      BY <2>1, <3>1, MaxTransitionsAssumption
    <3> QED BY <1>2, <3>1, <3>2
  <2>3. q[MaxTransitions] = e
    BY <1>1, <1>3, <2>1, MaxTransitionsAssumption
  <2>4. Push(h, e) = q
    BY <1>3 DEF Push
  <2> HIDE DEF q
  <2>5. Newest(q)[2] = t
    BY <2>1, <2>3 DEF Newest
  <2>6. Path(q, t)
    BY <2>1, <2>2, <2>5, MaxTransitionsAssumption DEF Path
  <2> QED BY <2>4, <2>6
<1>4. CASE ~(n > MaxTransitions)
  <2>1. Push(h, e) = p
    BY <1>4 DEF Push
  <2>2. Newest(p)[2] = t /\ Len(p) <= MaxTransitions
    BY <1>1, <1>4, MaxTransitionsAssumption DEF Newest
  <2> HIDE DEF p
  <2> QED BY <1>2, <2>1, <2>2 DEF Path
<1> QED BY <1>3, <1>4

\* Undoing the newest pair leaves a path to where that pair came from.
LEMMA PopPath ==
    ASSUME NEW h \in Seq(Edges), NEW s, NEW r, Path(h, s),
           MatchesRollback(h, s, r)
    PROVE  Path(Pop(h), r)
<1> DEFINE n == Len(h)
           q == Pop(h)
<1>1. h # <<>> /\ n \in Nat \ {0} /\ h[n] = <<r, s>>
  BY EmptySeq DEF MatchesRollback, Newest
<1>2. q \in Seq(Edges) /\ Len(q) = n - 1 /\ \A i \in 1 .. n - 1 : q[i] = h[i]
  <2>1. \A i \in 1 .. n - 1 : h[i] \in Edges
    BY <1>1, LenProperties
  <2>2. /\ q \in Seq(Edges)
        /\ Len(q) = IF 1 <= n - 1 THEN (n - 1) - 1 + 1 ELSE 0
        /\ \A i \in 1 .. (n - 1) - 1 + 1 : q[i] = h[1 + i - 1]
    BY <1>1, <2>1, SubSeqProperties DEF Pop
  <2> HIDE DEF q, n
  <2>3. \A i \in 1 .. n - 1 : 1 + i - 1 = i /\ i \in 1 .. (n - 1) - 1 + 1
    BY <1>1
  <2> QED BY <1>1, <2>2, <2>3
<1>3. q # <<>> => Newest(q)[2] = r
  <2> SUFFICES ASSUME q # <<>> PROVE Newest(q)[2] = r
    OBVIOUS
  <2>1. n - 1 \in Nat \ {0}
    BY <1>2, EmptySeq
  <2>2. Newest(q) = h[n - 1] /\ h[n - 1][2] = h[n][1]
    BY <1>1, <1>2, <2>1 DEF Newest, Path
  <2> QED BY <1>1, <2>2
<1>4. Len(q) <= MaxTransitions
  BY <1>1, <1>2, MaxTransitionsAssumption DEF Path
<1>5. ASSUME NEW i \in 1 .. Len(q) - 1 PROVE q[i][2] = q[i + 1][1]
  <2>1. i \in 1 .. n - 1 /\ i + 1 \in 1 .. n - 1
    BY <1>1, <1>2
  <2> QED BY <1>2, <2>1 DEF Path
<1> QED BY <1>3, <1>4, <1>5 DEF Path

\* The only ways in which a task changes a job's state or history.
ContextStep ==
    \/ \E j \in Jobs : \E t \in State : TransitionTo(j, t)
    \/ \E j \in Jobs : \E s \in State : SetStateRollback(j, s)
    \/ \E j \in Jobs : state[j] = "absent" /\ state' = [state EXCEPT ![j] = "Pending"]
                       /\ UNCHANGED transitions
    \/ UNCHANGED <<state, transitions>>

\* Every step changes a job context in one of the ways ContextStep lists.
LEMMA ContextSteps == TypeOK /\ [Next]_vars => ContextStep
<1> SUFFICES ASSUME TypeOK, [Next]_vars PROVE ContextStep
  OBVIOUS
<1>0. ASSUME NEW j \in Jobs, NEW t, TransitionTo(j, t) PROVE ContextStep
  BY <1>0, TransitionTypes DEF ContextStep, TypeOK
<1>1. ASSUME NEW j \in Jobs, CreateJob(j) \/ SaveJob(j) PROVE ContextStep
  BY <1>1 DEF CreateJob, SaveJob, ContextStep, ctxVars
<1>2. ASSUME NEW j \in Jobs, ScheduleJob(j) \/ HelpSchedules(j) PROVE ContextStep
  BY <1>0, <1>2
     DEF ScheduleJob, HelpSchedules, SpawnWorker, SpawnRefused, ContextStep, ctxVars
<1>3. ASSUME NEW j \in Jobs, WorkerStep(j) PROVE ContextStep
  <2>1. CASE MarkTerminal(j)
    BY <1>0, <2>1 DEF MarkTerminal, ContextStep, ctxVars
  <2>2. CASE RollbackContext(j)
    BY <2>2 DEF RollbackContext, ContextStep, TypeOK, TypeOK_Tasks
  <2> QED BY <1>3, <2>1, <2>2
          DEF WorkerStep, RunEnds, RunExits, RunPanics, CheckActive, PersistOutcome,
              PersistFails, AbortTakesEffect, ContextStep, ctxVars
<1>4. ASSUME NEW j \in Jobs, CriticalSection(j) PROVE ContextStep
  <2>1. CASE TransitionToCancelled(j)
    BY <1>0, <2>1 DEF TransitionToCancelled, ContextStep
  <2> QED BY <1>4, <2>1
          DEF CriticalSection, SignalStop, PinCancelPersistAndAbort, PersistCancelled,
              FinalizeStop, NoJobChange, ContextStep, ctxVars
<1>5. ASSUME NEW j \in Jobs, CleanupStep(j) PROVE ContextStep
  BY <1>5 DEF CleanupStep, CleanupDecides, CleanupRemoves, ContextStep, ctxVars
<1>6. ASSUME NEW j \in Jobs, CancelJobTool(j) PROVE ContextStep
  BY <1>0, <1>6 DEF CancelJobTool
<1>7. ASSUME NEW j \in Jobs, HelpRecovers(j) \/ RepairJob(j) PROVE ContextStep
  <2>1. CASE AttemptRecovery(j)
    BY <1>0, <2>1 DEF AttemptRecovery
  <2> QED BY <1>7, <2>1 DEF HelpRecovers, RepairJob, ContextStep, ctxVars
<1>8. ASSUME NEW j \in Jobs, HelpReads(j) \/ RepairDetects(j) PROVE ContextStep
  BY <1>8 DEF HelpReads, RepairDetects, ContextStep, ctxVars
<1>9. CASE StopAllBegins \/ StopAllJoins \/ StopAllReturns
  BY <1>9 DEF StopAllBegins, StopAllJoins, StopAllReturns, NoJobChange, ContextStep,
              ctxVars
<1>10. CASE UNCHANGED vars
  BY <1>10 DEF vars, ContextStep, ctxVars
<1> QED BY <1>1, <1>2, <1>3, <1>4, <1>5, <1>6, <1>7, <1>8, <1>9, <1>10, StopIsCritical
        DEF Next, DispatchStep, HelpStep

\* Every step keeps every history a path to the job's current state.
LEMMA HistoryStep == TypeOK /\ HistoryConsistent /\ [Next]_vars => HistoryConsistent'
<1> SUFFICES ASSUME TypeOK, HistoryConsistent, [Next]_vars, NEW k \in Jobs
             PROVE  Path(transitions'[k], state'[k])
  BY DEF HistoryConsistent, Path
<1>1. Path(transitions[k], state[k]) /\ transitions[k] \in Seq(Edges)
  BY DEF HistoryConsistent, Path, TypeOK, TypeOK_Context
<1> USE DEF TypeOK, TypeOK_Context
<1>2. ASSUME NEW j \in Jobs, NEW t \in State, TransitionTo(j, t)
      PROVE  Path(transitions'[k], state'[k])
  <2>1. CASE j = k
    BY <1>1, <1>2, <2>1, PushPath DEF TransitionTo, CanTransitionTo
  <2>2. CASE j # k
    BY <1>1, <1>2, <2>2 DEF TransitionTo
  <2> QED BY <2>1, <2>2
<1>3. ASSUME NEW j \in Jobs, NEW s \in State, SetStateRollback(j, s)
      PROVE  Path(transitions'[k], state'[k])
  <2>1. CASE j = k /\ MatchesRollback(transitions[j], state[j], s)
    BY <1>1, <1>3, <2>1, PopPath DEF SetStateRollback
  <2>2. CASE ~(j = k /\ MatchesRollback(transitions[j], state[j], s))
    BY <1>1, <1>3, <2>2 DEF SetStateRollback, ctxVars
  <2> QED BY <2>1, <2>2
<1>4. ASSUME NEW j \in Jobs, state[j] = "absent", UNCHANGED transitions,
             state' = [state EXCEPT ![j] = "Pending"]
      PROVE  Path(transitions'[k], state'[k])
  <2>1. CASE j = k
    <3>1. transitions[k] = <<>>
      <4> SUFFICES ASSUME transitions[k] # <<>> PROVE FALSE
        OBVIOUS
      <4>1. Newest(transitions[k]) \in Edges /\ Newest(transitions[k])[2] = "absent"
        BY <1>1, <1>4, <2>1, EmptySeq, ElementOfSeq DEF Path, Newest
      <4>2. Newest(transitions[k])[2] \in State
        BY <4>1, EdgesAreStates
      <4> QED BY <4>1, <4>2 DEF State
    <3> QED BY <1>1, <1>4, <3>1 DEF Path
  <2>2. CASE j # k
    BY <1>1, <1>4, <2>2
  <2> QED BY <2>1, <2>2
<1>5. CASE UNCHANGED <<state, transitions>>
  BY <1>1, <1>5
<1> QED BY <1>2, <1>3, <1>4, <1>5, ContextSteps DEF ContextStep

\* A job's kept history is a path of the state machine, within the cap, that ends
\* in the job's state.
THEOREM HistoryIsPath == Spec => []HistoryConsistent
<1>1. Init => HistoryConsistent
  BY EmptySeq, MaxTransitionsAssumption DEF Init, HistoryConsistent
<1> QED BY <1>1, TypeCorrect, HistoryStep, PTL DEF Spec

=============================================================================
