------------------------ MODULE ContainerJobsProofs ------------------------
(* Safety of a sandboxed job, for any number of crashes of the process.        *)
(*                                                                             *)
(* Each property says that two callers do not cross, and what keeps them apart *)
(* is how far the creation has come: nobody can end the job's access before    *)
(* its token and grants are stored, stop_job cannot stop it before its         *)
(* container id is set, nobody can report a result before the container has    *)
(* been started.  Order ties the progress of stop_job, complete_job and the    *)
(* reaper to that of the creator, and what the waiting tool has seen to what   *)
(* is in the handle; IInv, its conjunction with the types and the properties,  *)
(* is inductive.                                                               *)
EXTENDS ContainerJobs, TLAPS

\* No container has been created yet.
Before == {"idle", "token", "grants", "insert", "create"}

\* The container id is not known to the handle yet.
NoIdYet == Before \cup {"start", "unstart", "setid"}

\* The container was never started.
NotStarted == Before \cup {"start", "unstart", "revoke", "drop", "refused"}

Order ==
    /\ creator \in Before => container = "none" /\ closed = {} /\ stop["reaper"] = "idle"
    /\ creator = "drop" => ~token /\ ~grants
    /\ creator \in NoIdYet =>
         /\ ~cid /\ "stop" \notin closed
         /\ \A p \in Stoppers : stop[p] \notin {"mark", "revoke", "ok"}
    /\ creator \in NotStarted => container # "running" /\ completer = "idle"
    /\ \A p \in Stoppers : stop[p] = "revoke" => handle # "Running"
    /\ result # "none" => completer \notin {"idle", "mark"}
    /\ creator \in {"stopping", "clean", "finish"} => verdict # "none"
    /\ crashes > 0 => creator = "done" /\ late = {}
    /\ handle = "Stopped" /\ result = "none" => marked
    /\ creator \notin {"clean", "finish"} => seen = "unread"
    /\ creator = "clean" => /\ seen = "none" => marked
                            /\ seen \in {"ok", "err"} => result = seen

IInv == TypeOK /\ Order /\ AccessRevoked /\ StopSticks /\ NoStaleRow

\* A process without jobs satisfies the invariant.
LEMMA InitIInv == Init => IInv
<1> SUFFICES ASSUME Init PROVE IInv
  OBVIOUS
<1>1. TypeOK
  <2>1. crashes \in 0 .. MaxCrashes  BY CrashAssumption DEF Init
  <2>2. stop \in [Stoppers -> StopPC]  BY DEF Init, StopPC
  <2>3. cid \in BOOLEAN /\ (cid => handle # "none")  BY Zenon DEF Init
  <2> QED BY <2>1, <2>2, <2>3 DEF Init, TypeOK, CreatorPC, CompletePC, Status
<1>2. Order
  BY DEF Init, Order, Before, NoIdYet, NotStarted, Stoppers
<1>3. AccessRevoked /\ StopSticks /\ NoStaleRow
  BY DEF Init, AccessRevoked, StopSticks, NoStaleRow
<1> QED BY <1>1, <1>2, <1>3 DEF IInv

\* The types of what a revocation and a removal of the handle assign.
LEMMA RevokeType == Revoke => token' \in BOOLEAN /\ grants' \in BOOLEAN
BY Zenon DEF Revoke

LEMMA NoIdType == cid' = FALSE => cid' \in BOOLEAN /\ (cid' => handle' # "none")
BY Zenon

\* Marking the handle remembers whether that was before a report.
LEMMA Marks ==
    ASSUME MarksHandle, marked \in BOOLEAN,
           handle = "Stopped" /\ result = "none" => marked
    PROVE  /\ marked' \in BOOLEAN
           /\ marked => marked'
           /\ UNCHANGED <<cid, result>>
           /\ handle' = (IF handle = "none" THEN "none" ELSE "Stopped")
           /\ handle' = "Stopped" /\ result' = "none" => marked'
<1>1. UNCHANGED <<cid, result>> /\ handle' = (IF handle = "none" THEN "none" ELSE "Stopped")
  BY DEF MarksHandle, SetState
<1>2. marked' \in BOOLEAN /\ (marked => marked')
  <2>1. marked' = (marked \/ (handle # "none" /\ result = "none"))  BY DEF MarksHandle
  <2> QED BY <2>1, Zenon
<1>3. handle' = "Stopped" /\ result' = "none" => handle # "none" /\ result = "none"
  BY <1>1
<1>4. handle # "none" /\ result = "none" => marked'
  <2>1. marked' = (marked \/ (handle # "none" /\ result = "none"))  BY DEF MarksHandle
  <2> QED BY <2>1, Zenon
<1> QED BY <1>1, <1>2, <1>3, <1>4

\* The steps of create_job, on its way to a running container or back.
LEMMA CreateInv == ASSUME IInv, CreateStep PROVE IInv'
<1> USE DEF IInv, Order, AccessRevoked, StopSticks, NoStaleRow, Before, NoIdYet,
            NotStarted, CreatorGoes, handleVars, accessVars, rowVars, processVars
<1>1. TypeOK'
  <2> USE DEF TypeOK, CreatorPC, Status
  <2>1. CASE SaveRecord  BY <2>1 DEF SaveRecord
  <2>2. CASE CreateToken  BY <2>2 DEF CreateToken
  <2>3. CASE StoreGrants  BY <2>3 DEF StoreGrants
  <2>4. CASE InsertHandle
    <3>1. cid' \in BOOLEAN /\ (cid' => handle' # "none")  BY <2>4, NoIdType DEF InsertHandle
    <3> QED BY <2>4, <3>1 DEF InsertHandle
  <2>5. CASE CreateContainer  BY <2>5 DEF CreateContainer
  <2>6. CASE StartContainer  BY <2>6 DEF StartContainer
  <2>7. CASE RemoveUnstarted  BY <2>7 DEF RemoveUnstarted, DockerRemoves
  <2>8. CASE SetContainerId
    <3>1. CASE handle = "none"  BY <2>8, <3>1 DEF SetContainerId
    <3>2. CASE handle # "none"  BY <2>8, <3>2 DEF SetContainerId
    <3> QED BY <3>1, <3>2
  <2>9. CASE CreateRevokes
    <3>1. token' \in BOOLEAN /\ grants' \in BOOLEAN  BY <2>9, RevokeType DEF CreateRevokes
    <3> QED BY <2>9, <3>1 DEF CreateRevokes
  <2>10. CASE CreateDropsHandle  BY <2>10 DEF CreateDropsHandle, RemoveHandle
  <2> QED BY <2>1, <2>2, <2>3, <2>4, <2>5, <2>6, <2>7, <2>8, <2>9, <2>10 DEF CreateStep
<1>2. Order' /\ AccessRevoked' /\ StopSticks' /\ NoStaleRow'
  <2>1. CASE SaveRecord  BY <2>1 DEF SaveRecord
  <2>2. CASE CreateToken  BY <2>2 DEF CreateToken
  <2>3. CASE StoreGrants  BY <2>3 DEF StoreGrants
  <2>4. CASE InsertHandle  BY <2>4 DEF InsertHandle
  <2>5. CASE CreateContainer  BY <2>5 DEF CreateContainer
  <2>6. CASE StartContainer  BY <2>6 DEF StartContainer
  <2>7. CASE RemoveUnstarted  BY <2>7 DEF RemoveUnstarted, DockerRemoves
  <2>8. CASE SetContainerId  BY <2>8 DEF SetContainerId
  <2>9. CASE CreateRevokes  BY <2>9 DEF CreateRevokes, Revoke
  <2>10. CASE CreateDropsHandle  BY <2>10 DEF CreateDropsHandle, RemoveHandle, TypeOK
  <2> QED BY <2>1, <2>2, <2>3, <2>4, <2>5, <2>6, <2>7, <2>8, <2>9, <2>10 DEF CreateStep
<1> QED BY <1>1, <1>2

\* What the creator does with the outcome.
LEMMA CreatorInv == ASSUME IInv, CreatorStep \/ CreatorDropped PROVE IInv'
<1> USE DEF IInv, Order, AccessRevoked, StopSticks, NoStaleRow, Before, NoIdYet,
            NotStarted, CreatorGoes, handleVars, accessVars, rowVars, processVars,
            SpawnUpdate, WriteStatus, RemoveHandle
<1>1. CASE CreateStep  BY <1>1, CreateInv
<1>2. TypeOK' \/ CreateStep
  <2> USE DEF TypeOK, CreatorPC, Status
  <2>1. CASE Refused  BY <2>1 DEF Refused
  <2>2. CASE ToolStarted  BY <2>2 DEF ToolStarted
  <2>3. CASE RestartStarted  BY <2>3 DEF RestartStarted, Stoppers, StopPC
  <2>4. CASE Poll  BY <2>4 DEF Poll, Stoppers, StopPC
  <2>5. CASE AfterStop  BY <2>5 DEF AfterStop, Stoppers, StopPC
  <2>6. CASE CleanupJob  BY <2>6 DEF CleanupJob
  <2>7. CASE Finish  BY <2>7 DEF Finish
  <2>8. CASE CreatorDropped  BY <2>8 DEF CreatorDropped, Stoppers, StopPC
  <2> QED BY <2>1, <2>2, <2>3, <2>4, <2>5, <2>6, <2>7, <2>8 DEF CreatorStep
<1>3. (Order' /\ AccessRevoked' /\ StopSticks' /\ NoStaleRow') \/ CreateStep
  <2>1. CASE Refused  BY <2>1 DEF Refused
  <2>2. CASE ToolStarted  BY <2>2 DEF ToolStarted
  <2>3. CASE RestartStarted  BY <2>3 DEF RestartStarted, Stoppers, TypeOK
  <2>4. CASE Poll  BY <2>4 DEF Poll, Stoppers, TypeOK
  <2>5. CASE AfterStop
    <3>1. CASE creator = "stopping"  BY <2>5, <3>1 DEF AfterStop, Stoppers, TypeOK
    <3>2. CASE creator = "undoing"  BY <2>5, <3>2 DEF AfterStop, Stoppers, TypeOK
    <3> QED BY <2>5, <3>1, <3>2 DEF AfterStop
  <2>6. CASE CleanupJob  BY <2>6 DEF CleanupJob
  <2>7. CASE Finish  BY <2>7 DEF Finish
  <2>8. CASE CreatorDropped  BY <2>8 DEF CreatorDropped, Stoppers, TypeOK
  <2> QED BY <2>1, <2>2, <2>3, <2>4, <2>5, <2>6, <2>7, <2>8 DEF CreatorStep
<1> QED BY <1>1, <1>2, <1>3

\* stop_job, for each of its callers.
LEMMA StopInv == ASSUME IInv, NEW p \in Stoppers, StopStep(p) PROVE IInv'
<1> USE DEF IInv, Order, AccessRevoked, StopSticks, NoStaleRow, Before, NoIdYet,
            NotStarted, StopGoes, handleVars, accessVars, rowVars, processVars,
            creatorVars, StopStep
<1>1. TypeOK'
  <2> USE DEF TypeOK, StopPC
  <2>1. CASE StopContainer(p)
    BY <2>1 DEF StopContainer, DockerStopAndRemove, DockerRemoves
  <2>2. CASE MarkStopped(p)  BY <2>2 DEF MarkStopped, MarksHandle, SetState
  <2>3. CASE StopRevokes(p)
    <3>1. token' \in BOOLEAN /\ grants' \in BOOLEAN  BY <2>3, RevokeType DEF StopRevokes
    <3> QED BY <2>3, <3>1 DEF StopRevokes
  <2> QED BY <2>1, <2>2, <2>3
<1>2. Order' /\ AccessRevoked' /\ StopSticks' /\ NoStaleRow'
  <2>1. CASE StopContainer(p)
    <3>1. CASE stop' = [stop EXCEPT ![p] = "err"] /\ container' = container
      BY <2>1, <3>1 DEF StopContainer, TypeOK
    <3>2. CASE cid /\ stop' = [stop EXCEPT ![p] = "mark"] /\ DockerStopAndRemove
      BY <2>1, <3>2
         DEF StopContainer, DockerStopAndRemove, DockerRemoves, Exists, TypeOK
    <3> QED BY <2>1, <3>1, <3>2 DEF StopContainer
  <2>2. CASE MarkStopped(p)
    <3>1. /\ marked => marked'
          /\ UNCHANGED <<cid, result>>
          /\ handle' = (IF handle = "none" THEN "none" ELSE "Stopped")
          /\ handle' = "Stopped" /\ result' = "none" => marked'
      BY <2>2, Marks DEF MarkStopped, TypeOK
    <3> QED BY <2>2, <3>1 DEF MarkStopped, TypeOK
  <2>3. CASE StopRevokes(p)  BY <2>3 DEF StopRevokes, Revoke, TypeOK
  <2> QED BY <2>1, <2>2, <2>3
<1> QED BY <1>1, <1>2

\* The web cancel handler around its call of stop_job.
LEMMA CancelInv == ASSUME IInv, CancelStep PROVE IInv'
<1>1. /\ UNCHANGED <<creator, verdict, seen, handle, cid, result, token, grants, container,
                     completer, up, crashes, closed, marked, late, sweep>>
      /\ row' \in {row, "failed"}
      /\ \E to \in {"stop", "idle"} : stop' = [stop EXCEPT !["cancel"] = to]
  BY DEF CancelStep, CancelLoads, CancelReturns, CancelDropped, WriteStatus, StopGoes, handleVars,
         accessVars, rowVars, processVars, creatorVars
<1>2. stop' \in [Stoppers -> StopPC] /\ row' \in Status
  BY <1>1 DEF IInv, TypeOK, Stoppers, StopPC, Status
<1>3. TypeOK'  BY <1>1, <1>2 DEF IInv, TypeOK
<1>4. Order'
  BY <1>1 DEF IInv, TypeOK, Order, Before, NoIdYet, NotStarted, Stoppers
<1>5. AccessRevoked' /\ StopSticks' /\ NoStaleRow'
  BY <1>1 DEF IInv, AccessRevoked, StopSticks, NoStaleRow
<1> QED BY <1>3, <1>4, <1>5 DEF IInv

\* The reaper around its call of stop_job.
LEMMA ReaperInv == ASSUME IInv, ReaperStep PROVE IInv'
<1> USE DEF IInv, Order, AccessRevoked, StopSticks, NoStaleRow, Before, NoIdYet,
            NotStarted, StopGoes, handleVars, accessVars, rowVars, processVars,
            creatorVars, ReaperStep, Stoppers
<1>1. TypeOK'
  <2> USE DEF TypeOK, StopPC
  <2>1. CASE ReaperLists  BY <2>1 DEF ReaperLists
  <2>2. CASE ReaperDecides  BY <2>2 DEF ReaperDecides
  <2>3. CASE ReaperFallsBack  BY <2>3 DEF ReaperFallsBack, DockerRemoves
  <2>4. CASE ReaperMarks  BY <2>4 DEF ReaperMarks, MarksHandle, SetState
  <2>5. CASE ReaperRevokes
    <3>1. token' \in BOOLEAN /\ grants' \in BOOLEAN  BY <2>5, RevokeType DEF ReaperRevokes
    <3> QED BY <2>5, <3>1 DEF ReaperRevokes
  <2>6. CASE ReaperReturns  BY <2>6 DEF ReaperReturns
  <2> QED BY <2>1, <2>2, <2>3, <2>4, <2>5, <2>6
<1>2. Order' /\ AccessRevoked' /\ StopSticks' /\ NoStaleRow'
  <2>1. CASE ReaperLists  BY <2>1 DEF ReaperLists, Exists, TypeOK
  <2>2. CASE ReaperDecides  BY <2>2 DEF ReaperDecides, TypeOK
  <2>3. CASE ReaperFallsBack  BY <2>3 DEF ReaperFallsBack, DockerRemoves, Exists, TypeOK
  <2>4. CASE ReaperMarks
    <3>1. /\ marked => marked'
          /\ UNCHANGED <<cid, result>>
          /\ handle' = (IF handle = "none" THEN "none" ELSE "Stopped")
          /\ handle' = "Stopped" /\ result' = "none" => marked'
      BY <2>4, Marks DEF ReaperMarks, TypeOK
    <3> QED BY <2>4, <3>1 DEF ReaperMarks, TypeOK
  <2>5. CASE ReaperRevokes  BY <2>5 DEF ReaperRevokes, Revoke, TypeOK
  <2>6. CASE ReaperReturns  BY <2>6 DEF ReaperReturns, TypeOK
  <2> QED BY <2>1, <2>2, <2>3, <2>4, <2>5, <2>6
<1> QED BY <1>1, <1>2

\* The worker's report and complete_job.
LEMMA CompleteInv == ASSUME IInv, ReportComplete \/ CompleteStep PROVE IInv'
<1> USE DEF IInv, Order, AccessRevoked, StopSticks, NoStaleRow, Before, NoIdYet,
            NotStarted, CompleterGoes, handleVars, accessVars, rowVars, processVars,
            creatorVars
<1>1. CASE ReportComplete
  <2>1. TypeOK'  BY <1>1 DEF TypeOK, CompletePC, ReportComplete
  <2> QED BY <1>1, <2>1 DEF ReportComplete
<1>2. CASE CompleteStep
  <2> USE <1>2 DEF CompleteStep
  <2>1. CASE SetCompletion
    <3>1. TypeOK'
      <4>1. CASE handle = "none"  BY <2>1, <4>1 DEF SetCompletion, TypeOK, CompletePC
      <4>2. CASE handle # "none"  BY <2>1, <4>2 DEF SetCompletion, TypeOK, CompletePC
      <4> QED BY <4>1, <4>2
    <3> QED BY <2>1, <3>1 DEF SetCompletion
  <2>2. CASE CompleteStopsContainer
    <3>1. TypeOK'
      BY <2>2 DEF CompleteStopsContainer, DockerStopAndRemove, DockerRemoves, TypeOK, CompletePC
    <3> QED BY <2>2, <3>1
            DEF CompleteStopsContainer, DockerStopAndRemove, DockerRemoves, Exists
  <2>3. CASE CompleteRevokes
    <3>1. TypeOK'
      <4>1. token' \in BOOLEAN /\ grants' \in BOOLEAN  BY <2>3, RevokeType DEF CompleteRevokes
      <4> QED BY <2>3, <4>1 DEF CompleteRevokes, TypeOK, CompletePC
    <3> QED BY <2>3, <3>1 DEF CompleteRevokes, Revoke
  <2>4. CASE HandlerDropped
    <3>1. TypeOK'  BY <2>4 DEF HandlerDropped, TypeOK, CompletePC
    <3> QED BY <2>4, <3>1 DEF HandlerDropped
  <2> QED BY <2>1, <2>2, <2>3, <2>4
<1> QED BY <1>1, <1>2

\* Detached writes, the sweep of stale rows, the container's own exit, crash and
\* restart.
LEMMA ProcessInv ==
    ASSUME IInv, LateUpdate \/ CleanupStaleJobs \/ WorkerExits \/ Crash \/ Restart
    PROVE  IInv'
<1> USE DEF IInv, Order, AccessRevoked, StopSticks, NoStaleRow, Before, NoIdYet,
            NotStarted, handleVars, accessVars, rowVars, processVars, creatorVars
<1>1. TypeOK'
  <2> USE DEF TypeOK
  <2>1. CASE LateUpdate  BY <2>1 DEF LateUpdate, Status
  <2>2. CASE CleanupStaleJobs
    <3>1. row' \in Status  BY <2>2 DEF CleanupStaleJobs, Status
    <3>2. /\ sweep' \in BOOLEAN
          /\ UNCHANGED <<creator, verdict, seen, handle, cid, result, token, grants, container,
                         stop, completer, late, up, crashes, closed, marked>>
      BY <2>2 DEF CleanupStaleJobs
    <3> QED BY <3>1, <3>2
  <2>3. CASE WorkerExits  BY <2>3 DEF WorkerExits
  <2>4. CASE Crash
    <3>1. crashes' \in 0 .. MaxCrashes  BY <2>4, CrashAssumption DEF Crash
    <3>2. stop' \in [Stoppers -> StopPC]  BY <2>4 DEF Crash, StopPC
    <3>3. cid' \in BOOLEAN /\ (cid' => handle' # "none")
      BY <2>4, Zenon DEF Crash, RemoveHandle
    <3> QED BY <2>4, <3>1, <3>2, <3>3
            DEF Crash, RemoveHandle, Revoke, CreatorPC, CompletePC
  <2>5. CASE Restart  BY <2>5 DEF Restart
  <2> QED BY <2>1, <2>2, <2>3, <2>4, <2>5
<1>2. Order' /\ AccessRevoked' /\ StopSticks' /\ NoStaleRow'
  <2>1. CASE LateUpdate  BY <2>1 DEF LateUpdate
  <2>2. CASE CleanupStaleJobs  BY <2>2 DEF CleanupStaleJobs
  <2>3. CASE WorkerExits  BY <2>3 DEF WorkerExits
  <2>4. CASE Crash  BY <2>4 DEF Crash, RemoveHandle, Revoke
  <2>5. CASE Restart  BY <2>5 DEF Restart
  <2> QED BY <2>1, <2>2, <2>3, <2>4, <2>5
<1> QED BY <1>1, <1>2

\* Every step preserves the invariant.
LEMMA NextIInv == IInv /\ [Next]_vars => IInv'
<1> SUFFICES ASSUME IInv, [Next]_vars PROVE IInv'
  OBVIOUS
<1>1. CASE Next
  BY <1>1, CreatorInv, StopInv, CancelInv, ReaperInv, CompleteInv, ProcessInv DEF Next
<1>2. CASE UNCHANGED vars
  <2>1. UNCHANGED <<creator, verdict, seen, handle, cid, result, token, grants, container,
                    stop, completer, row, late, sweep, up, crashes, closed, marked>>
    BY <1>2 DEF vars, handleVars, accessVars, creatorVars, rowVars, processVars
  <2>2. TypeOK'  BY <2>1 DEF IInv, TypeOK
  <2>3. Order'  BY <2>1 DEF IInv, Order
  <2>4. AccessRevoked' /\ StopSticks' /\ NoStaleRow'
    BY <2>1 DEF IInv, AccessRevoked, StopSticks, NoStaleRow
  <2> QED BY <2>2, <2>3, <2>4 DEF IInv
<1> QED BY <1>1, <1>2

\* The invariant holds in every reachable state.
LEMMA ContainerInvariant == Spec => []IInv
BY InitIInv, NextIInv, PTL DEF Spec

\* Every variable of the sandboxed job keeps its type.
THEOREM TypeCorrect == Spec => []TypeOK
<1>1. IInv => TypeOK  BY DEF IInv
<1> QED BY ContainerInvariant, <1>1, PTL

\* Once stop_job, complete_job, the reaper's direct clean-up or the error path of
\* create_job has run to its end, the job has neither token nor grants again.
THEOREM AccessStaysRevoked == Spec => []AccessRevoked
<1>1. IInv => AccessRevoked  BY DEF IInv
<1> QED BY ContainerInvariant, <1>1, PTL

\* A job stopped by stop_job is not shown as running again: set_container_id cannot
\* come after a stop_job that got as far as revoking, at whatever moment the reaper,
\* the cancel handler or the tool calls it.
THEOREM StoppedStaysStopped == Spec => []StopSticks
<1>1. IInv => StopSticks  BY DEF IInv
<1> QED BY ContainerInvariant, <1>1, PTL

\* After the sweep that follows a crash, however many there were, no row is left
\* as being created or running.
THEOREM SweepIsFinal == Spec => []NoStaleRow
<1>1. IInv => NoStaleRow  BY DEF IInv
<1> QED BY ContainerInvariant, <1>1, PTL

\* The result that set_completion stored is replaced or dropped by nobody but the
\* waiting tool's cleanup_job; the tool has read it, or its deadline had passed, or
\* it found the job stopped by another before the result was there.
THEOREM ResultsKept == Spec => ResultKept
<1>1. ASSUME IInv, [Next]_vars, result # "none", up'
      PROVE  result' = result \/ creator = "clean"
  <2>1. completer \notin {"idle", "mark"}  BY <1>1 DEF IInv, Order
  <2>2. creator \notin NotStarted  BY <1>1, <2>1 DEF IInv, Order
  <2> USE <1>1, <2>1, <2>2
          DEF NotStarted, Before, CreatorGoes, handleVars, CompleterGoes, RemoveHandle
  <2>3. CASE CreatorStep
    <3>1. CASE CreateStep
      BY <3>1 DEF CreateStep, SaveRecord, CreateToken, StoreGrants, InsertHandle,
                  CreateContainer, StartContainer, RemoveUnstarted, SetContainerId,
                  CreateRevokes, CreateDropsHandle
    <3>2. CASE Refused \/ ToolStarted \/ RestartStarted \/ Poll \/ AfterStop \/ Finish
      BY <3>2 DEF Refused, ToolStarted, RestartStarted, Poll, AfterStop, Finish
    <3>3. CASE CleanupJob  BY <3>3 DEF CleanupJob
    <3> QED BY <2>3, <3>1, <3>2, <3>3 DEF CreatorStep
  <2>4. ASSUME NEW p \in Stoppers, StopStep(p) PROVE result' = result
    BY <2>4 DEF StopStep, StopContainer, MarkStopped, MarksHandle, SetState, StopRevokes
  <2>5. CASE CancelStep \/ CreatorDropped \/ ReportComplete
    BY <2>5 DEF CancelStep, CreatorDropped, ReportComplete
  <2>6. CASE ReaperStep
    BY <2>6 DEF ReaperStep, ReaperLists, ReaperDecides, ReaperFallsBack, ReaperMarks,
                ReaperRevokes, ReaperReturns, MarksHandle, SetState
  <2>7. CASE CompleteStep
    BY <2>7 DEF CompleteStep, SetCompletion, CompleteStopsContainer, CompleteRevokes,
                HandlerDropped
  <2>8. CASE LateUpdate \/ CleanupStaleJobs \/ WorkerExits \/ Restart
    BY <2>8 DEF LateUpdate, CleanupStaleJobs, WorkerExits, Restart
  <2>9. ~Crash  BY DEF Crash
  <2>10. CASE UNCHANGED vars  BY <2>10 DEF vars
  <2> QED BY <2>3, <2>4, <2>5, <2>6, <2>7, <2>8, <2>9, <2>10 DEF Next
<1>2. ASSUME IInv, creator = "clean"
      PROVE  seen = result \/ seen = "unread" \/ (seen = "none" /\ marked)
  BY <1>2 DEF IInv, Order, TypeOK
<1>3. IInv /\ [Next]_vars =>
        [result # "none" /\ up' /\ result' # result =>
            /\ creator = "clean"
            /\ \/ seen = result
               \/ seen = "unread"
               \/ seen = "none" /\ marked]_vars
  BY <1>1, <1>2
<1> QED BY ContainerInvariant, <1>3, PTL DEF Spec, ResultKept

=============================================================================
