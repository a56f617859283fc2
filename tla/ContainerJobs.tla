--------------------------- MODULE ContainerJobs ---------------------------
(* One sandboxed job: its container, the handle ContainerJobManager keeps for  *)
(* it (orchestrator/job_manager.rs, job_registry.rs), its token and credential *)
(* grants (orchestrator/auth.rs), its row in the database, and everyone who    *)
(* acts on them: the create_job tool or the restart handler that starts it,    *)
(* the worker's completion report, the web cancel handler and the reaper.      *)
(*                                                                             *)
(* Everything is keyed by the job id, so one job is enough.  An action is one  *)
(* critical section of a lock, one Docker call or one database call.  The      *)
(* process may crash: memory is lost, the container and the row stay.          *)
EXTENDS Naturals

CONSTANTS
    MaxCrashes      \* bound: how often the process may crash

ASSUME CrashAssumption == MaxCrashes \in Nat

VARIABLES
    creator,                \* progress of execute_sandbox or restart_sandbox_job
    verdict,                \* the final status the waiting tool is about to write
    seen,                   \* the completion result it found when it read the handle
    handle, cid, result,    \* ContainerHandle: state ("none": no handle),
                            \* container_id.is_some(), completion_result
    token, grants,          \* TokenStore: the job's entry in either map
    container,              \* what the Docker daemon has
    stop,                   \* progress of each caller of stop_job
    completer,              \* progress of the report_complete handler
    row, late,              \* the status in the database; detached updates of it
    sweep,                  \* cleanup_stale_jobs has not been done in this process
    up, crashes,
    closed,                 \* history: the job's access was ended, by stop_job or
                            \* by another call
    marked                  \* history: the handle was set Stopped before a report

handleVars == <<handle, cid, result>>
accessVars == <<token, grants>>
creatorVars == <<creator, verdict, seen>>
rowVars == <<row, late, sweep>>
processVars == <<up, crashes>>
vars == <<creatorVars, handleVars, accessVars, container, stop, completer,
          rowVars, processVars, closed, marked>>

Stoppers == {"tool", "cancel", "reaper"}

CreatorPC ==
    {"idle", "token", "grants", "insert", "create", "start", "unstart", "setid",
     "revoke", "drop", "refused", "created", "poll", "stopping", "undoing",
     "clean", "finish", "done"}
StopPC == {"idle", "listed", "stop", "mark", "revoke", "ok", "err",
           "reap_mark", "reap_revoke"}
CompletePC == {"idle", "mark", "stop", "revoke", "done"}
Status == {"absent", "creating", "running", "completed", "failed", "interrupted"}

Init ==
    /\ creator = "idle" /\ verdict = "none" /\ seen = "unread"
    /\ handle = "none" /\ cid = FALSE /\ result = "none"
    /\ token = FALSE /\ grants = FALSE
    /\ container = "none"
    /\ stop = [p \in Stoppers |-> "idle"]
    /\ completer = "idle"
    /\ row = "absent" /\ late = {} /\ sweep = TRUE
    /\ up = TRUE /\ crashes = 0
    /\ closed = {} /\ marked = FALSE

Exists == container \in {"created", "running", "stopped"}

-----------------------------------------------------------------------------
(* The Docker daemon and the registry                                          *)

\* remove_container with force: fails on a container that is gone.
DockerRemoves == Exists /\ container' = "removed"

\* stop_container and then remove_container, either of which may fail; their
\* callers only log it.  A container found stopped in between is no different
\* from one whose removal failed.
DockerStopAndRemove ==
    \/ UNCHANGED container
    \/ container = "running" /\ container' = "stopped"
    \/ DockerRemoves

\* JobRegistry::remove
RemoveHandle == handle' = "none" /\ cid' = FALSE /\ result' = "none"

\* Mutant: the handle is dropped instead of being marked.
SetState_Removes(s) == RemoveHandle

\* JobRegistry::set_state: nothing if the handle is gone.
SetState(s) ==
    /\ handle' = (IF handle = "none" THEN "none" ELSE s)
    /\ UNCHANGED <<cid, result>>

\* update_sandbox_job_status: an UPDATE with no condition on the old status, or
\* an error, which only the web handlers return.
WriteStatus(s) == (row' = s \/ UNCHANGED row) /\ UNCHANGED <<late, sweep>>

\* TokenStore::revoke.  Its two maps have a lock each; no code reads both.
Revoke == token' = FALSE /\ grants' = FALSE

-----------------------------------------------------------------------------
(* create_job                                                                  *)

\* persist_sandbox_job / persist_restart_job: the row, then for ClaudeCode the
\* mode, whose failure is recorded as best it can be.
SaveRecord ==
    /\ creator = "idle"
    /\ \/ row' = "creating" /\ creator' = "token"
       \/ row' \in {"absent", "creating", "failed"} /\ creator' = "done"
    /\ UNCHANGED <<verdict, seen, handleVars, accessVars, container, stop, completer,
                   late, sweep, processVars, closed, marked>>

CreatorGoes(from, to) ==
    /\ creator = from /\ creator' = to
    /\ UNCHANGED <<verdict, seen>>

CreateToken ==
    /\ CreatorGoes("token", "grants")
    /\ token' = TRUE
    /\ UNCHANGED <<grants, handleVars, container, stop, completer, rowVars,
                   processVars, closed, marked>>

\* A job without grants gets no entry, and then has none to revoke.
StoreGrants ==
    /\ CreatorGoes("grants", "insert")
    /\ grants' = TRUE
    /\ UNCHANGED <<token, handleVars, container, stop, completer, rowVars,
                   processVars, closed, marked>>

InsertHandle ==
    /\ CreatorGoes("insert", "create")
    /\ handle' = "Creating" /\ cid' = FALSE /\ result' = "none"
    /\ UNCHANGED <<accessVars, container, stop, completer, rowVars,
                   processVars, closed, marked>>

\* docker(), the bind mounts and create_container, any of which may fail.
CreateContainer ==
    /\ \/ CreatorGoes("create", "start") /\ container' = "created"
       \/ CreatorGoes("create", "revoke") /\ UNCHANGED container
    /\ UNCHANGED <<handleVars, accessVars, stop, completer, rowVars,
                   processVars, closed, marked>>

\* The reaper may have removed the container by now.
StartContainer ==
    /\ \/ /\ CreatorGoes("start", "setid")
          /\ container = "created" /\ container' = "running"
       \/ CreatorGoes("start", "unstart") /\ UNCHANGED container
    /\ UNCHANGED <<handleVars, accessVars, stop, completer, rowVars,
                   processVars, closed, marked>>

\* The container that did not start is removed; a failure is only logged.
RemoveUnstarted ==
    /\ CreatorGoes("unstart", "revoke")
    /\ DockerRemoves \/ UNCHANGED container
    /\ UNCHANGED <<handleVars, accessVars, stop, completer, rowVars,
                   processVars, closed, marked>>

\* JobRegistry::set_container_id: the state is set whatever it was.
SetContainerId ==
    /\ CreatorGoes("setid", "created")
    /\ IF handle = "none" THEN UNCHANGED <<handle, cid>>
       ELSE handle' = "Running" /\ cid' = TRUE
    /\ UNCHANGED <<result, accessVars, container, stop, completer, rowVars,
                   processVars, closed, marked>>

\* The error path of create_job: the token ...
CreateRevokes ==
    /\ CreatorGoes("revoke", "drop")
    /\ Revoke
    /\ UNCHANGED <<handleVars, container, stop, completer, rowVars,
                   processVars, closed, marked>>

\* ... and the handle.
CreateDropsHandle ==
    /\ CreatorGoes("drop", "refused")
    /\ RemoveHandle /\ marked' = FALSE
    /\ closed' = closed \cup {"other"}
    /\ UNCHANGED <<accessVars, container, stop, completer, rowVars, processVars>>

CreateStep ==
    \/ SaveRecord \/ CreateToken \/ StoreGrants \/ InsertHandle
    \/ CreateContainer \/ StartContainer \/ RemoveUnstarted \/ SetContainerId
    \/ CreateRevokes \/ CreateDropsHandle

-----------------------------------------------------------------------------
(* What the creator does with the outcome                                      *)

\* update_status: the write is left to a task of its own.
SpawnUpdate(s) == late' = late \cup {s} /\ UNCHANGED <<row, sweep>>

\* The detached task at last; one that fails is as if it never came to run.
LateUpdate ==
    /\ \E s \in late : late' = late \ {s} /\ row' = s
    /\ UNCHANGED <<sweep, creatorVars, handleVars, accessVars, container, stop,
                   completer, processVars, closed, marked>>

\* create_job failed: the tool detaches the update, the restart handler awaits
\* it.  Which of the two the creator is matters from here on only.
Refused ==
    /\ CreatorGoes("refused", "done")
    /\ SpawnUpdate("failed") \/ WriteStatus("failed")
    /\ UNCHANGED <<handleVars, accessVars, container, stop, completer,
                   processVars, closed, marked>>

\* The tool detaches the "running" update and waits for the job or returns.
ToolStarted ==
    /\ CreatorGoes("created", "poll") \/ CreatorGoes("created", "done")
    /\ SpawnUpdate("running")
    /\ UNCHANGED <<handleVars, accessVars, container, stop, completer,
                   processVars, closed, marked>>

\* The restart handler: mark_running, or its failure, after which the job is
\* stopped again.
RestartStarted ==
    /\ \/ CreatorGoes("created", "done") /\ row' = "running" /\ UNCHANGED stop
       \/ /\ CreatorGoes("created", "undoing") /\ UNCHANGED row
          /\ stop' = [stop EXCEPT !["tool"] = "stop"]
    /\ UNCHANGED <<late, sweep, handleVars, accessVars, container, completer,
                   processVars, closed, marked>>

\* Mutant: only a completion result ends the wait.
Poll_WaitsForResult ==
    /\ creator = "poll" /\ result # "none"
    /\ verdict' = (IF result = "err" THEN "failed" ELSE "completed")
    /\ creator' = "clean" /\ seen' = result
    /\ UNCHANGED <<stop, handleVars, accessVars, container, completer, rowVars,
                   processVars, closed, marked>>

\* await_container_completion, one look at the clock and, before the deadline, at
\* the handle.  A stopped job without a completion result counts as a success,
\* like a missing handle.
Poll ==
    /\ creator = "poll"
    /\ \/ /\ creator' = "stopping" /\ verdict' = "failed"    \* the deadline
          /\ stop' = [stop EXCEPT !["tool"] = "stop"]
          /\ UNCHANGED seen
       \/ /\ handle = "none"
          /\ creator' = "finish" /\ verdict' = "completed"
          /\ UNCHANGED <<stop, seen>>
       \/ /\ handle = "Stopped"
          /\ creator' = "clean" /\ seen' = result
          /\ verdict' = (IF result = "err" THEN "failed" ELSE "completed")
          /\ UNCHANGED stop
    /\ UNCHANGED <<handleVars, accessVars, container, completer, rowVars,
                   processVars, closed, marked>>

\* stop_job has returned: handle_timed_out_container ignores its result,
\* handle_mark_running_failure records the failure if it was Ok.
AfterStop ==
    /\ stop["tool"] \in {"ok", "err"}
    /\ stop' = [stop EXCEPT !["tool"] = "idle"]
    /\ \/ CreatorGoes("stopping", "clean") /\ UNCHANGED rowVars
       \/ /\ CreatorGoes("undoing", "done")
          /\ IF stop["tool"] = "ok" THEN WriteStatus("failed") ELSE UNCHANGED rowVars
    /\ UNCHANGED <<handleVars, accessVars, container, completer, processVars,
                   closed, marked>>

\* cleanup_job, after the result has been read or, past the deadline, without.
CleanupJob ==
    /\ CreatorGoes("clean", "finish")
    /\ RemoveHandle /\ marked' = FALSE
    /\ UNCHANGED <<accessVars, container, stop, completer, rowVars, processVars,
                   closed>>

\* update_status_sync
Finish ==
    /\ creator = "finish" /\ creator' = "done"
    /\ WriteStatus(verdict) /\ verdict' = "none" /\ seen' = "unread"
    /\ UNCHANGED <<handleVars, accessVars, container, stop, completer,
                   processVars, closed, marked>>

\* The future of the tool or of the restart handler is dropped at an await: the
\* tool's or the job's timeout, an interruption, a closed connection.
CreatorDropped ==
    /\ creator \notin {"idle", "done"}
    /\ creator' = "done" /\ verdict' = "none" /\ seen' = "unread"
    /\ stop' = [stop EXCEPT !["tool"] = "idle"]
    /\ UNCHANGED <<handleVars, accessVars, container, completer, rowVars,
                   processVars, closed, marked>>

CreatorStep ==
    \/ CreateStep \/ Refused \/ ToolStarted \/ RestartStarted
    \/ Poll \/ AfterStop \/ CleanupJob \/ Finish

-----------------------------------------------------------------------------
(* stop_job, as called by p                                                    *)

StopGoes(p, from, to) == stop[p] = from /\ stop' = [stop EXCEPT ![p] = to]

\* Mutant: a job whose container id is not known yet is stopped all the same.
StopContainer_AnyHandle(p) ==
    /\ \/ handle # "none" /\ StopGoes(p, "stop", "mark") /\ DockerStopAndRemove
       \/ StopGoes(p, "stop", "err") /\ UNCHANGED container
    /\ UNCHANGED <<handleVars, accessVars, closed, marked>>

\* The container id is read and used: that the handle may go in between makes no
\* difference to Docker.  Without one, or without Docker, stop_job fails.
StopContainer(p) ==
    /\ \/ cid /\ StopGoes(p, "stop", "mark") /\ DockerStopAndRemove
       \/ StopGoes(p, "stop", "err") /\ UNCHANGED container
    /\ UNCHANGED <<handleVars, accessVars, closed, marked>>

\* The handle is marked; whether it was before the worker's report is remembered.
MarksHandle ==
    /\ SetState("Stopped")
    /\ marked' = (marked \/ (handle # "none" /\ result = "none"))

MarkStopped(p) ==
    /\ StopGoes(p, "mark", "revoke")
    /\ MarksHandle
    /\ UNCHANGED <<container, accessVars, closed>>

StopRevokes(p) ==
    /\ StopGoes(p, "revoke", "ok")
    /\ Revoke
    /\ closed' = closed \cup {"stop"}
    /\ UNCHANGED <<handleVars, container, marked>>

StopStep(p) ==
    /\ \/ StopContainer(p) \/ MarkStopped(p) \/ StopRevokes(p)
    /\ UNCHANGED <<creatorVars, completer, rowVars, processVars>>

-----------------------------------------------------------------------------
(* The web cancel handler                                                      *)

\* The status is loaded first; only "creating" and "running" are cancelled.
CancelLoads ==
    /\ row \in {"creating", "running"}
    /\ StopGoes("cancel", "idle", "stop")
    /\ UNCHANGED rowVars

CancelReturns ==
    \/ StopGoes("cancel", "ok", "idle") /\ WriteStatus("failed")
    \/ StopGoes("cancel", "err", "idle") /\ UNCHANGED rowVars

\* The browser is gone, and the handler's future with it.
CancelDropped ==
    /\ stop["cancel"] # "idle"
    /\ stop' = [stop EXCEPT !["cancel"] = "idle"]
    /\ UNCHANGED rowVars

CancelStep ==
    /\ CancelLoads \/ CancelReturns \/ CancelDropped
    /\ UNCHANGED <<creatorVars, handleVars, accessVars, container, completer,
                   processVars, closed, marked>>

-----------------------------------------------------------------------------
(* The reaper                                                                  *)

\* get_context: a sandboxed job has a fresh id and never a JobContext, so the
\* lookup fails and the job does not count as active.
IsActive == FALSE

\* The scan finds a container past orphan_threshold, which may be as short as a
\* second: whoever created it may not have come back from Docker yet.
ReaperLists ==
    /\ Exists
    /\ StopGoes("reaper", "idle", "listed")
    /\ UNCHANGED <<container, handleVars, accessVars, closed, marked>>

ReaperDecides ==
    /\ StopGoes("reaper", "listed", IF IsActive THEN "idle" ELSE "stop")
    /\ UNCHANGED <<container, handleVars, accessVars, closed, marked>>

\* Mutant: no direct clean-up of a container the manager does not know.
ReaperFallsBack_GivesUp ==
    /\ StopGoes("reaper", "err", "idle")
    /\ UNCHANGED <<container, handleVars, accessVars, closed, marked>>

\* reap_with_docker after a failed stop_job: the container is stopped and removed
\* directly.
ReaperFallsBack ==
    /\ \/ StopGoes("reaper", "err", "reap_mark") /\ DockerRemoves
       \/ /\ StopGoes("reaper", "err", "idle")
          /\ container' \in {container, IF container = "running" THEN "stopped"
                                        ELSE container}
    /\ UNCHANGED <<handleVars, accessVars, closed, marked>>

\* The removal has succeeded: the handle, which may still be waiting for its
\* container id, is marked ...
ReaperMarks ==
    /\ StopGoes("reaper", "reap_mark", "reap_revoke")
    /\ MarksHandle
    /\ UNCHANGED <<container, accessVars, closed>>

\* ... and the token revoked.
ReaperRevokes ==
    /\ StopGoes("reaper", "reap_revoke", "idle")
    /\ Revoke
    /\ closed' = closed \cup {"other"}
    /\ UNCHANGED <<container, handleVars, marked>>

ReaperReturns ==
    /\ StopGoes("reaper", "ok", "idle")
    /\ UNCHANGED <<container, handleVars, accessVars, closed, marked>>

ReaperStep ==
    /\ \/ ReaperLists \/ ReaperDecides \/ ReaperFallsBack
       \/ ReaperMarks \/ ReaperRevokes \/ ReaperReturns
    /\ UNCHANGED <<creatorVars, completer, rowVars, processVars>>

-----------------------------------------------------------------------------
(* The worker in the container, and complete_job                               *)

WorkerExits ==
    /\ container = "running"
    /\ container' = "stopped"
    /\ UNCHANGED <<creatorVars, handleVars, accessVars, stop, completer,
                   rowVars, processVars, closed, marked>>

\* worker_auth_middleware lets the report in if the token is still valid.
ReportComplete ==
    /\ container = "running" /\ token
    /\ completer = "idle" /\ completer' = "mark"
    /\ UNCHANGED <<creatorVars, handleVars, accessVars, container, stop, rowVars,
                   processVars, closed, marked>>

CompleterGoes(from, to) == completer = from /\ completer' = to

\* JobRegistry::set_completion
SetCompletion ==
    /\ CompleterGoes("mark", "stop")
    /\ IF handle = "none" THEN UNCHANGED <<handle, result>>
       ELSE handle' = "Stopped" /\ result' \in {"ok", "err"}
    /\ UNCHANGED <<cid, accessVars, container, closed, marked>>

\* The container is only touched if its id is known and Docker can be reached.
CompleteStopsContainer ==
    /\ CompleterGoes("stop", "revoke")
    /\ (cid /\ DockerStopAndRemove) \/ UNCHANGED container
    /\ UNCHANGED <<handleVars, accessVars, closed, marked>>

\* Mutant: the token is revoked, the grants are forgotten.
CompleteRevokes_KeepsGrants ==
    /\ CompleterGoes("revoke", "done") /\ token' = FALSE
    /\ closed' = closed \cup {"other"}
    /\ UNCHANGED <<grants, handleVars, container, marked>>

CompleteRevokes ==
    /\ CompleterGoes("revoke", "done")
    /\ Revoke
    /\ closed' = closed \cup {"other"}
    /\ UNCHANGED <<handleVars, container, marked>>

\* The HTTP server drops the handler when the worker's connection closes, which
\* it does when its container stops.
HandlerDropped ==
    /\ completer \notin {"idle", "done"} /\ container # "running"
    /\ completer' = "done"
    /\ UNCHANGED <<handleVars, accessVars, container, closed, marked>>

CompleteStep ==
    /\ \/ SetCompletion \/ CompleteStopsContainer \/ CompleteRevokes \/ HandlerDropped
    /\ UNCHANGED <<creatorVars, stop, rowVars, processVars>>

-----------------------------------------------------------------------------
(* Crash and restart of the process                                            *)

Crash ==
    /\ up /\ crashes < MaxCrashes
    /\ up' = FALSE /\ crashes' = crashes + 1
    /\ creator' = "done" /\ verdict' = "none" /\ seen' = "unread"
    /\ RemoveHandle
    /\ Revoke
    /\ stop' = [p \in Stoppers |-> "idle"]
    /\ completer' = "done"
    /\ late' = {}
    /\ sweep' = TRUE
    /\ marked' = FALSE
    /\ UNCHANGED <<container, row, closed>>

Restart ==
    /\ ~up
    /\ up' = TRUE
    /\ UNCHANGED <<crashes, creatorVars, handleVars, accessVars, container, stop,
                   completer, rowVars, closed, marked>>

\* Mutant: rows still in "creating" are forgotten.
CleanupStaleJobs_RunningOnly ==
    /\ sweep
    /\ sweep' = FALSE
    /\ row' = (IF row = "running" THEN "interrupted" ELSE row)
    /\ UNCHANGED <<late, creatorVars, handleVars, accessVars, container, stop,
                   completer, processVars, closed, marked>>

\* cleanup_stale_jobs: a detached task of the start-up, which the first jobs of
\* the process may overtake.  If it fails it is not tried again.
CleanupStaleJobs ==
    /\ sweep
    /\ sweep' = FALSE
    /\ row' = (IF row \in {"creating", "running"} THEN "interrupted" ELSE row)
    /\ UNCHANGED <<late, creatorVars, handleVars, accessVars, container, stop,
                   completer, processVars, closed, marked>>

-----------------------------------------------------------------------------
Next ==
    \/ /\ up
       /\ \/ CreatorStep \/ CreatorDropped \/ LateUpdate \/ CleanupStaleJobs
          \/ \E p \in Stoppers : StopStep(p)
          \/ CancelStep \/ ReaperStep
          \/ ReportComplete \/ CompleteStep
    \/ WorkerExits
    \/ Crash \/ Restart

Spec == Init /\ [][Next]_vars

ReaperRemoves ==
    /\ up /\ Exists /\ stop["reaper"] \in {"stop", "err"}
    /\ ReaperStep \/ StopStep("reaper")
    /\ container' = "removed"

\* While the process is up, the call that started the job and the reaper keep
\* running: Docker and database calls return, and the reaper scans again and
\* again; a removal it keeps trying works in the end.  Nobody is obliged to
\* create, cancel or report anything, and nobody restarts a crashed process.
FairSpec ==
    /\ Spec
    /\ WF_vars(up /\ creator \notin {"idle", "done"} /\ (CreatorStep \/ StopStep("tool")))
    /\ WF_vars(up /\ (ReaperStep \/ StopStep("reaper")))
    /\ SF_vars(ReaperRemoves)

-----------------------------------------------------------------------------
(* Properties                                                                  *)

\* Every variable keeps its type; the handle knows a container id only while it
\* exists.
TypeOK ==
    /\ creator \in CreatorPC
    /\ verdict \in {"none", "completed", "failed"}
    /\ seen \in {"unread", "none", "ok", "err"}
    /\ handle \in {"none", "Creating", "Running", "Stopped"}
    /\ cid \in BOOLEAN /\ (cid => handle # "none")
    /\ result \in {"none", "ok", "err"}
    /\ token \in BOOLEAN /\ grants \in BOOLEAN
    /\ container \in {"none", "created", "running", "stopped", "removed"}
    /\ stop \in [Stoppers -> StopPC]
    /\ completer \in CompletePC
    /\ row \in Status /\ late \subseteq {"running", "failed"}
    /\ sweep \in BOOLEAN /\ up \in BOOLEAN
    /\ crashes \in 0 .. MaxCrashes
    /\ closed \subseteq {"stop", "other"}
    /\ marked \in BOOLEAN

\* Once a stop_job or complete_job call, the reaper's direct clean-up or the error
\* path of create_job has run to its end, the job has neither a token nor grants,
\* and never again: however the calls overlap, none brings back what another has
\* revoked.
AccessRevoked == closed # {} => ~token /\ ~grants

\* A job that stop_job has stopped is never shown as running again, although
\* set_container_id sets the state without looking at it: stop_job needs the
\* container id and so cannot come before.  The reaper's direct clean-up needs
\* no id; a job it removes during its creation is shown as running again.
StopSticks == "stop" \in closed => handle # "Running"

\* The result a worker reported leaves the handle only when the waiting tool
\* cleans up, whoever else stops, cancels, reaps or abandons the job; and the tool
\* has read it then, unless its deadline had passed, after which it does not look,
\* or it had found the job stopped by somebody else before the report came in.
ResultKept ==
    [][result # "none" /\ up' /\ result' # result =>
          /\ creator = "clean"
          /\ \/ seen = result
             \/ seen = "unread"
             \/ seen = "none" /\ marked]_vars

\* Once the sweep after a restart is done, no job of the earlier process is left
\* as being created or running: nothing of that process writes its row any more.
NoStaleRow == crashes > 0 /\ ~sweep => row \notin {"creating", "running"}

\* The call that started a job returns, whatever becomes of the container.
CreatorReturns == creator # "idle" ~> creator = "done"

\* As long as the process runs, every container is removed in the end, those of
\* an earlier process, of a failed start and of a dropped handler included.
ContainersReaped == Exists /\ up ~> ~Exists \/ ~up

-----------------------------------------------------------------------------
(* What the repository says of the program and the program does not do         *)

JobActive ==
    handle = "Running" /\ result = "none" /\ container = "running" /\ row = "running"

\* "Containers older than this with no active job are reaped." (ReaperConfig):
\* the reaper leaves a job alone that is running.
ReapsOnlyInactive ==
    [][stop["reaper"] = "listed" /\ stop'["reaper"] = "stop" => ~JobActive]_vars

=============================================================================
