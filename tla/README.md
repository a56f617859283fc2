# Axinite: TLA+ specifications, model checks and proofs

This directory holds TLA+ models of the parts of Axinite whose correctness
depends on the order in which concurrent tasks run, TLC configurations that
explore them on small instances, and TLAPS proofs that every safety property these
runs check holds for instances of any size. Paths below are relative to the repository root.

`docs/formal-verification-methods-in-axinite.md` names the job-lifecycle cluster
(scheduler, context manager, job state, worker) as the first priority for formal
methods. The development starts there.

## 1. Inventory

Axinite is one asynchronous process (Tokio): an agent loop with channels in front
and a scheduler, a routine engine, a container orchestrator and LLM providers
behind it. State is shared through `RwLock`s, `Mutex`es, atomics and a database.
Tasks interact by those, by bounded `mpsc` channels (worker messages), by
`JoinHandle`s (`is_finished`, `abort`) and by broadcast events.

| Component | State | Operations | Hard behaviour | What makes it correct |
|---|---|---|---|---|
| Job state machine (`src/context/state.rs`, `state/job_state.rs`) | state, capped transition history, repair attempts, token count | `transition_to`, `set_state_rollback`, `attempt_recovery`, `add_tokens` | history drained at one end and popped at the other; a rollback recognises its own transition by end points only | legal transitions only; the history leads to the state |
| `ContextManager` (`src/context/manager.rs`) | map id → context, `max_jobs` | `create_job_for_user`, `get_context`, `update_context` | check-and-insert under one lock; snapshots go stale | limit respected; completed jobs leave |
| Scheduler dispatch (`src/agent/scheduler/dispatch.rs`) | map id → handle, channel, pin flag | `dispatch_job`, `schedule`, cleanup task | capacity races; decide-then-remove | bound on the map; one worker per job; no stranded worker |
| Scheduler stop (`src/agent/scheduler/shutdown.rs`) | the same map; the job row | `stop`, `stop_all` | five critical sections, grace period, per-job timeout, failed writes, aborts | outcomes not overwritten; shutdown returns and leaves nothing executing |
| Worker settling (`src/worker/job/{run_loop,terminal}.rs`) | the context, the job row | `mark_completed_if_active`, `mark_failed`, `mark_stuck`, persist, roll back | memory first, database second, roll back on failure, abort in between | memory and database agree on outcomes |
| Worker loop (`src/worker/job/*.rs`, `src/agent/agentic_loop.rs`) | channel, counters, plan, tool calls | signals, planning, model calls, tools | Stop, messages and cancellation arrive at any await; panics; limits | prompt stop; every call answered; termination; no message lost |
| Job commands and tools, self-repair | snapshots of contexts | help, cancel, `cancel_job`, `repair_stuck_job` | act on snapshots, without the scheduler's lock | a recovered job runs again |
| LLM circuit breaker (`src/llm/circuit_breaker.rs`) | state, two counters, timestamp | `check_allowed`, `record_success`, `record_failure` | results recorded in a state other than the one that admitted the call | trips on a real streak only; always recovers |
| LLM failover and retry (`src/llm/failover*`, `retry.rs`, `chain.rs`) | two atomics per provider | `try_providers`, cooldown | several atomics per decision, concurrent calls between any two | gives up only when every provider failed; comes back when they do |
| Container orchestrator (`src/orchestrator/**`, the sandbox tool and web handlers) | handle, token, grants, container, job row | create, wait, stop, complete, reap, sweep | three parties end the same container; creation is long; crash | access dies with the job; no orphan container; result delivered; no live job reaped |
| Routine engine (`src/agent/routine_engine/**`) | running count, routine rows, run rows, event cache | cron, event, manual fire, execute, edit | lock-free count, check-then-create in the database, lease and updates from a snapshot | places and rows accounted for; limits; the ticker goes on firing |
| Session manager (`src/agent/session_manager.rs`, `thread_ops/hydration.rs`) | sessions, thread map, undo managers | hydrate, resolve, create, prune | three maps under three locks; pruning in five critical sections | a message lands in its thread; channels do not share threads |
| Thread, turns, undo (`src/agent/session/thread.rs`, `undo.rs`, `thread_ops/**`) | turn state, pending approval, auth mode, checkpoints | input, approval, token, undo, redo, resume, compact, interrupt, clear | approvals and tokens arrive late or twice; web and pruning cut in | at rest between messages; a tool runs only on an open request and an answer for it; history ordered |
| Everything else (channels, tools, hooks, workspace, secrets, CLI, ...) | mostly I/O and data | | | listed with reasons in `PROJECT.json` |

How the modelled parts interact: `dispatch_job` creates the context, saves the row
and calls `schedule`, which moves the context to `InProgress`, spawns the worker
and a cleanup task, and enters the worker into the map. The worker loops until it
completes, fails, times out or is told to exit, then settles the outcome in the
context and, in one transaction, in the database. `stop` and `stop_all` send Stop,
cancel the context, pin the entry and abort the worker, write `Cancelled`, and
remove the entry. `cancel_job`, `help` and self-repair change the context from the
side. All of these run concurrently on the same job. A worker's model calls, like
those of a conversation, go through the provider chain: breaker, failover, retry.
Routines either run a model call of their own or dispatch a job. A sandbox job shares
nothing with the scheduler: its state is the handle, the container and its row. A
conversation's messages are handled one at a time by the agent loop; web handlers
and the pruning task touch the same session and maps between its locks.

## 2. Modules

| Module | Models | Depends on |
|---|---|---|
| `JobState` | `JobState::can_transition_to`, `is_terminal`, `is_active`; the history's push, pop and match | |
| `JobLifecycle` | contexts, scheduler map, worker settling, cleanup tasks, stop, stop_all, cancel_job, help, self-repair, job row | `JobState` |
| `JobLifecycleProofs` | theorems about `JobLifecycle` | `JobLifecycle` |
| `JobContract` | what a job looks like from outside: executed or not, and what its row says | |
| `JobRefinement` | the mapping under which `JobLifecycle` implements `JobContract` | `JobLifecycle`, `JobContract` |
| `WorkerLoop`, `WorkerLoopProofs` | one worker from Start to its result, refining the state `running` of `JobLifecycle` | |
| `JobRefinementProofs` | the theorem that it does | `JobRefinement`, `JobLifecycleProofs` |
| `CircuitBreaker` | the breaker by itself | |
| `LlmChain`, `LlmChainProofs` | the breaker around the failover's cooldowns and the retrying providers | `CircuitBreaker` |
| `ContainerJobs`, `ContainerJobsProofs` | one sandboxed job: handle, token, grants, container, row and everyone who acts on them | |
| `RoutineEngine`, `RoutineEngineProofs` | triggers, manual fires, runs, edits and crashes around `running_count` and the rows | |
| `Thread` | the methods of `Thread` and `UndoManager`, as operators on values | |
| `Conversation`, `ConversationProofs` | one thread and its undo manager under the agent loop, the web and pruning | `Thread` |
| `Sessions`, `SessionsProofs` | the session manager's maps under hydration, resolution, thread creation and pruning | |
| `MC*` | instances for TLC | |

### JobLifecycle

Granularity: an action is what one task does between two points at which another
task can run and be noticed, that is a critical section of the contexts lock or of
the jobs lock, or the return of a database call. `schedule_with_context` holds the
jobs lock from the capacity check to the insert, so it is one action
(`SpawnWorker`, or `SpawnRefused` for its early returns); the contexts update it
makes is inside. `apply_terminal_transition` is three: `MarkTerminal`
(re-check and transition under the contexts lock), `PersistOutcome` or
`PersistFails`, and `RollbackContext`. A `stop` call is `StopBegins` (entry found,
Stop sent or the send failed, grace period over), `StopCancels`, `StopPins`,
`StopPersists` or `StopPersistFails`, `StopFinalizes`. `stop_all` runs the in-memory
half for all tracked jobs at once (`StopAllSignals`, `StopAllCancels`,
`StopAllPins`), each droppable by its timeout at any await (`StopAllTimesOut`),
then joins and settles the results one after another.

State: `state`, `transitions` and `repair_attempts` are fields of `JobContext`;
`jobs` is the scheduler's entry, `"pinned"` when `pending_cancel_persist` is set;
`worker` is how far the spawned task is, `"finished"` being `is_finished()`;
`aborted` that `abort()` was called. An aborted task ends at an await of its own
choosing (`AbortTakesEffect`); a transaction it was waiting for may have been
committed. `db` is the status column. `dispatch`, `cleanup`, `stop`, `stopAll`,
`shutdown`, `help` and `repair` are the positions and snapshots of the other tasks.

Abstractions: one `stop`, one `help` and one self-repair call per job at a time
(each may be repeated for ever; two concurrent stops are represented by `stop`
together with `stop_all`, which share every critical section); job ids are never
reused, as `Uuid`s are not; the store is present (without one the writes always
succeed without effect); the initial save may pick up the state at either end of
the call. A failed write is assumed to have written nothing, as the worker's rollback and
`stop` take it; a commit that fails on the client after the server made it
(`src/history/store/jobs.rs:224`, `src/db/libsql/jobs.rs:164`) is outside the model. Costs,
timestamps, metadata and events are left out: none of them is read by a guard.

### WorkerLoop

One action per stretch between two awaits of the worker, of one of its tool tasks,
or of a caller. The replies of the model are free choices among those the code
distinguishes: calls or none from `select_tools`; calls or a text from
`respond_with_tools`, the text with or without tool intent and completion; a rate
limit; another error. Tool tasks of a batch end in any order; `results` are the slots
`collect_ordered_results` fills as it joins them, `answer` what stands behind each call
in the context. `mailbox` is the worker's channel. `lateCalls` and
`lateTools` are history variables that count work begun after Stop entered the
channel and tools begun on a cancelled job. `ExitHasCause` is the guard of
`JobLifecycle!RunExits`: it is what justifies that module's coarser worker.

### CircuitBreaker and LlmChain

The mutex is taken once before the provider call and once after it; `Calls` are
the callers that may be in between. `opened_at` is reduced to none, recent and
elapsed, the distinctions `elapsed() >= recovery_timeout` makes. `streak` is a
history variable: the transient failures recorded since the last recorded success.

`LlmChain` fills in what happens in between, as `build_provider_chain` wires it:
`Partition` and `PickOldest` choose, `Attempt*` are the answers of the current
provider through its retry loop, `RecordProviderFailure`, `ActivateCooldown`,
`ResetCount` and `ResetCooldown` are single atomic operations, `RecordResult` is
back in the breaker. A timestamp is none (0), recent or elapsed; `older` is the
order of the activations, for `min_by_key`. The loads of one `Partition` or `PickOldest`
are one step. Values older than the current one, which a relaxed
load may return, are not modelled, nor is the model name the failover reports.

### ContainerJobs

Everything is keyed by the job id, so there is one job. The creator is either
`execute_sandbox`, which waits for the result, or `restart_sandbox_job`; `stop` has a
position per caller of `stop_job` (the tool's time-out, the web cancel, the reaper);
`completer` is the worker's report, whose handler dies with the connection of the
container it stops; `late` is the set of row updates left to detached tasks. The futures
of the tool, of the restart and of the cancel handler can be dropped at any await
(`CreatorDropped`, `CancelDropped`). The reaper lists any container that exists: the
threshold need only be positive (`src/config/sandbox.rs:64`), so it may come before
`set_container_id`. `seen` is what the waiting tool has read of the result. A crash
loses memory and leaves container and row; the next process sweeps rows and reaps.

### RoutineEngine

The ticker takes a lease (moves `next_fire_at`) before it spawns the run; the two
event watchers match against `event_cache`; `fire_manual` does not reserve a place
but adds one. A `fire` is the task of a run: queued, running, updating the runtime
row, reporting. `leaked` and `stuck` are history variables for what a panic, a failed
write, a crash or a manual fire dropped before its spawn (`ManualDropped`) has taken
for good. Time is whether a time has passed.

### Conversation, Thread and Sessions

The agent loop handles one message at a time, so one `pc` suffices. What a message
is, is chosen where the code first looks at it. `named` is the request an answer names,
which may be any, an earlier or an unknown one too. History variables: `closed` are the
requests that were rejected, interrupted, rewound away, lost, or done with, and `ran` what
the answer named that ran a tool last. A request whose tool asks for a token is staged
again and stays open. Automatic and commanded compaction differ in what they compare
the live thread with, and so in the model. The turn
itself (the dispatcher's model loop) appears as its outcomes: an answer, an error, a
request for approval, a request for a token. `Sessions` keeps, for one user, what
decides where a message lands; what is done there is `Conversation`. `overlap` records
that pruning cut into a resolution; see section 4 for what happens then. Only the gateway
names UUIDs in it, so each has one key (`src/channels/http/handlers.rs` and the WASM
channels may name one too); the reads and re-checks of an adoption are one step, which the
agent loop's one message at a time allows; there is a store. Of the rows a
hydration finds, `StoredTurns` keeps that they are turns once started, in their order.

### JobContract and JobRefinement

`JobContract` has two variables per job: `execution` (none, running, ended) and
`record` (the row). It says that a row precedes the execution, that there is one
execution, that an outcome is recorded in the step that ends the execution that
reached it and is never written over, and that every execution ends. The mapping is
`ExecutionOf(worker)` and `db`. Writing it down settled what the contract is: a row
that says `Cancelled` can still become `Stuck`, through the write a stopped worker has
in flight, but never `Completed` or `Failed`.

## 3. What the runs check

Passing runs:

| Run | Instance | Shows |
|---|---|---|
| `job` | one job, all five outside callers, every write may fail, aborts and panics, `FairSpec`; 43,590 states | `TypeOK`; `HistoryConsistent`: the kept history is a path to the current state; `WorkerTracked`: no live unaborted worker outside the map; `DurableOutcome`: memory and row agree on success and failure except while the worker writes or rolls back; `NoDuplicateExecution`; `OutcomeFinal`: a recorded success or failure never changes; `SlotReleased`: a finished worker's slot comes back unless its cancellation could not be written |
| `shutdown` | two jobs, stop_all alone; 753,359 states, `ShutdownSpec` | `ShutdownReturns` though nobody else need ever move; `ShutdownStopsWork` |
| `loop` | one worker, plans of up to 2 actions, batches of 2, 4 iterations, 2 messages; 913,308 states, `FairSpec` | `StopBoundsWork`: at most three more calls or rounds after Stop; `CancelBoundsTools`: tools begun after a cancellation are calls of one batch only; `ExitHasCause`; `CallsAnswered`: before the next model call every tool call has its own result behind it, or the stand-in error exactly where its task panicked; `FirstMessageKept`; `LoopEnds`, without the job timeout |
| `llm_chain` | two callers, two providers, thresholds 2, `ChainFairSpec`; 785,345 states | `ClosedCountsStreak`, `TripsOnlyOnStreak`, `OpenUntilElapsed` of the breaker; `ChainTypeOK`, with the breaker's `TypeOK`; `GivesUpOnlyIfAllFailed`: a provider that never failed is always reached; `ComesBack`: once backends are well and calls are answered, the circuit closes for good and nobody is skipped |
| `containers` | one job, one crash, `FairSpec`; 427,666 states | `AccessRevoked`: what one call has revoked none gives back; `StopSticks`: what `stop_job` stopped is not shown as running again; `ResultKept`: a result leaves only with the waiting tool's clean-up, after it was read, after the deadline or after another's stop; `NoStaleRow` after the sweep; `CreatorReturns`; `ContainersReaped` |
| `routines` | two cron routines and one event routine, one place, two runs, one request, one fault, `FairSpec`; 371,336 states | `SlotsAccounted`, `TriggersWithinLimit`, `RowsAccounted`; `TickerKeepsFiring`: as long as a cron routine is ready the ticker fires again and again, although ticks break off at capacity |
| `conversation` | four turns, three requests, two checkpoints; 1,353,476 states | `SettledBetweenMessages`: not left Processing, no approval awaited that is not there, no auth claim left; `ClosedNeverRuns`: a tool runs only on the request issued last, still open, and not on an answer that names another; `HistoryOrdered` |
| `sessions` | three session objects, three threads; 4.5 million states | `LandsInItsThread`, `ChannelIsolation` |

The run `job` also checks `ImplementsContract`, the refinement of `JobContract`
including its fairness: every worker that starts ends.
`ParallelBound` of `JobLifecycle` is in no run: it is proved, and so is
`TypeOK` of `ContainerJobs`, `RoutineEngine` and `Sessions`.

Each property of a passing run has a mutant in `PROJECT.json`: a plausible error in
one definition (operators named `<Definition>_<What>`, beside the definition) under
which TLC finds the property violated.

Runs that end in a violation, each a disagreement between the code and what the
repository says of it:

| Run | Statement | What happens |
|---|---|---|
| `retry` | "recovered and will be retried" (`src/agent/self_repair/default.rs`), "Reschedule" (`src/agent/commands/jobs.rs`) | recovery leaves the job `InProgress`; self-repair schedules nothing and `schedule` refuses `InProgress`: no worker ever again |
| `cancelled` | `Cancelled` is terminal (`job_state.rs`, `state_tests.rs`) | a worker's failed `Stuck` write rolls back a cancellation made after a recovery, because the newest transition has the same `from` |
| `reaper` | "Containers older than this with no active job are reaped." (`src/orchestrator/reaper.rs`) | the reaper asks for the job among the job contexts, where sandbox jobs never are, and stops running ones |
| `approval` | "duplicate approvals with same request_id are ignored" (`src/agent/thread_ops/approval.rs`) | an approved tool that asks for a token has run, and its request is staged again under the same id; a duplicate of the approval ends auth mode and runs it again (after a deferred call: runs another tool than the one approved) |

### Bounds

- `MaxTransitions` is 2 instead of 200: with at least two entries and the cycle
  `InProgress`/`Stuck` the cap is reached, exceeded and popped below. The theorem
  covers every cap.
- One job suffices for what concerns one job: jobs meet only in the counts of active
  and tracked jobs and in `stop_all`'s loop, for which `shutdown` has two and the theorems any number.
- `MaxRepairAttempts` is 1; any larger value gives the same reachable states. A
  recovered job never gets a worker that could be stuck again (see `retry`), so
  `repair_attempts` does not pass 1 and the branch of `repair_stuck_job` for an
  exhausted limit is not reached. The model has the branch, for the day it is.
- `ChannelCapacity` 3 instead of 16, `MaxMessages` 2: the channel can be full, and a
  Stop can be before, between or behind messages.
- `MaxIterations`, `MaxNudges`, `MaxRateLimits` are small but larger than one, so
  that counters are raised, reset and exhausted within one run; token counts 0, 1
  and 2 against a budget of 1 are free, within and beyond it.
- `llm_chain`: two callers race on every atomic; both thresholds are 2, so that a
  count is raised, reset and reached. A backend fails once and recovers once; a
  second outage meets no state the first has not produced. `SuccessesNeeded` is 1;
  the theorems about the breaker cover every value.
- `containers`: one crash separates two processes, and the second has everything the
  first left. `routines`: one place, so that every trigger contends; two cron
  routines, so that a tick is broken off with one left; two tasks let a manual fire go
  beyond the place; the bounds on requests and faults name how often somebody
  acts and how often something fails.
- `conversation`: with two checkpoints the undo stack overflows at the third turn;
  four turns leave one more after an undo. `sessions`: three objects and threads let a
  session be pruned, replaced and pruned again.
- Deadlock is not checked where the system may stop (all jobs settled, the worker
  done, bounds used up); the provider chain and the conversation never stop and are
  checked for it.

### Fairness

`FairSpec` of `JobLifecycle` asks of each task that has begun that it goes on: the
runtime polls ready tasks, sleeps and timeouts end, database calls return, and the
self-repair loop comes round again. No user has to do anything. That the worker
leaves `running` is the job timeout's doing. `ShutdownSpec` asks it of `stop_all`
alone. `FairSpec` of `WorkerLoop` asks that the worker and its tool tasks are
polled, model calls return and tools end (each has an execution timeout); the job
timeout is deliberately not used. `ChainFairSpec` asks that time passes and that an
admitted call goes on; callers need not call and backends need not recover.
`FairSpec` of `ContainerJobs` asks that creator and reaper go on while the process is
up, and, strongly, that a removal tried again and again succeeds in the end (the
reaper scans for ever); nobody restarts a crashed process. `FairSpec` of
`RoutineEngine` asks that the ticker ticks, tasks are polled and times pass; it does not
ask that the ticker is fair between routines, as the query has no order.
`Conversation` and `Sessions` state safety only.

## 4. Disagreements found

Met while modelling and confirmed with TLC, besides the four runs above. Most are a
matter of wording; each names the statement.

Jobs:

- "Maximum concurrent jobs." (`src/context/manager.rs:17`): a `Failed` job rolled back to
  `InProgress` after another took its place gives one more than `max_jobs`.
- "leaving the job pinned for later persistence" (`shutdown.rs:176`): the cleanup task
  (`dispatch.rs:150`) may remove the entry of a worker that obeyed Stop before it is
  pinned; a failed write then leaves nothing behind.
- "removes completed jobs from memory" (`docs/jobs-and-routines.md:95`): `remove_job` has no
  caller outside tests, and `Completed` counts as active.
- "subsequent ones will be picked up on the next iteration's drain" (`delegate.rs:200`): the
  loop drains the channel and keeps the first message; later ones are dropped.

Providers:

- "Shouldn't get here (check_allowed blocks Open)" (`circuit_breaker.rs:170`): a call admitted
  while closed can succeed after others opened the circuit, and closes it unprobed.
- "the worst case is one extra attempt" (`failover/cooldown.rs:31`): a failure reaches the
  threshold, a concurrent success resets count and timestamp, the activation is stored
  last: a provider that has just answered is skipped for a whole cooldown.

Sandbox jobs:

- "Container has an ID and is running." (`src/orchestrator/job_types.rs:109`): with a short
  `orphan_threshold` the reaper can remove a container whose creator is still to call
  `set_container_id` (`job_registry.rs:60`), which then shows the reaped job as `Running`.
  Hence `StopSticks` speaks of `stop_job` only.
- "called after result is read" (`job_manager.rs:114`): at its deadline the waiting tool stops
  and cleans up without reading (`sandbox.rs`, `handle_timed_out_container`), and a report that
  arrives meanwhile is dropped; so is one that arrives after another's stop.

Routines:

- "Roll back the pre-increment since the run will not proceed" (`engine.rs:160`): only on an
  error. A manual fire whose caller is dropped during `create_routine_run` keeps its place
  for good, and the row, if it was created, stays `running`.
- A tick at capacity is broken off (`triggers.rs:172`), and the due routines are read without
  an order (`src/history/store/routines.rs:178`): with fewer places than routines one of them
  may never be reached. `TickerKeepsFiring` therefore promises that some routine fires.
- "Max simultaneous runs of this routine." (`src/agent/routine.rs:101`): two callers can both
  count before either creates its row.
- "Maximum concurrent routines across all users" (`docs/configuration-guide.md:304`): manual
  fires add without looking.
- A row left `running` by a crash, a panic or a failed completion is never reconciled and
  counts against the routine's limit from then on.

Sessions and conversations:

- "idle for longer than the given duration" (`session_manager.rs:246`): `last_active_at` is
  not refreshed by turns, so a session in use is pruned, even in the middle of a turn;
  staged approvals, auto-approvals and undo history go with it.
- Hydration exists so that messages do not "land in the wrong conversation"
  (`hydration.rs:66`): pruning between it and the resolution makes a gateway message land
  in a new thread, and can leave a mapping behind that later lets two keys reach one
  thread. Hence `overlap` in the two properties of `Sessions`.
- `/interrupt` cannot reach a turn in progress, as `session.rs:9` and
  `turn_preparation.rs:36` suppose: the loop handles one message at a time
  (`agent_loop.rs:177`).
- "Stale or duplicate approval" (`primary.rs:36`) is ignored by thread state only: a second
  plain "yes" approves whatever has been staged since. An answer that names a request never
  runs another one (`ClosedNeverRuns`), but may run the same one again (`approval`).
- "so the tool chain can resume after auth completion" (`approval/auth.rs:58`): a token given in
  the chat drops the staged continuation; one given through the web leaves the thread
  awaiting approval. A failed token enters auth mode again after the web cancelled it.
- "auto-compacts historical context" (`docs/chat-model.md:333`): the result is compared in
  length with the live thread (`turn_compaction_checkpointing.rs:52`), so that one that
  removed turns is always taken for stale and dropped.
- "undo_count() + redo_count() stays constant" (`undo.rs:47`): not at the cap, nor for
  `restore`. A hydrated thread may find the undo manager of its former self, and redo
  then goes backwards (`inherited`). Pruning can remove the manager of a thread hydrated
  meanwhile; it is recreated empty.

## 5. What is proved

For any finite set of jobs, any limits and any history cap (`JobLifecycleProofs`):
`TypeOK`, `WorkerTracked`, `DurableOutcome`, `ShutdownStopsWork`, `ParallelBound`
and `HistoryConsistent` as invariants, `NoDuplicateExecution` and `OutcomeFinal` as
action properties. Assumptions: `LimitAssumption` and `MaxTransitionsAssumption`,
both what the Rust types give (a cap of at least one; finitely many ids).

The properties are not inductive. `DurableOutcome` for instance would be broken by
a `stop` call about to write `Cancelled` over a success; no such call can exist, but
why not depends on every earlier step of that call. The invariant
`IInv == TypeOK /\ Safe` records it:

- `Stages`: which job states are possible at each stage of dispatch and worker;
  nothing but `help` runs beside a worker in a way that changes its stage.
- `Tracking`: a cleanup task that has decided to remove an entry decided so about a
  worker that is gone or aborted, and that stays so until it removes it.
- `Cancelling`: whoever is past `transition_to_cancelled`, or has aborted the worker,
  did so on a job that is cancelled, or whose finished worker rolled that back. This
  is the key lemma: cancellation and completion exclude each other in the context,
  so they exclude each other in the database.
- `Settling`: an outcome is in the row and its worker is gone, or its worker is
  still writing it or rolling it back.
- `Halting`: what `stop_all` has dealt with no longer executes.

The proof has one lemma per group of actions (`DispatchSafe`, `WorkerSafe`,
`CleanupSafe`, `StopSafe`, `StopAllSafe`, `ShutdownSafe`, `OthersSafe`), combined in
`NextSafe`. Capacity needs that a step adds at most one entry and only below the
limit (`MapSteps`, `CapacityStep`, with cardinality facts). The history is proved
from two lemmas on sequences, `PushPath` and `PopPath`, and from `ContextSteps`, that
every step changes a context by a legal push or a matching pop or not at all.

`JobRefinementProofs` proves `Spec => Contract!Spec`: `JobLifecycle` implements the
safety part of `JobContract`. To `IInv` it adds `Recording`: the row appears between
the two steps of dispatch, no stop call is under way on a job without a worker, and a
row that says `Cancelled` belongs to a cancelled job (or to one whose finished worker
rolled that back). The last part is why a success or failure is never recorded over a
cancellation. Each group of actions has one lemma, which shows that `Recording` is
preserved and that the step is one of `JobContract` or a stutter; a lemma per action
of the contract (`Begins`, `Settles`, `GivesUp`, `Cancels`, `Unseen`) handles the mapping.

TLC finds the inductive invariants below to hold on the instances of section 3
too. The assumptions are those of the model's module; they
say what the Rust types and the configuration give: limits are natural numbers, or
positive ones, and the runs in flight are finitely many. The bounds on turns, requests, sessions, threads,
messages, faults and crashes are constants of the models, and the theorems hold for
every value of them.

**Provider chain** (`LlmChainProofs`). The breaker by itself, for any callers and
limits: `TypeOK`, `ClosedCountsStreak`, `OpenedAtIffNotClosed`, `TripsOnlyOnStreak`;
the strengthening is `HalfOpenShort`, that a half-open circuit has fewer successes
than it needs. `ChainImplementsBreaker` proves `ChainSpec => Spec`: each step of the
chain is one of the breaker or leaves it alone, so all this holds of the chain. The
chain itself, for any number of providers: `ChainTypeOK`, whose hard part is that
concurrent activations and resets keep the timestamps in a strict total order
(`OlderOK`), and that a finite nonempty order has an oldest element
(`WellFoundedInduction`), so that the fallback always finds a provider; and
`GivesUpOnlyIfAllFailed`, from `ChainSafe`: a provider that never failed has neither
count nor timestamp and is still ahead of every call that is at a provider.

**Sandbox jobs** (`ContainerJobsProofs`, any number of crashes). `AccessRevoked`,
`StopSticks`, `NoStaleRow` and the action property `ResultKept`. `Order` ties the
progress of `stop_job`, `complete_job` and the reaper to that of the creator: nobody can
revoke before the token and the grants are stored, `stop_job` does nothing before the
container's id is set, nobody can report before it is started, and the creator has read
nothing before it cleans up. The reaper's direct clean-up is bound by none of this but
the existence of the container.

**Routines** (`RoutineEngineProofs`, any routines, at least one, and any finite number of
runs). `SlotsAccounted`, `TriggersWithinLimit`, `RowsAccounted`. The accounts are sums
of cardinalities; `SpawnCounts`, `EndCounts` and `MoveCounts` say by how much each kind
of step of a run's task changes them; a dropped manual fire moves its place from those
held to those leaked (`DroppedInv`). `Reserving` says that a caller about to exchange
the count saw it below the limit: if it is stale, the exchange fails.

**Worker loop** (`WorkerLoopProofs`, any plan, batch, channel and limits). All six
invariants of the run. `Mail` describes the channel: Stop stays in it until the worker
ends, and the first message is ahead of all others. `Late` counts along the code how
many calls can have begun since Stop at each place. `Cancelled` bounds the tools begun
on a cancelled job together with the calls that have read the old state and not
started (`Unaware`). For `CallsAnswered` a slot holds the result of its own call once the
task is joined, and nothing if it panicked.

**Conversation** (`ConversationProofs`, any number of turns, requests and checkpoints).
All four invariants of the run. `At` says in which state the thread is at each place of
the agent loop; `Requests` that a request that can be taken, or was taken, is issued and
not closed; `Answers` that it is the one issued last, and that an answer that runs a tool
names it or nothing; `Started` that the turns in thread and checkpoints were started; `Line` is
`HistoryOrdered` for any two checkpoints instead of neighbours, which is what pushes,
pops and drops at the cap preserve (`CheckpointKeeps`, `UndoMoves`, `RedoMoves`,
`RestoreMoves`); `OrderedLine` goes back to neighbours.

**Sessions** (`SessionsProofs`, any number of sessions and threads). `TypeOK`,
`ChannelIsolation` and the action property `LandsInItsThread`. Isolation as stated is
not inductive. While pruning has not overlapped with a resolution (`~overlap`): the
whole map is injective (`Injective`); it speaks of threads of the session only
(`InSession`), except between the two critical sections in which pruning removes first
the session and then its entries; a UUID that maps to another thread than its own does
so because another key has that one (`Displaced`); and of the message in hand it is
known that its session is the user's (`Undisturbed`), that a thread to be hydrated is
unknown to the map (`Unknown`), that a hydrated one is present (`Present`) and that a
thread is created only for a key without one (`Unmapped`). What holds with an overlap
too (`Holding`) is what the first half of `LandsInItsThread` needs.

Only model-checked: liveness, for which TLAPS has no useful support here (fairness and
`ENABLED`): `SlotReleased`, `ShutdownReturns`, the contract's fairness in
`ImplementsContract`, `LoopEnds`, `OpenUntilElapsed`, `ComesBack`, `CreatorReturns`,
`ContainersReaped` and `TickerKeepsFiring`. The four violations are runs by nature.

## 6. What is not modelled, and why

- Restart of jobs: `docs/jobs-and-routines.md` says there is "no matching
  rehydrate-or-resume path" for in-process jobs; contexts and map are simply gone.
- Scheduler subtasks, `cleanup_finished`, `remove_job`: no callers outside tests.
- Events, SSE, logging, payloads, costs, counters shown to the user: output without
  influence on control. Event rows are written by one task each and may arrive out of
  order (`src/worker/job/events.rs:36`); nothing reads them back for control.
- Response cache and smart routing: data and text; they hold no state another part's
  control depends on.
- Repair of broken tools, tool registry, hooks, rate limiter, cost guard: single
  critical sections or database rows without a protocol between tasks.
- Channels (`channels-src/**`), tools (`tools-src/**`), the LLM clients, workspace, secrets,
  skills, set-up, CLI: I/O, parsing and formatting. They are most of the repository's
  lines and have no interleavings for a model checker to explore.

## 7. Plan

Done: jobs with the abstract job contract and its refinement, worker loop, provider
chain, sandbox jobs, routines, sessions and conversations, each with its proofs; every
safety property that a run checks is a theorem. Next:

1. The link between `WorkerLoop` and `JobLifecycle` is so far the shared guard
   `ExitHasCause`; a refinement mapping from the loop's states to the worker stage
   `running` would make it a theorem.
2. A crash of the process in `JobLifecycle`, once in-process jobs can be resumed.
3. The liveness properties stay with TLC.
