--------------------------- MODULE RoutineEngine ---------------------------
(* The routine engine (agent/routine_engine): the cron ticker, the two event   *)
(* triggers and the manual callers reserve places in running_count, count a    *)
(* routine's runs in the database, and leave the rest to a task per run.       *)
(*                                                                             *)
(* An action is one atomic operation on running_count, one critical section or *)
(* one database call.  A point in time is known by whether it has passed: a    *)
(* next_fire_at is "due" or "later", a last_run_at is within the cooldown      *)
(* ("hot") or not.  Cron schedules have no last occurrence.                    *)
EXTENDS Integers, FiniteSets

CONSTANTS
    CronRoutines,       \* routines with a cron trigger
    EventRoutines,      \* routines with a message or a system-event trigger
    MaxRoutines,        \* config.max_concurrent_routines
    MaxConcurrent,      \* guardrails.max_concurrent, the same for every routine
    Fires,              \* bound: tasks of runs in flight
    MaxRequests,        \* bound: manual fires, matching events and edits
    MaxFaults           \* bound: failed database calls, panics and crashes

Routines == CronRoutines \cup EventRoutines

ASSUME RoutineAssumption ==
    /\ Routines # {}        \* without a routine there is nothing to run
    /\ CronRoutines \cap EventRoutines = {}
    /\ IsFiniteSet(Fires)
    /\ MaxRoutines \in Nat \ {0} /\ MaxConcurrent \in Nat \ {0}
    /\ MaxRequests \in Nat /\ MaxFaults \in Nat

VARIABLES
    running_count,
    exists, enabled, next_fire_at, hot,     \* the routine's row
    rows,           \* count_running_routine_runs
    event_cache,    \* EventMatchers: "absent", or how old the cached last_run_at is
    fire,           \* the tasks of runs: [pc, routine, kind]
    cron,           \* the ticker: routines left to look at, its loaded count
    events,         \* check_event_triggers and emit_system_event
    manual,         \* fire_manual
    edit,           \* the toggle handler or the routine_update tool
    requests, faults,
    leaked,         \* history: reservations lost with their holder, by kind
    stuck           \* history: rows nobody will complete any more

dbVars == <<exists, enabled, next_fire_at, hot, rows, stuck>>
callerVars == <<cron, events, manual, edit>>
boundVars == <<requests, faults>>
vars == <<running_count, dbVars, event_cache, fire, callerVars, boundVars, leaked>>

Kinds == {"trigger", "manual"}
Watchers == {"message", "system"}

Idle == "idle"
NoFire(r) == [pc |-> Idle, routine |-> r, kind |-> "trigger"]

\* Values of fields that mean nothing while their owner is idle.
AnyRoutine == CHOOSE r \in Routines : TRUE
IdleCron == [pc |-> Idle, todo |-> {}, hot |-> {}, routine |-> AnyRoutine, seen |-> 0]
IdleEvent == [pc |-> Idle, routine |-> AnyRoutine, seen |-> 0]
IdleManual == [pc |-> Idle, routine |-> AnyRoutine]
IdleEdit == [pc |-> Idle, routine |-> AnyRoutine, next_fire_at |-> "none"]

Init ==
    /\ running_count = 0
    /\ exists = [r \in Routines |-> TRUE]
    /\ enabled = [r \in Routines |-> TRUE]
    /\ next_fire_at = [r \in Routines |-> IF r \in CronRoutines THEN "later" ELSE "none"]
    /\ hot = [r \in Routines |-> FALSE]
    /\ rows = [r \in Routines |-> 0]
    /\ event_cache = [r \in EventRoutines |-> "cold"]
    /\ fire = [f \in Fires |-> NoFire(AnyRoutine)]
    /\ cron = IdleCron
    /\ events = [w \in Watchers |-> IdleEvent]
    /\ manual = IdleManual
    /\ edit = IdleEdit
    /\ requests = 0 /\ faults = 0
    /\ leaked = [k \in Kinds |-> 0]
    /\ stuck = [r \in Routines |-> 0]

Request == requests < MaxRequests /\ requests' = requests + 1 /\ UNCHANGED faults
Fault == faults < MaxFaults /\ faults' = faults + 1 /\ UNCHANGED requests

-----------------------------------------------------------------------------
(* Shared by the callers                                                       *)

\* count_running_routine_runs against max_concurrent; an error counts as false.
BelowConcurrent(r) == rows[r] < MaxConcurrent

\* tokio::spawn of a run of r that holds a reservation of the given kind.  Which
\* of the idle tasks it gets makes no difference.
Spawn(r, pc, kind) ==
    LET idle == {f \in Fires : fire[f].pc = Idle} IN
    /\ idle # {}
    /\ fire' = [fire EXCEPT ![CHOOSE f \in idle : TRUE] =
                   [pc |-> pc, routine |-> r, kind |-> kind]]

\* Mutant: the loaded count is stored back instead of compared and exchanged.
CompareExchange_Stores(seen) == running_count' = seen + 1

\* compare_exchange_weak; a spurious failure is a failure that reads the old
\* value again, and takes no step here.
CompareExchange(seen) == running_count = seen /\ running_count' = seen + 1

\* Mutant: the limit itself is let through.
AtCapacity_OffByOne(seen) == seen > MaxRoutines

\* What try_reserve_running_slot makes of a count it has read.
AtCapacity(seen) == seen >= MaxRoutines

-----------------------------------------------------------------------------
(* check_cron_triggers                                                         *)

DueRoutines == {r \in CronRoutines : exists[r] /\ enabled[r] /\ next_fire_at[r] = "due"}

\* Mutant: a claim clears next_fire_at instead of leasing it.
Lease_Clears == [r \in Routines |-> IF r \in DueRoutines THEN "none" ELSE next_fire_at[r]]

Lease == [r \in Routines |-> IF r \in DueRoutines THEN "later" ELSE next_fire_at[r]]

\* list_due_cron_routines: a transaction that reads the due routines and leases
\* each for a minute.
CronTick ==
    /\ cron.pc = Idle /\ DueRoutines # {}
    /\ cron' = [IdleCron EXCEPT !.pc = "load", !.todo = DueRoutines,
                                !.hot = {r \in DueRoutines : hot[r]}]
    /\ next_fire_at' = Lease
    /\ UNCHANGED <<running_count, exists, enabled, hot, rows, stuck, fire,
                   events, manual, edit, boundVars, event_cache, leaked>>

\* The next routine of the list, or the end of the loop.
CronNext(todo) ==
    cron' = IF todo = {} THEN IdleCron ELSE [cron EXCEPT !.pc = "load", !.todo = todo]

\* The count is loaded, for the first time or by a failed exchange; at capacity
\* the loop is left and the remaining routines wait for their lease to end.
CronLoads ==
    /\ \/ cron.pc = "load"
       \/ cron.pc = "cas" /\ cron.seen # running_count
    /\ IF AtCapacity(running_count) THEN cron' = IdleCron
       ELSE \E r \in (IF cron.pc = "cas" THEN {cron.routine} ELSE cron.todo) :
              cron' = [cron EXCEPT !.pc = "cas", !.routine = r, !.seen = running_count,
                                   !.todo = cron.todo \ {r}]
    /\ UNCHANGED <<running_count, fire, boundVars>>

CronReserves ==
    /\ cron.pc = "cas"
    /\ CompareExchange(cron.seen)
    /\ cron' = [cron EXCEPT !.pc = IF cron.routine \in cron.hot THEN "undo" ELSE "count"]
    /\ UNCHANGED <<fire, boundVars>>

\* check_concurrent and, if it lets the routine pass, spawn_fire_reserved.
CronCounts ==
    /\ cron.pc = "count"
    /\ UNCHANGED running_count
    /\ \/ /\ BelowConcurrent(cron.routine)
          /\ Spawn(cron.routine, "queued", "trigger")
          /\ CronNext(cron.todo)
          /\ UNCHANGED boundVars
       \/ /\ IF BelowConcurrent(cron.routine) THEN Fault ELSE UNCHANGED boundVars
          /\ cron' = [cron EXCEPT !.pc = "undo"]
          /\ UNCHANGED fire

\* The reservation of a routine that does not fire is rolled back.
CronRollsBack ==
    /\ cron.pc = "undo"
    /\ running_count' = running_count - 1
    /\ CronNext(cron.todo)
    /\ UNCHANGED <<fire, boundVars>>

CronStep ==
    /\ CronLoads \/ CronReserves \/ CronCounts \/ CronRollsBack
    /\ UNCHANGED <<dbVars, events, manual, edit, event_cache, leaked>>

-----------------------------------------------------------------------------
(* check_event_triggers and emit_system_event: one routine that matches        *)

\* The cached routine has cooled down; its row is not looked at.
EventMatches(w) ==
    \E r \in EventRoutines :
        /\ events[w].pc = Idle /\ event_cache[r] = "cold"
        /\ Request
        /\ events' = [events EXCEPT ![w] = [IdleEvent EXCEPT !.pc = "count", !.routine = r]]
        /\ UNCHANGED <<running_count, fire>>

EventCounts(w) ==
    /\ events[w].pc = "count"
    /\ \/ /\ BelowConcurrent(events[w].routine)
          /\ events' = [events EXCEPT ![w].pc = "load"]
          /\ UNCHANGED boundVars
       \/ /\ IF BelowConcurrent(events[w].routine) THEN Fault ELSE UNCHANGED boundVars
          /\ events' = [events EXCEPT ![w] = IdleEvent]
    /\ UNCHANGED <<running_count, fire>>

EventLoads(w) ==
    /\ \/ events[w].pc = "load"
       \/ events[w].pc = "cas" /\ events[w].seen # running_count
    /\ events' = [events EXCEPT ![w] =
                    IF AtCapacity(running_count) THEN IdleEvent
                    ELSE [@ EXCEPT !.pc = "cas", !.seen = running_count]]
    /\ UNCHANGED <<running_count, fire, boundVars>>

\* The reservation and spawn_fire_reserved, with no await in between.
EventReserves(w) ==
    /\ events[w].pc = "cas"
    /\ CompareExchange(events[w].seen)
    /\ Spawn(events[w].routine, "queued", "trigger")
    /\ events' = [events EXCEPT ![w] = IdleEvent]
    /\ UNCHANGED boundVars

EventStep(w) ==
    /\ EventMatches(w) \/ EventCounts(w) \/ EventLoads(w) \/ EventReserves(w)
    /\ UNCHANGED <<dbVars, cron, manual, edit, event_cache, leaked>>

-----------------------------------------------------------------------------
(* fire_manual                                                                 *)

ManualLoads ==
    \E r \in Routines :
        /\ manual.pc = Idle /\ exists[r] /\ enabled[r]
        /\ Request
        /\ manual' = [pc |-> "count", routine |-> r]
        /\ UNCHANGED <<running_count, fire, rows>>

\* No cooldown, and no look at the global limit.
ManualCounts ==
    /\ manual.pc = "count"
    /\ \/ /\ BelowConcurrent(manual.routine)
          /\ manual' = [manual EXCEPT !.pc = "add"]
          /\ UNCHANGED boundVars
       \/ /\ IF BelowConcurrent(manual.routine) THEN Fault ELSE UNCHANGED boundVars
          /\ manual' = IdleManual
    /\ UNCHANGED <<running_count, fire, rows>>

ManualAdds ==
    /\ manual.pc = "add"
    /\ running_count' = running_count + 1
    /\ manual' = [manual EXCEPT !.pc = "create"]
    /\ UNCHANGED <<fire, rows, boundVars>>

\* create_routine_run, here before the task is spawned.  The row of a deleted
\* routine is refused by its foreign key.
ManualCreates ==
    /\ manual.pc = "create"
    /\ \/ /\ exists[manual.routine]
          /\ rows' = [rows EXCEPT ![manual.routine] = @ + 1]
          /\ Spawn(manual.routine, "run", "manual")
          /\ UNCHANGED <<running_count, boundVars>>
       \/ /\ IF exists[manual.routine] THEN Fault ELSE UNCHANGED boundVars
          /\ running_count' = running_count - 1
          /\ UNCHANGED <<fire, rows>>
    /\ manual' = IdleManual

ManualStep ==
    /\ ManualLoads \/ ManualCounts \/ ManualAdds \/ ManualCreates
    /\ UNCHANGED <<exists, enabled, next_fire_at, hot, stuck, cron, events, edit,
                   event_cache, leaked>>

\* The caller's future, an HTTP handler's or a tool's, is dropped while it awaits
\* create_routine_run: the place is not given back, and a row that the database
\* did create has no task.  Dropped earlier it has taken nothing yet.
ManualDropped ==
    LET r == manual.routine IN
    /\ manual.pc = "create"
    /\ Fault
    /\ manual' = IdleManual
    /\ leaked' = [leaked EXCEPT !["manual"] = @ + 1]
    /\ \/ /\ exists[r]
          /\ rows' = [rows EXCEPT ![r] = @ + 1]
          /\ stuck' = [stuck EXCEPT ![r] = @ + 1]
       \/ UNCHANGED <<rows, stuck>>
    /\ UNCHANGED <<running_count, exists, enabled, next_fire_at, hot, event_cache,
                   fire, cron, events, edit>>

-----------------------------------------------------------------------------
(* The task of a run: spawn_fire_reserved and execute_routine                  *)

\* Mutant: a run that could not be recorded is executed all the same.
FireCreates_Unrecorded(f) ==
    LET r == fire[f].routine IN
    /\ fire[f].pc = "queued"
    /\ fire' = [fire EXCEPT ![f].pc = "run"]
    /\ \/ exists[r] /\ rows' = [rows EXCEPT ![r] = @ + 1] /\ UNCHANGED boundVars
       \/ (IF exists[r] THEN Fault ELSE UNCHANGED boundVars) /\ UNCHANGED rows
    /\ UNCHANGED <<running_count, hot, next_fire_at, stuck, leaked>>

\* create_routine_run, or the early return after its failure.
FireCreates(f) ==
    LET r == fire[f].routine IN
    /\ fire[f].pc = "queued"
    /\ \/ /\ exists[r]
          /\ rows' = [rows EXCEPT ![r] = @ + 1]
          /\ fire' = [fire EXCEPT ![f].pc = "run"]
          /\ UNCHANGED <<running_count, boundVars>>
       \/ /\ IF exists[r] THEN Fault ELSE UNCHANGED boundVars
          /\ running_count' = running_count - 1
          /\ fire' = [fire EXCEPT ![f] = NoFire(AnyRoutine)]
          /\ UNCHANGED rows
    /\ UNCHANGED <<hot, next_fire_at, stuck, leaked>>

\* run_action ends, well or with an error, and complete_run_record writes its
\* outcome; a failed write is only logged, and the row stays "running".
CompleteRunRecord(f) ==
    LET r == fire[f].routine IN
    /\ fire[f].pc = "run"
    /\ fire' = [fire EXCEPT ![f].pc = "update"]
    /\ IF exists[r]
       THEN \/ rows' = [rows EXCEPT ![r] = @ - 1] /\ UNCHANGED <<stuck, boundVars>>
            \/ Fault /\ stuck' = [stuck EXCEPT ![r] = @ + 1] /\ UNCHANGED rows
       ELSE UNCHANGED <<rows, stuck, boundVars>>
    /\ UNCHANGED <<running_count, hot, next_fire_at, leaked>>

\* update_runtime_state, unconditional, from the routine as it was loaded; an
\* UPDATE of a deleted routine changes nothing.
UpdateRuntimeState(f) ==
    LET r == fire[f].routine IN
    /\ fire[f].pc = "update"
    /\ fire' = [fire EXCEPT ![f].pc = "report"]
    /\ \/ /\ hot' = [hot EXCEPT ![r] = exists[r]]
          /\ next_fire_at' = [next_fire_at EXCEPT ![r] =
                                IF exists[r] /\ r \in CronRoutines THEN "later" ELSE @]
          /\ UNCHANGED boundVars
       \/ Fault /\ UNCHANGED <<hot, next_fire_at>>
    /\ UNCHANGED <<running_count, rows, stuck, leaked>>

\* The message and the notification are out, and the place is given back.
ReleaseSlot(f) ==
    /\ fire[f].pc = "report"
    /\ running_count' = running_count - 1
    /\ fire' = [fire EXCEPT ![f] = NoFire(AnyRoutine)]
    /\ UNCHANGED <<hot, next_fire_at, rows, stuck, leaked, boundVars>>

FireStep(f) ==
    /\ FireCreates(f) \/ CompleteRunRecord(f) \/ UpdateRuntimeState(f) \/ ReleaseSlot(f)
    /\ UNCHANGED <<exists, enabled, event_cache, callerVars>>

\* A panic in the action ends the task: neither row nor place is given back.
ActionPanics(f) ==
    LET r == fire[f].routine IN
    /\ fire[f].pc = "run"
    /\ Fault
    /\ fire' = [fire EXCEPT ![f] = NoFire(AnyRoutine)]
    /\ leaked' = [leaked EXCEPT ![fire[f].kind] = @ + 1]
    /\ stuck' = IF exists[r] THEN [stuck EXCEPT ![r] = @ + 1] ELSE stuck
    /\ UNCHANGED <<running_count, exists, enabled, next_fire_at, hot, rows,
                   event_cache, callerVars>>

-----------------------------------------------------------------------------
(* Edits, refreshes of the cache, time, crashes                                *)

\* The web toggle and the routine_update tool load the whole row ...
EditLoads ==
    \E r \in Routines :
        /\ edit.pc = Idle /\ exists[r]
        /\ Request
        /\ edit' = [pc |-> "loaded", routine |-> r, next_fire_at |-> next_fire_at[r]]
        /\ UNCHANGED <<dbVars, event_cache>>

\* ... and write it back with next_fire_at as it was loaded, or computed anew
\* when the schedule was changed.  A time loaded as "later" may have passed.
EditWrites ==
    LET r == edit.routine IN
    /\ edit.pc = "loaded"
    /\ edit' \in {IdleEdit, [edit EXCEPT !.pc = "refresh"]}
    /\ IF exists[r]
       THEN /\ \E e \in BOOLEAN : enabled' = [enabled EXCEPT ![r] = e]
            /\ \E t \in (IF r \in CronRoutines THEN {edit.next_fire_at, "due", "later"}
                                               ELSE {"none"}) :
                 next_fire_at' = [next_fire_at EXCEPT ![r] = t]
       ELSE UNCHANGED <<enabled, next_fire_at>>
    /\ UNCHANGED <<exists, hot, rows, stuck, event_cache, boundVars>>

\* The write fails and the handler returns.
EditFails ==
    /\ edit.pc = "loaded" /\ edit' = IdleEdit
    /\ Fault
    /\ UNCHANGED <<dbVars, event_cache>>

\* delete_routine, from the web handler or the tool; its runs' rows go with it.
Delete ==
    \E r \in Routines :
        /\ edit.pc = Idle /\ exists[r]
        /\ Request
        /\ exists' = [exists EXCEPT ![r] = FALSE]
        /\ rows' = [rows EXCEPT ![r] = 0] /\ stuck' = [stuck EXCEPT ![r] = 0]
        /\ edit' \in {IdleEdit, [IdleEdit EXCEPT !.pc = "refresh", !.routine = r]}
        /\ UNCHANGED <<enabled, next_fire_at, hot, event_cache>>

CacheOf(r) ==
    IF exists[r] /\ enabled[r] THEN (IF hot[r] THEN "hot" ELSE "cold") ELSE "absent"

\* refresh_event_cache: list_event_routines, then the write lock, which waits
\* for the callers iterating over the cache.  Only the tools call it.
RefreshEventCache ==
    /\ edit.pc = "refresh"
    /\ \A w \in Watchers : events[w].pc = Idle
    /\ \/ event_cache' = [r \in EventRoutines |-> CacheOf(r)] /\ UNCHANGED boundVars
       \/ Fault /\ UNCHANGED event_cache
    /\ edit' = IdleEdit
    /\ UNCHANGED dbVars

EditStep ==
    /\ EditLoads \/ EditWrites \/ EditFails \/ Delete \/ RefreshEventCache
    /\ UNCHANGED <<running_count, fire, cron, events, manual, leaked>>

\* next_fire_at passes.
FireTimePasses(r) ==
    /\ next_fire_at[r] = "later"
    /\ next_fire_at' = [next_fire_at EXCEPT ![r] = "due"]
    /\ UNCHANGED <<running_count, exists, enabled, hot, rows, stuck, event_cache,
                   fire, callerVars, boundVars, leaked>>

\* The cooldown of r passes: for the copies of its last_run_at, which are no
\* later than the row's, first or at the same time.
CooldownPasses(r) ==
    /\ hot[r]
    /\ \E b \in BOOLEAN : hot' = [hot EXCEPT ![r] = b]
    /\ cron' = [cron EXCEPT !.hot = @ \ {r}]
    /\ event_cache' = [x \in EventRoutines |->
                         IF x = r /\ event_cache[x] = "hot" THEN "cold" ELSE event_cache[x]]
    /\ UNCHANGED <<running_count, exists, enabled, next_fire_at, rows, stuck, fire,
                   events, manual, edit, boundVars, leaked>>

\* The process crashes and is started again: the count starts at zero, the rows
\* of interrupted runs stay as they are, the cache is loaded anew.
CrashAndRestart ==
    /\ Fault
    /\ running_count' = 0
    /\ fire' = [f \in Fires |-> NoFire(AnyRoutine)]
    /\ stuck' = rows
    /\ cron' = IdleCron /\ events' = [w \in Watchers |-> IdleEvent]
    /\ manual' = IdleManual /\ edit' = IdleEdit
    /\ event_cache' = [r \in EventRoutines |-> CacheOf(r)]
    /\ leaked' = [k \in Kinds |-> 0]
    /\ UNCHANGED <<exists, enabled, next_fire_at, hot, rows>>

Next ==
    \/ CronTick \/ CronStep
    \/ \E w \in Watchers : EventStep(w)
    \/ ManualStep \/ ManualDropped
    \/ \E f \in Fires : FireStep(f) \/ ActionPanics(f)
    \/ EditStep
    \/ \E r \in Routines : FireTimePasses(r) \/ CooldownPasses(r)
    \/ CrashAndRestart

Spec == Init /\ [][Next]_vars

\* The ticker ticks, tasks are scheduled, model and database calls return, time
\* passes.  Nobody has to send a message, fire by hand or edit a routine.
FairSpec ==
    /\ Spec
    /\ WF_vars(CronTick \/ CronStep)
    /\ \A w \in Watchers : WF_vars(events[w].pc # Idle /\ EventStep(w))
    /\ WF_vars(manual.pc # Idle /\ ManualStep)
    /\ \A f \in Fires : WF_vars(FireStep(f))
    /\ \A r \in Routines :
        /\ WF_vars(FireTimePasses(r))
        /\ WF_vars(CooldownPasses(r) /\ ~hot'[r])

-----------------------------------------------------------------------------
(* Properties                                                                  *)

\* Every variable keeps its type.
TypeOK ==
    /\ running_count \in Nat
    /\ exists \in [Routines -> BOOLEAN] /\ enabled \in [Routines -> BOOLEAN]
    /\ next_fire_at \in [Routines -> {"none", "due", "later"}]
    /\ hot \in [Routines -> BOOLEAN]
    /\ rows \in [Routines -> Nat] /\ stuck \in [Routines -> Nat]
    /\ event_cache \in [EventRoutines -> {"absent", "hot", "cold"}]
    /\ fire \in [Fires -> [pc : {Idle, "queued", "run", "update", "report"},
                           routine : Routines, kind : Kinds]]
    /\ cron \in [pc : {Idle, "load", "cas", "count", "undo"}, todo : SUBSET CronRoutines,
                 hot : SUBSET CronRoutines, routine : Routines, seen : Nat]
    /\ events \in [Watchers -> [pc : {Idle, "count", "load", "cas"},
                                routine : Routines, seen : Nat]]
    /\ manual \in [pc : {Idle, "count", "add", "create"}, routine : Routines]
    /\ edit \in [pc : {Idle, "loaded", "refresh"}, routine : Routines,
                 next_fire_at : {"none", "due", "later"}]
    /\ requests \in 0 .. MaxRequests /\ faults \in 0 .. MaxFaults
    /\ leaked \in [Kinds -> Nat]

InFlight(kind) == {f \in Fires : fire[f].pc # Idle /\ fire[f].kind = kind}

\* Places held by triggers: their runs, and the ticker's while it decides.
TriggerHeld ==
    Cardinality(InFlight("trigger")) + (IF cron.pc \in {"count", "undo"} THEN 1 ELSE 0)

ManualHeld ==
    Cardinality(InFlight("manual")) + (IF manual.pc = "create" THEN 1 ELSE 0)

\* running_count is the number of places held, plus those that a panicking action
\* or a dropped manual fire has taken with it: no rollback, failed write or crash
\* leaves it too high or too low, whatever the order of the callers' loads and
\* exchanges.
SlotsAccounted ==
    running_count = TriggerHeld + ManualHeld + leaked["trigger"] + leaked["manual"]

\* Cron and event triggers never hold more places than max_concurrent_routines;
\* only manual fires go beyond the limit.
TriggersWithinLimit == TriggerHeld + leaked["trigger"] <= MaxRoutines

Executing(r) == {f \in Fires : fire[f].pc = "run" /\ fire[f].routine = r}

\* The rows that count against max_concurrent are those of the runs executing,
\* and those left by a failed completion, a panic, a dropped manual fire or a
\* crash: no run executes without its row, and none leaves one behind otherwise.
RowsAccounted ==
    \A r \in Routines : exists[r] => rows[r] = Cardinality(Executing(r)) + stuck[r]

\* A cron routine that could be fired.
Ready(r) ==
    /\ exists[r] /\ enabled[r]
    /\ stuck[r] < MaxConcurrent
    /\ leaked["trigger"] + leaked["manual"] < MaxRoutines

\* As long as one cron routine stays ready the ticker goes on firing, although a
\* claim may be in vain (in its cooldown, while a run of it is executing) or be
\* given up by a tick that is broken off at capacity: none of these loses a
\* routine.  Which one is fired is open: the ticker promises no order, and with
\* fewer places than routines it may pass over the same one again and again.
TickerKeepsFiring ==
    \A r \in CronRoutines :
        <>[]Ready(r) => []<><<CronStep /\ fire' # fire>>_vars

=============================================================================
