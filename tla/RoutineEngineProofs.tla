------------------------ MODULE RoutineEngineProofs ------------------------
(* The routine engine's accounts, for any number of routines, of runs in       *)
(* flight, of requests and of faults, and any limits.                          *)
(*                                                                             *)
(* running_count and the rows of runs are changed by atomic operations and     *)
(* database calls of tasks that do not know of each other.  The accounts are   *)
(* exact because every change of either comes with exactly one change of a     *)
(* task's stage (SpawnCounts, EndCounts, MoveCounts); the limit holds because  *)
(* a caller exchanges only a count it has seen below the limit (Reserving), so *)
(* that a stale one fails to compare.                                          *)
EXTENDS RoutineEngine, FiniteSetTheorems, TLAPS

Triggers == Cardinality(InFlight("trigger"))
Manuals == Cardinality(InFlight("manual"))
Runs(r) == Cardinality(Executing(r))

\* What compare_exchange is given was below the limit when it was loaded.
Reserving ==
    /\ cron.pc = "cas" => cron.seen < MaxRoutines
    /\ \A w \in Watchers : events[w].pc = "cas" => events[w].seen < MaxRoutines

IInv ==
    TypeOK /\ Reserving /\ SlotsAccounted /\ TriggersWithinLimit /\ RowsAccounted

FirePC == {Idle, "queued", "run", "update", "report"}
FireType == [Fires -> [pc : FirePC, routine : Routines, kind : Kinds]]

-----------------------------------------------------------------------------
(* What the steps of a run's task do to the counts                             *)

LEMMA AnyRoutineType == AnyRoutine \in Routines
BY RoutineAssumption DEF AnyRoutine

\* The counts are natural numbers.
LEMMA CountTypes ==
    /\ \A k \in Kinds : IsFiniteSet(InFlight(k)) /\ Cardinality(InFlight(k)) \in Nat
    /\ \A r \in Routines : IsFiniteSet(Executing(r)) /\ Runs(r) \in Nat
<1>1. ASSUME NEW S \in SUBSET Fires PROVE IsFiniteSet(S) /\ Cardinality(S) \in Nat
  BY RoutineAssumption, FS_Subset, FS_CardinalityType
<1>2. \A k \in Kinds : InFlight(k) \in SUBSET Fires  BY DEF InFlight
<1>3. \A r \in Routines : Executing(r) \in SUBSET Fires  BY DEF Executing
<1> QED BY <1>1, <1>2, <1>3 DEF Runs

\* One more run in flight, of the kind and routine it was spawned for.
LEMMA SpawnCounts ==
    ASSUME fire \in FireType, NEW r \in Routines, NEW pc \in {"queued", "run"},
           NEW kind \in Kinds, Spawn(r, pc, kind)
    PROVE  /\ fire' \in FireType
           /\ Triggers' = IF kind = "trigger" THEN Triggers + 1 ELSE Triggers
           /\ Manuals' = IF kind = "manual" THEN Manuals + 1 ELSE Manuals
           /\ \A q \in Routines :
                Runs(q)' = IF pc = "run" /\ q = r THEN Runs(q) + 1 ELSE Runs(q)
<1>1. PICK f \in Fires : /\ fire[f].pc = Idle
                         /\ fire' = [fire EXCEPT ![f] = [pc |-> pc, routine |-> r, kind |-> kind]]
  BY DEF Spawn
<1>2. fire' \in FireType  BY <1>1 DEF FireType, FirePC
<1>3. \A k \in Kinds : InFlight(k)' = IF k = kind THEN InFlight(k) \cup {f} ELSE InFlight(k)
  BY <1>1 DEF InFlight, Idle, FireType
<1>4. \A q \in Routines :
         Executing(q)' = IF pc = "run" /\ q = r THEN Executing(q) \cup {f} ELSE Executing(q)
  BY <1>1 DEF Executing, Idle, FireType
<1>5. \A k \in Kinds : f \notin InFlight(k)  BY <1>1 DEF InFlight
<1>6. \A q \in Routines : f \notin Executing(q)  BY <1>1 DEF Executing, Idle
<1>7. \A k \in Kinds : Cardinality(InFlight(k))' =
         IF k = kind THEN Cardinality(InFlight(k)) + 1 ELSE Cardinality(InFlight(k))
  BY <1>3, <1>5, CountTypes, FS_AddElement
<1>8. \A q \in Routines :
         Runs(q)' = IF pc = "run" /\ q = r THEN Runs(q) + 1 ELSE Runs(q)
  BY <1>4, <1>6, CountTypes, FS_AddElement DEF Runs
<1> QED BY <1>2, <1>7, <1>8 DEF Triggers, Manuals, Kinds

\* One run less, of its kind and, if it was executing, of its routine.
LEMMA EndCounts ==
    ASSUME fire \in FireType, NEW f \in Fires, fire[f].pc # Idle,
           fire' = [fire EXCEPT ![f] = NoFire(AnyRoutine)]
    PROVE  /\ fire' \in FireType
           /\ Triggers' = IF fire[f].kind = "trigger" THEN Triggers - 1 ELSE Triggers
           /\ Manuals' = IF fire[f].kind = "manual" THEN Manuals - 1 ELSE Manuals
           /\ \A q \in Routines :
                Runs(q)' = IF fire[f].pc = "run" /\ q = fire[f].routine
                           THEN Runs(q) - 1 ELSE Runs(q)
<1>1. fire' \in FireType
  BY AnyRoutineType DEF FireType, FirePC, NoFire, Kinds
<1>2. fire'[f].pc = Idle /\ \A g \in Fires : g # f => fire'[g] = fire[g]
  BY DEF FireType, NoFire
<1>3. \A k \in Kinds : InFlight(k)' = IF k = fire[f].kind THEN InFlight(k) \ {f} ELSE InFlight(k)
  BY <1>2 DEF InFlight
<1>4. \A q \in Routines :
         Executing(q)' = IF fire[f].pc = "run" /\ q = fire[f].routine
                         THEN Executing(q) \ {f} ELSE Executing(q)
  BY <1>2 DEF Executing, Idle
<1>5. f \in InFlight(fire[f].kind) /\ fire[f].kind \in Kinds
  BY DEF InFlight, FireType
<1>6. fire[f].pc = "run" => f \in Executing(fire[f].routine)  BY DEF Executing
<1>7. \A k \in Kinds : Cardinality(InFlight(k))' =
         IF k = fire[f].kind THEN Cardinality(InFlight(k)) - 1 ELSE Cardinality(InFlight(k))
  BY <1>3, <1>5, CountTypes, FS_RemoveElement
<1>8. \A q \in Routines :
         Runs(q)' = IF fire[f].pc = "run" /\ q = fire[f].routine THEN Runs(q) - 1 ELSE Runs(q)
  BY <1>4, <1>6, CountTypes, FS_RemoveElement DEF Runs
<1> QED BY <1>1, <1>5, <1>7, <1>8 DEF Triggers, Manuals, Kinds

\* A run that goes on to another stage.
LEMMA MoveCounts ==
    ASSUME fire \in FireType, NEW f \in Fires, NEW to \in {"run", "update", "report"},
           fire[f].pc # Idle, fire[f].pc # to, fire' = [fire EXCEPT ![f].pc = to]
    PROVE  /\ fire' \in FireType
           /\ Triggers' = Triggers /\ Manuals' = Manuals
           /\ \A q \in Routines :
                Runs(q)' = IF q # fire[f].routine THEN Runs(q)
                           ELSE IF to = "run" THEN Runs(q) + 1
                           ELSE IF fire[f].pc = "run" THEN Runs(q) - 1 ELSE Runs(q)
<1>1. fire' \in FireType  BY DEF FireType, FirePC
<1>2. /\ fire'[f].pc = to
      /\ \A g \in Fires : /\ g # f => fire'[g] = fire[g]
                          /\ fire'[g].kind = fire[g].kind
                          /\ fire'[g].routine = fire[g].routine
  BY DEF FireType
<1>3. \A k \in Kinds : InFlight(k)' = InFlight(k)  BY <1>2 DEF InFlight, Idle
<1>4. \A q \in Routines : Executing(q)' =
         IF q # fire[f].routine THEN Executing(q)
         ELSE IF to = "run" THEN Executing(q) \cup {f}
         ELSE IF fire[f].pc = "run" THEN Executing(q) \ {f} ELSE Executing(q)
  BY <1>2 DEF Executing
<1>5. /\ fire[f].pc = "run" => f \in Executing(fire[f].routine)
      /\ fire[f].pc # "run" => f \notin Executing(fire[f].routine)
  BY DEF Executing
<1>6. \A q \in Routines :
         Runs(q)' = IF q # fire[f].routine THEN Runs(q)
                    ELSE IF to = "run" THEN Runs(q) + 1
                    ELSE IF fire[f].pc = "run" THEN Runs(q) - 1 ELSE Runs(q)
  BY <1>4, <1>5, CountTypes, FS_AddElement, FS_RemoveElement DEF Runs
<1> QED BY <1>1, <1>3, <1>6 DEF Triggers, Manuals, Kinds

\* Steps that leave the tasks of runs alone.
LEMMA SameCounts ==
    ASSUME fire' = fire
    PROVE  Triggers' = Triggers /\ Manuals' = Manuals /\ \A q \in Routines : Runs(q)' = Runs(q)
BY DEF Triggers, Manuals, Runs, InFlight, Executing

-----------------------------------------------------------------------------
(* The steps                                                                   *)

\* The types of what is not the tasks of runs.
DbType ==
    /\ exists \in [Routines -> BOOLEAN] /\ enabled \in [Routines -> BOOLEAN]
    /\ next_fire_at \in [Routines -> {"none", "due", "later"}]
    /\ hot \in [Routines -> BOOLEAN]
    /\ rows \in [Routines -> Nat] /\ stuck \in [Routines -> Nat]
    /\ event_cache \in [EventRoutines -> {"absent", "hot", "cold"}]
CronType ==
    cron \in [pc : {Idle, "load", "cas", "count", "undo"}, todo : SUBSET CronRoutines,
              hot : SUBSET CronRoutines, routine : Routines, seen : Nat]
EventsType ==
    events \in [Watchers -> [pc : {Idle, "count", "load", "cas"},
                             routine : Routines, seen : Nat]]
EditType ==
    edit \in [pc : {Idle, "loaded", "refresh"}, routine : Routines,
              next_fire_at : {"none", "due", "later"}]
ManualType == manual \in [pc : {Idle, "count", "add", "create"}, routine : Routines]
BoundsType ==
    /\ requests \in 0 .. MaxRequests /\ faults \in 0 .. MaxFaults
    /\ leaked \in [Kinds -> Nat]

Types ==
    /\ running_count \in Nat
    /\ DbType /\ fire \in FireType /\ CronType /\ EventsType /\ ManualType
    /\ EditType /\ BoundsType

LEMMA TypeParts == TypeOK <=> Types
BY DEF TypeOK, Types, DbType, FireType, FirePC, CronType, EventsType, ManualType,
       EditType, BoundsType

LEMMA TypePartsNext == TypeOK' <=> Types'
BY TypeParts, PTL

LEMMA IdleTypes ==
    /\ IdleCron \in [pc : {Idle}, todo : SUBSET CronRoutines, hot : SUBSET CronRoutines,
                     routine : Routines, seen : Nat]
    /\ IdleEvent \in [pc : {Idle}, routine : Routines, seen : Nat]
    /\ IdleManual \in [pc : {Idle}, routine : Routines]
    /\ IdleEdit \in [pc : {Idle}, routine : Routines, next_fire_at : {"none"}]
BY AnyRoutineType DEF IdleCron, IdleEvent, IdleManual, IdleEdit

\* The two bounds only move within their limits.
LEMMA BoundsStep ==
    ASSUME BoundsType, leaked' = leaked, Request \/ Fault \/ UNCHANGED boundVars
    PROVE  BoundsType'
BY RoutineAssumption DEF BoundsType, Request, Fault, boundVars

\* Places in numbers: what each account says about the counts.
AccountsForm ==
    /\ SlotsAccounted <=>
         running_count = Triggers + (IF cron.pc \in {"count", "undo"} THEN 1 ELSE 0)
                         + (Manuals + (IF manual.pc = "create" THEN 1 ELSE 0))
                         + leaked["trigger"] + leaked["manual"]
    /\ TriggersWithinLimit <=>
         Triggers + (IF cron.pc \in {"count", "undo"} THEN 1 ELSE 0)
           + leaked["trigger"] <= MaxRoutines
    /\ RowsAccounted <=> \A r \in Routines : exists[r] => rows[r] = Runs(r) + stuck[r]
    /\ Triggers \in Nat /\ Manuals \in Nat /\ \A r \in Routines : Runs(r) \in Nat

LEMMA Accounts == AccountsForm
BY CountTypes
   DEF AccountsForm, SlotsAccounted, TriggersWithinLimit, RowsAccounted, TriggerHeld,
       ManualHeld, Triggers, Manuals, Runs, Kinds

LEMMA AccountsNext == AccountsForm'
BY Accounts, PTL

\* A fresh engine satisfies the invariant.
LEMMA InitIInv == Init => IInv
<1> SUFFICES ASSUME Init PROVE IInv
  OBVIOUS
<1>1. TypeOK
  <2>1. running_count \in Nat  BY DEF Init
  <2>2. DbType  BY DEF Init, DbType
  <2>3. fire \in FireType
    BY AnyRoutineType DEF Init, FireType, FirePC, NoFire, Kinds
  <2>4. CronType /\ EventsType /\ ManualType /\ EditType
    BY IdleTypes DEF Init, CronType, EventsType, ManualType, EditType
  <2>5. BoundsType  BY RoutineAssumption DEF Init, BoundsType
  <2> QED BY <2>1, <2>2, <2>3, <2>4, <2>5, TypeParts DEF Types
<1>2. cron.pc = Idle /\ manual.pc = Idle /\ \A w \in Watchers : events[w].pc = Idle
  BY DEF Init, IdleCron, IdleManual, IdleEvent
<1>3. Reserving  BY <1>2 DEF Reserving, Idle
<1>4. \A f \in Fires : fire[f].pc = Idle  BY DEF Init, NoFire
<1>5. InFlight("trigger") = {} /\ InFlight("manual") = {}  BY <1>4 DEF InFlight
<1>6. \A r \in Routines : Executing(r) = {}  BY <1>4 DEF Executing, Idle
<1>7. Triggers = 0 /\ Manuals = 0 /\ \A r \in Routines : Runs(r) = 0
  BY <1>5, <1>6, FS_EmptySet DEF Triggers, Manuals, Runs
<1>8. leaked["trigger"] = 0 /\ leaked["manual"] = 0  BY DEF Init, Kinds
<1>9. SlotsAccounted /\ TriggersWithinLimit /\ RowsAccounted
  BY <1>2, <1>7, <1>8, Accounts, RoutineAssumption DEF AccountsForm, Init, Idle
<1> QED BY <1>1, <1>3, <1>9 DEF IInv

\* The ticker claims the due routines.
LEMMA CronTickInv == ASSUME IInv, CronTick PROVE IInv'
<1> USE DEF IInv
<1>1. cron.pc = Idle /\ cron'.pc = "load"
  BY DEF CronTick, IdleCron
<1>2. CronType'
  BY IdleTypes DEF CronTick, CronType, DueRoutines, IdleCron
<1>3. DbType'
  BY TypeParts DEF Types, CronTick, DbType, Lease
<1>4. UNCHANGED <<running_count, exists, rows, stuck, fire, events, manual, edit,
                  requests, faults, leaked>>
  BY DEF CronTick, boundVars
<1>5. TypeOK'
  BY <1>2, <1>3, <1>4, TypeParts, TypePartsNext
     DEF Types, EventsType, ManualType, EditType, BoundsType
<1>6. Reserving'  BY <1>1, <1>4 DEF Reserving
<1>7. SlotsAccounted' /\ TriggersWithinLimit' /\ RowsAccounted'
  BY <1>1, <1>4, SameCounts, Accounts, AccountsNext DEF AccountsForm, Idle
<1> QED BY <1>5, <1>6, <1>7
\* The ticker goes on to the next routine without a place of its own.
LEMMA CronNextType ==
    ASSUME CronType, CronNext(cron.todo)
    PROVE  CronType' /\ cron'.pc \in {Idle, "load"}
BY IdleTypes DEF CronType, CronNext

\* The ticker's load, exchange, count, spawn and rollback.
LEMMA CronInv == ASSUME IInv, CronStep PROVE IInv'
<1> USE DEF IInv
<1>1. /\ UNCHANGED <<exists, enabled, next_fire_at, hot, rows, stuck, event_cache,
                     events, manual, edit, leaked>>
  BY DEF CronStep, dbVars
<1>2. Types  BY TypeParts
<1>3. DbType' /\ EventsType' /\ ManualType' /\ EditType'
  BY <1>1, <1>2 DEF Types, DbType, EventsType, ManualType, EditType
<1>4. leaked["trigger"] \in Nat /\ leaked["manual"] \in Nat
  BY <1>2 DEF Types, BoundsType, Kinds
<1> USE DEF AccountsForm
<1>5. CASE CronLoads
  <2>1. /\ UNCHANGED <<running_count, fire, requests, faults>>
        /\ cron.pc \in {"load", "cas"}
    BY <1>5 DEF CronLoads, boundVars
  <2>2. /\ CronType'
        /\ \/ cron'.pc = Idle
           \/ cron'.pc = "cas" /\ cron'.seen < MaxRoutines
    <3>1. CASE AtCapacity(running_count)
      BY <1>5, <3>1, IdleTypes DEF CronLoads, CronType
    <3>2. CASE ~AtCapacity(running_count)
      <4>1. PICK r \in (IF cron.pc = "cas" THEN {cron.routine} ELSE cron.todo) :
              cron' = [cron EXCEPT !.pc = "cas", !.routine = r, !.seen = running_count,
                                   !.todo = cron.todo \ {r}]
        BY <1>5, <3>2 DEF CronLoads
      <4>2. r \in Routines  BY <1>2, <4>1 DEF Types, CronType, Routines
      <4>3. running_count \in Nat /\ running_count < MaxRoutines
        BY <1>2, <3>2, RoutineAssumption DEF Types, AtCapacity
      <4> QED BY <1>2, <4>1, <4>2, <4>3 DEF Types, CronType
    <3> QED BY <3>1, <3>2
  <2>3. TypeOK'  BY <1>1, <1>2, <1>3, <2>1, <2>2, TypePartsNext DEF Types, BoundsType
  <2>4. Reserving'  BY <1>1, <2>2 DEF Reserving, Idle
  <2>5. SlotsAccounted' /\ TriggersWithinLimit' /\ RowsAccounted'
    BY <1>1, <2>1, <2>2, SameCounts, Accounts, AccountsNext DEF Idle
  <2> QED BY <2>3, <2>4, <2>5
<1>6. CASE CronReserves
  <2>1. /\ UNCHANGED <<fire, requests, faults>>
        /\ cron.pc = "cas" /\ running_count = cron.seen /\ running_count' = running_count + 1
    BY <1>6 DEF CronReserves, CompareExchange, boundVars
  <2>2. CronType' /\ cron'.pc \in {"undo", "count"}
    BY <1>2, <1>6 DEF CronReserves, Types, CronType
  <2>3. TypeOK'
    BY <1>1, <1>2, <1>3, <2>1, <2>2, TypePartsNext DEF Types, BoundsType
  <2>4. Reserving'  BY <1>1, <2>2 DEF Reserving
  <2>5. running_count \in Nat /\ running_count < MaxRoutines
    BY <1>2, <2>1 DEF Types, Reserving
  <2>6. SlotsAccounted' /\ TriggersWithinLimit' /\ RowsAccounted'
    BY <1>1, <1>4, <2>1, <2>2, <2>5, SameCounts, Accounts, AccountsNext, RoutineAssumption
  <2> QED BY <2>3, <2>4, <2>6
<1>7. CASE CronCounts
  <2>1. cron.pc = "count" /\ running_count' = running_count  BY <1>7 DEF CronCounts
  <2>2. CASE /\ Spawn(cron.routine, "queued", "trigger")
             /\ CronNext(cron.todo) /\ UNCHANGED boundVars
    <3>1. cron.routine \in Routines  BY <1>2 DEF Types, CronType
    <3>2. /\ fire' \in FireType
          /\ Triggers' = Triggers + 1 /\ Manuals' = Manuals
          /\ \A q \in Routines : Runs(q)' = Runs(q)
      BY <1>2, <2>2, <3>1, SpawnCounts DEF Types, Kinds
    <3>3. CronType' /\ cron'.pc \in {Idle, "load"}  BY <1>2, <2>2, CronNextType DEF Types
    <3>4. TypeOK'
      BY <1>1, <1>2, <1>3, <2>1, <2>2, <3>2, <3>3, TypePartsNext
         DEF Types, BoundsType, boundVars
    <3>5. Reserving'  BY <1>1, <3>3 DEF Reserving, Idle
    <3>6. SlotsAccounted' /\ TriggersWithinLimit' /\ RowsAccounted'
      BY <1>1, <1>4, <2>1, <3>2, <3>3, Accounts, AccountsNext DEF Idle
    <3> QED BY <3>4, <3>5, <3>6
  <2>3. CASE /\ Fault \/ UNCHANGED boundVars
             /\ cron' = [cron EXCEPT !.pc = "undo"] /\ UNCHANGED fire
    <3>1. CronType' /\ cron'.pc = "undo"  BY <1>2, <2>3 DEF Types, CronType
    <3>2. BoundsType'  BY <1>1, <1>2, <2>3, BoundsStep DEF Types
    <3>3. TypeOK'
      BY <1>2, <1>3, <2>1, <2>3, <3>1, <3>2, TypePartsNext DEF Types
    <3>4. Reserving'  BY <1>1, <3>1 DEF Reserving
    <3>5. SlotsAccounted' /\ TriggersWithinLimit' /\ RowsAccounted'
      BY <1>1, <2>1, <2>3, <3>1, SameCounts, Accounts, AccountsNext
    <3> QED BY <3>3, <3>4, <3>5
  <2> QED BY <1>7, <2>2, <2>3 DEF CronCounts
<1>8. CASE CronRollsBack
  <2>1. /\ UNCHANGED <<fire, requests, faults>>
        /\ cron.pc = "undo" /\ running_count' = running_count - 1
    BY <1>8 DEF CronRollsBack, boundVars
  <2>2. CronType' /\ cron'.pc \in {Idle, "load"}
    BY <1>2, <1>8, CronNextType DEF CronRollsBack, Types
  <2>3. SlotsAccounted' /\ TriggersWithinLimit' /\ RowsAccounted'
    <3>1. RowsAccounted'  BY <1>1, <2>1, SameCounts, Accounts, AccountsNext
    <3>2. SlotsAccounted'
      BY <1>1, <1>4, <2>1, <2>2, SameCounts, Accounts, AccountsNext DEF Idle
    <3>3. TriggersWithinLimit'
      BY <1>1, <1>4, <2>1, <2>2, SameCounts, Accounts, AccountsNext, RoutineAssumption
         DEF Idle
    <3> QED BY <3>1, <3>2, <3>3
  <2>4. running_count' \in Nat
    <3>1. running_count = Triggers + 1 + (Manuals + (IF manual.pc = "create" THEN 1 ELSE 0))
                           + leaked["trigger"] + leaked["manual"]
      BY <2>1, Accounts
    <3>2. Triggers \in Nat /\ Manuals \in Nat  BY Accounts
    <3> QED BY <1>4, <2>1, <3>1, <3>2
  <2>5. TypeOK'
    BY <1>1, <1>2, <1>3, <2>1, <2>2, <2>4, TypePartsNext DEF Types, BoundsType
  <2>6. Reserving'  BY <1>1, <2>2 DEF Reserving, Idle
  <2> QED BY <2>3, <2>5, <2>6
<1> QED BY <1>5, <1>6, <1>7, <1>8 DEF CronStep
\* The two event triggers, each on its own.
LEMMA EventInv == ASSUME IInv, NEW w \in Watchers, EventStep(w) PROVE IInv'
<1> USE DEF IInv
<1>1. /\ UNCHANGED <<exists, enabled, next_fire_at, hot, rows, stuck, event_cache,
                     cron, manual, edit, leaked>>
  BY DEF EventStep, dbVars
<1>2. Types  BY TypeParts
<1>3. DbType' /\ CronType' /\ ManualType' /\ EditType'
  BY <1>1, <1>2 DEF Types, DbType, CronType, ManualType, EditType
<1>4. leaked["trigger"] \in Nat /\ leaked["manual"] \in Nat
  BY <1>2 DEF Types, BoundsType, Kinds
<1> USE DEF AccountsForm
<1>5. CASE EventMatches(w) \/ EventCounts(w) \/ EventLoads(w)
  <2>1. /\ UNCHANGED <<running_count, fire>>
        /\ Request \/ Fault \/ UNCHANGED boundVars
    BY <1>5 DEF EventMatches, EventCounts, EventLoads
  <2>2. PICK e \in [pc : {Idle, "count", "load", "cas"}, routine : Routines, seen : Nat] :
          /\ events' = [events EXCEPT ![w] = e]
          /\ e.pc = "cas" => e.seen < MaxRoutines
    <3>1. CASE EventMatches(w)
      <4>1. PICK r \in EventRoutines :
              events' = [events EXCEPT ![w] = [IdleEvent EXCEPT !.pc = "count", !.routine = r]]
        BY <3>1 DEF EventMatches
      <4> DEFINE e == [IdleEvent EXCEPT !.pc = "count", !.routine = r]
      <4>2. e \in [pc : {"count"}, routine : Routines, seen : Nat]
        BY IdleTypes DEF Routines
      <4>3. e.pc # "cas"  BY <4>2
      <4> QED BY <4>1, <4>2, <4>3
    <3>2. CASE EventCounts(w)
      <4>1. CASE events' = [events EXCEPT ![w].pc = "load"]
        <5> DEFINE e == [events[w] EXCEPT !.pc = "load"]
        <5>1. e \in [pc : {"load"}, routine : Routines, seen : Nat]
          BY <1>2 DEF Types, EventsType
        <5>2. e.pc # "cas"  BY <5>1
        <5>3. events' = [events EXCEPT ![w] = e]  BY <1>2, <4>1 DEF Types, EventsType
        <5> QED BY <5>1, <5>2, <5>3
      <4>2. CASE events' = [events EXCEPT ![w] = IdleEvent]
        <5>1. IdleEvent \in [pc : {Idle}, routine : Routines, seen : Nat]
          BY IdleTypes
        <5>2. IdleEvent.pc # "cas"  BY <5>1 DEF Idle
        <5> QED BY <4>2, <5>1, <5>2
      <4> QED BY <3>2, <4>1, <4>2 DEF EventCounts
    <3>3. CASE EventLoads(w)
      <4>1. CASE AtCapacity(running_count)
        <5>1. IdleEvent \in [pc : {Idle}, routine : Routines, seen : Nat]
          BY IdleTypes
        <5>2. IdleEvent.pc # "cas"  BY <5>1 DEF Idle
        <5> QED BY <3>3, <4>1, <5>1, <5>2 DEF EventLoads
      <4>2. CASE ~AtCapacity(running_count)
        <5> DEFINE e == [events[w] EXCEPT !.pc = "cas", !.seen = running_count]
        <5>1. running_count \in Nat /\ running_count < MaxRoutines
          BY <1>2, <4>2, RoutineAssumption DEF Types, AtCapacity
        <5>2. e \in [pc : {"cas"}, routine : Routines, seen : Nat] /\ e.seen = running_count
          BY <1>2, <5>1 DEF Types, EventsType
        <5>3. events' = [events EXCEPT ![w] = e]
          BY <1>2, <3>3, <4>2 DEF EventLoads, Types, EventsType
        <5> QED BY <5>1, <5>2, <5>3
      <4> QED BY <4>1, <4>2
    <3> QED BY <1>5, <3>1, <3>2, <3>3
  <2>3. EventsType'  BY <1>2, <2>2 DEF Types, EventsType
  <2>4. BoundsType'  BY <1>1, <1>2, <2>1, BoundsStep DEF Types
  <2>5. TypeOK'  BY <1>2, <1>3, <2>1, <2>3, <2>4, TypePartsNext DEF Types
  <2>6. Reserving'  BY <1>1, <1>2, <2>2 DEF Reserving, Types, EventsType
  <2>7. SlotsAccounted' /\ TriggersWithinLimit' /\ RowsAccounted'
    BY <1>1, <2>1, SameCounts, Accounts, AccountsNext
  <2> QED BY <2>5, <2>6, <2>7
<1>6. CASE EventReserves(w)
  <2>1. /\ UNCHANGED <<requests, faults>>
        /\ events[w].pc = "cas" /\ running_count = events[w].seen
        /\ running_count' = running_count + 1
        /\ Spawn(events[w].routine, "queued", "trigger")
        /\ events' = [events EXCEPT ![w] = IdleEvent]
    BY <1>6 DEF EventReserves, CompareExchange, boundVars
  <2>2. events[w].routine \in Routines  BY <1>2 DEF Types, EventsType
  <2>3. /\ fire' \in FireType
        /\ Triggers' = Triggers + 1 /\ Manuals' = Manuals
        /\ \A q \in Routines : Runs(q)' = Runs(q)
    BY <1>2, <2>1, <2>2, SpawnCounts DEF Types, Kinds
  <2>4. IdleEvent \in [pc : {Idle}, routine : Routines, seen : Nat]  BY IdleTypes
  <2>5. EventsType' /\ events'[w].pc = Idle
    BY <1>2, <2>1, <2>4 DEF Types, EventsType
  <2>6. TypeOK'
    BY <1>1, <1>2, <1>3, <2>1, <2>3, <2>5, TypePartsNext DEF Types, BoundsType
  <2>7. Reserving'  BY <1>1, <1>2, <2>1, <2>5 DEF Reserving, Idle, Types, EventsType
  <2>8. running_count \in Nat /\ running_count < MaxRoutines
    BY <1>2, <2>1 DEF Types, Reserving
  <2>9. SlotsAccounted' /\ TriggersWithinLimit' /\ RowsAccounted'
    BY <1>1, <1>4, <2>1, <2>3, <2>8, Accounts, AccountsNext, RoutineAssumption
  <2> QED BY <2>6, <2>7, <2>9
<1> QED BY <1>5, <1>6 DEF EventStep

\* fire_manual, which looks at its routine's rows and not at the limit.
LEMMA ManualInv == ASSUME IInv, ManualStep PROVE IInv'
<1> USE DEF IInv
<1>1. /\ UNCHANGED <<exists, enabled, next_fire_at, hot, stuck, event_cache,
                     cron, events, edit, leaked>>
  BY DEF ManualStep
<1>2. Types  BY TypeParts
<1>3. CronType' /\ EventsType' /\ EditType'
  BY <1>1, <1>2 DEF Types, CronType, EventsType, EditType
<1>4. leaked["trigger"] \in Nat /\ leaked["manual"] \in Nat
  BY <1>2 DEF Types, BoundsType, Kinds
<1>5. Reserving'  BY <1>1 DEF Reserving
<1>6. Request \/ Fault \/ UNCHANGED boundVars
  BY DEF ManualStep, ManualLoads, ManualCounts, ManualAdds, ManualCreates
<1>7. BoundsType'  BY <1>1, <1>2, <1>6, BoundsStep DEF Types
<1> USE DEF AccountsForm
<1>8. CASE ManualLoads \/ ManualCounts
  <2>1. UNCHANGED <<running_count, fire, rows>> /\ manual.pc \in {Idle, "count"}
    BY <1>8 DEF ManualLoads, ManualCounts
  <2>2. ManualType' /\ manual'.pc \in {Idle, "count", "add"}
    BY <1>2, <1>8, IdleTypes DEF ManualLoads, ManualCounts, Types, ManualType
  <2>3. DbType'  BY <1>1, <1>2, <2>1 DEF Types, DbType
  <2>4. TypeOK'  BY <1>2, <1>3, <1>7, <2>1, <2>2, <2>3, TypePartsNext DEF Types
  <2>5. SlotsAccounted' /\ TriggersWithinLimit' /\ RowsAccounted'
    BY <1>1, <2>1, <2>2, SameCounts, Accounts, AccountsNext DEF Idle
  <2> QED BY <1>5, <2>4, <2>5
<1>9. CASE ManualAdds
  <2>1. /\ UNCHANGED <<fire, rows>> /\ manual.pc = "add"
        /\ running_count' = running_count + 1
    BY <1>9 DEF ManualAdds
  <2>2. ManualType' /\ manual'.pc = "create"
    BY <1>2, <1>9 DEF ManualAdds, Types, ManualType
  <2>3. DbType'  BY <1>1, <1>2, <2>1 DEF Types, DbType
  <2>4. TypeOK'  BY <1>2, <1>3, <1>7, <2>1, <2>2, <2>3, TypePartsNext DEF Types
  <2>5. SlotsAccounted' /\ TriggersWithinLimit' /\ RowsAccounted'
    BY <1>1, <1>4, <2>1, <2>2, SameCounts, Accounts, AccountsNext
  <2> QED BY <1>5, <2>4, <2>5
<1>10. CASE ManualCreates
  <2> DEFINE r == manual.routine
  <2>1. r \in Routines /\ manual.pc = "create"
    BY <1>2, <1>10 DEF ManualCreates, Types, ManualType
  <2>2. ManualType' /\ manual'.pc = Idle
    BY <1>10, IdleTypes DEF ManualCreates, ManualType
  <2>3. CASE /\ exists[r] /\ rows' = [rows EXCEPT ![r] = @ + 1]
             /\ Spawn(r, "run", "manual") /\ UNCHANGED running_count
    <3>1. /\ fire' \in FireType
          /\ Triggers' = Triggers /\ Manuals' = Manuals + 1
          /\ \A q \in Routines : Runs(q)' = IF q = r THEN Runs(q) + 1 ELSE Runs(q)
      BY <1>2, <2>1, <2>3, SpawnCounts DEF Types, Kinds
    <3> HIDE DEF r
    <3>2. DbType'  BY <1>1, <1>2, <2>1, <2>3 DEF Types, DbType
    <3>3. TypeOK'  BY <1>2, <1>3, <1>7, <2>2, <2>3, <3>1, <3>2, TypePartsNext DEF Types
    <3>4. RowsAccounted'
      BY <1>1, <1>2, <2>1, <2>3, <3>1, Accounts, AccountsNext DEF Types, DbType
    <3>5. SlotsAccounted' /\ TriggersWithinLimit'
      BY <1>1, <1>4, <2>1, <2>2, <2>3, <3>1, Accounts, AccountsNext DEF Idle
    <3> QED BY <1>5, <3>3, <3>4, <3>5
  <2>4. CASE running_count' = running_count - 1 /\ UNCHANGED <<fire, rows>>
    <3>1. DbType'  BY <1>1, <1>2, <2>4 DEF Types, DbType
    <3>2. running_count' \in Nat
      <4>1. running_count = Triggers + (IF cron.pc \in {"count", "undo"} THEN 1 ELSE 0)
                             + (Manuals + 1) + leaked["trigger"] + leaked["manual"]
        BY <2>1, Accounts
      <4>2. Triggers \in Nat /\ Manuals \in Nat  BY Accounts
      <4> QED BY <1>4, <2>4, <4>1, <4>2
    <3>3. TypeOK'  BY <1>2, <1>3, <1>7, <2>2, <2>4, <3>1, <3>2, TypePartsNext DEF Types
    <3>4. SlotsAccounted' /\ TriggersWithinLimit' /\ RowsAccounted'
      BY <1>1, <1>4, <2>1, <2>2, <2>4, SameCounts, Accounts, AccountsNext DEF Idle
    <3> QED BY <1>5, <3>3, <3>4
  <2> QED BY <1>10, <2>3, <2>4 DEF ManualCreates
<1> QED BY <1>8, <1>9, <1>10 DEF ManualStep

\* A manual fire dropped while it awaits its row: the place and the row become
\* ones that nobody gives back.
LEMMA DroppedInv == ASSUME IInv, ManualDropped PROVE IInv'
<1> USE DEF IInv
<1> DEFINE r == manual.routine
<1>1. /\ manual.pc = "create" /\ manual' = IdleManual /\ Fault
      /\ leaked' = [leaked EXCEPT !["manual"] = @ + 1]
      /\ \/ /\ rows' = [rows EXCEPT ![r] = @ + 1]
            /\ stuck' = [stuck EXCEPT ![r] = @ + 1]
         \/ UNCHANGED <<rows, stuck>>
      /\ UNCHANGED <<running_count, exists, enabled, next_fire_at, hot, event_cache,
                     fire, cron, events, edit>>
  BY DEF ManualDropped
<1>2. Types  BY TypeParts
<1>3. r \in Routines  BY <1>2 DEF Types, ManualType
<1> HIDE DEF r
<1>4. CronType' /\ EventsType' /\ EditType'
  BY <1>1, <1>2 DEF Types, CronType, EventsType, EditType
<1>5. ManualType' /\ manual'.pc = Idle  BY <1>1, IdleTypes DEF ManualType
<1>6. DbType'  BY <1>1, <1>2, <1>3 DEF Types, DbType
<1>7. BoundsType'  BY <1>1, <1>2, RoutineAssumption DEF Types, BoundsType, Fault, Kinds
<1>8. TypeOK'  BY <1>1, <1>2, <1>4, <1>5, <1>6, <1>7, TypePartsNext DEF Types
<1>9. Reserving'  BY <1>1 DEF Reserving
<1>10. /\ leaked["trigger"] \in Nat /\ leaked["manual"] \in Nat
       /\ leaked'["trigger"] = leaked["trigger"]
       /\ leaked'["manual"] = leaked["manual"] + 1
  BY <1>1, <1>2 DEF Types, BoundsType, Kinds
<1>11. SlotsAccounted' /\ TriggersWithinLimit'
  BY <1>1, <1>5, <1>10, SameCounts, Accounts, AccountsNext DEF AccountsForm, Idle
<1>12. RowsAccounted'
  <2>1. ASSUME NEW q \in Routines, exists[q] PROVE rows'[q] = Runs(q)' + stuck'[q]
    <3>1. rows[q] = Runs(q) + stuck[q] /\ Runs(q) \in Nat /\ stuck[q] \in Nat
      BY <1>2, <2>1, Accounts DEF AccountsForm, Types, DbType
    <3>2. Runs(q)' = Runs(q)  BY <1>1, SameCounts
    <3> QED BY <1>1, <1>2, <1>3, <3>1, <3>2 DEF Types, DbType
  <2> QED BY <1>1, <2>1, AccountsNext DEF AccountsForm
<1> QED BY <1>8, <1>9, <1>11, <1>12

\* The task of a run gives back its row and its place, each exactly once.
LEMMA FireInv == ASSUME IInv, NEW f \in Fires, FireStep(f) \/ ActionPanics(f) PROVE IInv'
<1> USE DEF IInv
<1> DEFINE r == fire[f].routine
<1>1. UNCHANGED <<exists, enabled, event_cache, cron, events, manual, edit>>
  BY DEF FireStep, ActionPanics, callerVars
<1>2. Types  BY TypeParts
<1>3. CronType' /\ EventsType' /\ ManualType' /\ EditType'
  BY <1>1, <1>2 DEF Types, CronType, EventsType, ManualType, EditType
<1>4. /\ leaked["trigger"] \in Nat /\ leaked["manual"] \in Nat
      /\ r \in Routines /\ fire[f].kind \in Kinds /\ fire \in FireType
  BY <1>2 DEF Types, BoundsType, Kinds, FireType
<1>5. Reserving'  BY <1>1 DEF Reserving
<1>6. /\ exists[r] => rows[r] = Runs(r) + stuck[r]
      /\ rows[r] \in Nat /\ stuck[r] \in Nat /\ Runs(r) \in Nat /\ running_count \in Nat
      /\ Triggers \in Nat /\ Manuals \in Nat
  BY <1>2, <1>4, Accounts DEF AccountsForm, Types, DbType
<1>7. fire[f].pc = "run" => Runs(r) > 0
  <2>1. fire[f].pc = "run" => f \in Executing(r)  BY DEF Executing
  <2>2. Executing(r) # {} => Runs(r) # 0
    BY <1>4, CountTypes, FS_EmptySet DEF Runs
  <2> QED BY <1>6, <2>1, <2>2
<1>8. fire[f].pc # Idle => running_count > 0
  <2>1. fire[f].pc # Idle => f \in InFlight(fire[f].kind)  BY DEF InFlight
  <2>2. InFlight(fire[f].kind) # {} => Cardinality(InFlight(fire[f].kind)) # 0
    BY <1>4, CountTypes, FS_EmptySet
  <2>3. fire[f].pc # Idle => Triggers > 0 \/ Manuals > 0
    BY <1>4, <1>6, <2>1, <2>2 DEF Triggers, Manuals, Kinds
  <2> QED BY <1>4, <1>6, <2>3, Accounts DEF AccountsForm
<1> HIDE DEF r
<1>9. CASE /\ FireStep(f) /\ fire[f].pc = "queued"
           /\ exists[r] /\ rows' = [rows EXCEPT ![r] = @ + 1]
           /\ fire' = [fire EXCEPT ![f].pc = "run"]
           /\ UNCHANGED <<running_count, boundVars, hot, next_fire_at, stuck, leaked>>
  <2>1. /\ fire' \in FireType /\ Triggers' = Triggers /\ Manuals' = Manuals
        /\ \A q \in Routines : Runs(q)' = IF q = r THEN Runs(q) + 1 ELSE Runs(q)
    BY <1>4, <1>9, MoveCounts DEF Idle, r
  <2>2. DbType'  BY <1>1, <1>2, <1>4, <1>9 DEF Types, DbType
  <2>3. TypeOK'
    BY <1>2, <1>3, <1>9, <2>1, <2>2, TypePartsNext DEF Types, BoundsType, boundVars
  <2>4. RowsAccounted'
    BY <1>1, <1>2, <1>4, <1>9, <2>1, Accounts, AccountsNext DEF AccountsForm, Types, DbType
  <2>5. SlotsAccounted' /\ TriggersWithinLimit'
    BY <1>1, <1>9, <2>1, Accounts, AccountsNext DEF AccountsForm
  <2> QED BY <1>5, <2>3, <2>4, <2>5
<1>10. CASE /\ FireStep(f) /\ fire[f].pc \in {"queued", "report"}
            /\ Fault \/ UNCHANGED boundVars
            /\ running_count' = running_count - 1
            /\ fire' = [fire EXCEPT ![f] = NoFire(AnyRoutine)]
            /\ UNCHANGED <<hot, next_fire_at, rows, stuck, leaked>>
  <2>1. /\ fire' \in FireType
        /\ Triggers' = IF fire[f].kind = "trigger" THEN Triggers - 1 ELSE Triggers
        /\ Manuals' = IF fire[f].kind = "manual" THEN Manuals - 1 ELSE Manuals
        /\ \A q \in Routines : Runs(q)' = Runs(q)
    BY <1>4, <1>10, EndCounts DEF Idle
  <2>2. DbType'  BY <1>1, <1>2, <1>10 DEF Types, DbType
  <2>3. BoundsType'  BY <1>2, <1>10, BoundsStep DEF Types
  <2>4. running_count' \in Nat  BY <1>6, <1>8, <1>10 DEF Idle
  <2>5. TypeOK'  BY <1>3, <2>1, <2>2, <2>3, <2>4, TypePartsNext DEF Types
  <2>6. RowsAccounted'  BY <1>1, <1>10, <2>1, Accounts, AccountsNext DEF AccountsForm
  <2>7. SlotsAccounted'
    BY <1>1, <1>4, <1>6, <1>10, <2>1, Accounts, AccountsNext DEF AccountsForm, Kinds
  <2>8. TriggersWithinLimit'
    BY <1>1, <1>4, <1>6, <1>10, <2>1, Accounts, AccountsNext, RoutineAssumption
       DEF AccountsForm, Kinds
  <2> QED BY <1>5, <2>5, <2>6, <2>7, <2>8
<1>11. CASE FireStep(f) /\ CompleteRunRecord(f)
  <2>1. /\ fire[f].pc = "run" /\ fire' = [fire EXCEPT ![f].pc = "update"]
        /\ UNCHANGED <<running_count, hot, next_fire_at, leaked>>
        /\ Fault \/ UNCHANGED boundVars
    BY <1>11 DEF CompleteRunRecord
  <2>2. /\ fire' \in FireType /\ Triggers' = Triggers /\ Manuals' = Manuals
        /\ \A q \in Routines : Runs(q)' = IF q = r THEN Runs(q) - 1 ELSE Runs(q)
    BY <1>4, <2>1, MoveCounts DEF Idle, r
  <2>3. \/ exists[r] /\ rows' = [rows EXCEPT ![r] = @ - 1] /\ stuck' = stuck
        \/ exists[r] /\ stuck' = [stuck EXCEPT ![r] = @ + 1] /\ rows' = rows
        \/ ~exists[r] /\ rows' = rows /\ stuck' = stuck
    BY <1>11 DEF CompleteRunRecord, r
  <2>4. rows' \in [Routines -> Nat] /\ stuck' \in [Routines -> Nat]
    BY <1>2, <1>4, <1>6, <1>7, <2>1, <2>3 DEF Types, DbType
  <2>5. DbType'  BY <1>1, <1>2, <2>1, <2>4 DEF Types, DbType
  <2>6. BoundsType'  BY <1>2, <2>1, BoundsStep DEF Types
  <2>7. TypeOK'  BY <1>2, <1>3, <2>1, <2>2, <2>5, <2>6, TypePartsNext DEF Types
  <2>8. RowsAccounted'
    <3>1. ASSUME NEW q \in Routines, exists[q] PROVE rows'[q] = Runs(q)' + stuck'[q]
      <4>1. rows[q] = Runs(q) + stuck[q] /\ Runs(q) \in Nat /\ stuck[q] \in Nat
        BY <1>2, <3>1, Accounts DEF AccountsForm, Types, DbType
      <4> QED BY <1>2, <1>4, <1>7, <2>1, <2>2, <2>3, <3>1, <4>1 DEF Types, DbType
    <3> QED BY <1>1, <3>1, AccountsNext DEF AccountsForm
  <2>9. SlotsAccounted' /\ TriggersWithinLimit'
    BY <1>1, <2>1, <2>2, Accounts, AccountsNext DEF AccountsForm
  <2> QED BY <1>5, <2>7, <2>8, <2>9
<1>12. CASE FireStep(f) /\ UpdateRuntimeState(f)
  <2>1. /\ fire[f].pc = "update" /\ fire' = [fire EXCEPT ![f].pc = "report"]
        /\ UNCHANGED <<running_count, rows, stuck, leaked>>
        /\ Fault \/ UNCHANGED boundVars
    BY <1>12 DEF UpdateRuntimeState
  <2>2. /\ fire' \in FireType /\ Triggers' = Triggers /\ Manuals' = Manuals
        /\ \A q \in Routines : Runs(q)' = Runs(q)
    BY <1>4, <2>1, MoveCounts DEF Idle, r
  <2>3. /\ hot' \in [Routines -> BOOLEAN]
        /\ next_fire_at' \in [Routines -> {"none", "due", "later"}]
    BY <1>2, <1>4, <1>12 DEF UpdateRuntimeState, Types, DbType, r
  <2>4. DbType'  BY <1>1, <1>2, <2>1, <2>3 DEF Types, DbType
  <2>5. BoundsType'  BY <1>2, <2>1, BoundsStep DEF Types
  <2>6. TypeOK'  BY <1>2, <1>3, <2>1, <2>2, <2>4, <2>5, TypePartsNext DEF Types
  <2>7. SlotsAccounted' /\ TriggersWithinLimit' /\ RowsAccounted'
    BY <1>1, <2>1, <2>2, Accounts, AccountsNext DEF AccountsForm
  <2> QED BY <1>5, <2>6, <2>7
<1>13. CASE ActionPanics(f)
  <2>1. /\ fire[f].pc = "run" /\ Fault
        /\ fire' = [fire EXCEPT ![f] = NoFire(AnyRoutine)]
        /\ leaked' = [leaked EXCEPT ![fire[f].kind] = @ + 1]
        /\ stuck' = IF exists[r] THEN [stuck EXCEPT ![r] = @ + 1] ELSE stuck
        /\ UNCHANGED <<running_count, next_fire_at, hot, rows>>
    BY <1>13 DEF ActionPanics, r
  <2>2. /\ fire' \in FireType
        /\ Triggers' = IF fire[f].kind = "trigger" THEN Triggers - 1 ELSE Triggers
        /\ Manuals' = IF fire[f].kind = "manual" THEN Manuals - 1 ELSE Manuals
        /\ \A q \in Routines : Runs(q)' = IF q = r THEN Runs(q) - 1 ELSE Runs(q)
    BY <1>4, <2>1, EndCounts DEF Idle, r
  <2>3. DbType'  BY <1>1, <1>2, <1>4, <2>1 DEF Types, DbType
  <2>4. BoundsType'
    BY <1>2, <1>4, <2>1, RoutineAssumption DEF Types, BoundsType, Fault
  <2>5. TypeOK'  BY <1>2, <1>3, <2>1, <2>2, <2>3, <2>4, TypePartsNext DEF Types
  <2>6. RowsAccounted'
    <3>1. ASSUME NEW q \in Routines, exists[q] PROVE rows'[q] = Runs(q)' + stuck'[q]
      <4>1. rows[q] = Runs(q) + stuck[q] /\ Runs(q) \in Nat /\ stuck[q] \in Nat
        BY <1>2, <3>1, Accounts DEF AccountsForm, Types, DbType
      <4> QED BY <1>2, <1>4, <2>1, <2>2, <3>1, <4>1 DEF Types, DbType
    <3> QED BY <1>1, <3>1, AccountsNext DEF AccountsForm
  <2>7. /\ leaked'["trigger"] = IF fire[f].kind = "trigger" THEN leaked["trigger"] + 1
                                ELSE leaked["trigger"]
        /\ leaked'["manual"] = IF fire[f].kind = "manual" THEN leaked["manual"] + 1
                               ELSE leaked["manual"]
    BY <1>2, <2>1 DEF Types, BoundsType, Kinds
  <2>8. SlotsAccounted'
    BY <1>1, <1>4, <1>6, <2>1, <2>2, <2>7, Accounts, AccountsNext DEF AccountsForm, Kinds
  <2>9. TriggersWithinLimit'
    BY <1>1, <1>4, <1>6, <2>1, <2>2, <2>7, Accounts, AccountsNext DEF AccountsForm, Kinds
  <2> QED BY <1>5, <2>5, <2>6, <2>8, <2>9
<1>14. FireStep(f) /\ FireCreates(f) =>
         \/ /\ fire[f].pc = "queued"
            /\ exists[r] /\ rows' = [rows EXCEPT ![r] = @ + 1]
            /\ fire' = [fire EXCEPT ![f].pc = "run"]
            /\ UNCHANGED <<running_count, boundVars, hot, next_fire_at, stuck, leaked>>
         \/ /\ fire[f].pc \in {"queued", "report"}
            /\ Fault \/ UNCHANGED boundVars
            /\ running_count' = running_count - 1
            /\ fire' = [fire EXCEPT ![f] = NoFire(AnyRoutine)]
            /\ UNCHANGED <<hot, next_fire_at, rows, stuck, leaked>>
  BY DEF FireCreates, r
<1>15. ReleaseSlot(f) =>
         /\ fire[f].pc \in {"queued", "report"}
         /\ UNCHANGED boundVars
         /\ running_count' = running_count - 1
         /\ fire' = [fire EXCEPT ![f] = NoFire(AnyRoutine)]
         /\ UNCHANGED <<hot, next_fire_at, rows, stuck, leaked>>
  BY DEF ReleaseSlot
<1> QED BY <1>9, <1>10, <1>11, <1>12, <1>13, <1>14, <1>15 DEF FireStep
\* Edits, deletions and refreshes of the cache.
LEMMA EditInv == ASSUME IInv, EditStep PROVE IInv'
<1> USE DEF IInv
<1>1. UNCHANGED <<running_count, fire, cron, events, manual, leaked>>
  BY DEF EditStep
<1>2. Types  BY TypeParts
<1>3. CronType' /\ EventsType' /\ ManualType' /\ running_count' \in Nat /\ fire' \in FireType
  BY <1>1, <1>2 DEF Types, CronType, EventsType, ManualType
<1>4. Reserving'  BY <1>1 DEF Reserving
<1>5. Request \/ Fault \/ UNCHANGED boundVars
  BY DEF EditStep, EditLoads, EditWrites, EditFails, Delete, RefreshEventCache
<1>6. BoundsType'  BY <1>1, <1>2, <1>5, BoundsStep DEF Types
<1>7. SlotsAccounted' /\ TriggersWithinLimit'
  BY <1>1, SameCounts, Accounts, AccountsNext DEF AccountsForm
<1>8. EditType'
  <2>1. CASE EditLoads
    <3>1. PICK r \in Routines :
            edit' = [pc |-> "loaded", routine |-> r, next_fire_at |-> next_fire_at[r]]
      BY <2>1 DEF EditLoads
    <3>2. next_fire_at[r] \in {"none", "due", "later"}  BY <1>2 DEF Types, DbType
    <3> QED BY <3>1, <3>2 DEF EditType
  <2>2. CASE EditWrites
    BY <1>2, <2>2, IdleTypes DEF EditWrites, Types, EditType
  <2>3. CASE EditFails \/ RefreshEventCache
    BY <2>3, IdleTypes DEF EditFails, RefreshEventCache, EditType
  <2>4. CASE Delete
    BY <2>4, IdleTypes DEF Delete, EditType
  <2> QED BY <2>1, <2>2, <2>3, <2>4 DEF EditStep
<1>9. DbType' /\ RowsAccounted'
  <2>1. CASE EditLoads \/ EditFails
    <3>1. UNCHANGED <<exists, enabled, next_fire_at, hot, rows, stuck, event_cache>>
      BY <2>1 DEF EditLoads, EditFails, dbVars
    <3>2. DbType'  BY <1>2, <3>1 DEF Types, DbType
    <3> QED BY <1>1, <3>1, <3>2, SameCounts, Accounts, AccountsNext DEF AccountsForm
  <2>2. CASE EditWrites
    <3>1. UNCHANGED <<exists, hot, rows, stuck, event_cache>>  BY <2>2 DEF EditWrites
    <3>2. edit.routine \in Routines /\ edit.next_fire_at \in {"none", "due", "later"}
      BY <1>2 DEF Types, EditType
    <3>3. enabled' \in [Routines -> BOOLEAN]
      BY <1>2, <2>2, <3>2 DEF EditWrites, Types, DbType
    <3>4. next_fire_at' \in [Routines -> {"none", "due", "later"}]
      BY <1>2, <2>2, <3>2 DEF EditWrites, Types, DbType
    <3>5. DbType'  BY <1>2, <3>1, <3>3, <3>4 DEF Types, DbType
    <3> QED BY <1>1, <3>1, <3>5, SameCounts, Accounts, AccountsNext DEF AccountsForm
  <2>3. CASE Delete
    <3>1. PICK r \in Routines :
            /\ exists' = [exists EXCEPT ![r] = FALSE]
            /\ rows' = [rows EXCEPT ![r] = 0] /\ stuck' = [stuck EXCEPT ![r] = 0]
            /\ UNCHANGED <<enabled, next_fire_at, hot, event_cache>>
      BY <2>3 DEF Delete
    <3>2. DbType'  BY <1>2, <3>1 DEF Types, DbType
    <3>3. \A q \in Routines : exists'[q] =>
             exists[q] /\ rows'[q] = rows[q] /\ stuck'[q] = stuck[q]
      BY <1>2, <3>1 DEF Types, DbType
    <3> QED BY <1>1, <3>2, <3>3, SameCounts, Accounts, AccountsNext DEF AccountsForm
  <2>4. CASE RefreshEventCache
    <3>1. UNCHANGED <<exists, enabled, next_fire_at, hot, rows, stuck>>
      BY <2>4 DEF RefreshEventCache, dbVars
    <3>2. event_cache' \in [EventRoutines -> {"absent", "hot", "cold"}]
      BY <1>2, <2>4 DEF RefreshEventCache, CacheOf, Types, DbType
    <3>3. DbType'  BY <1>2, <3>1, <3>2 DEF Types, DbType
    <3> QED BY <1>1, <3>1, <3>3, SameCounts, Accounts, AccountsNext DEF AccountsForm
  <2> QED BY <2>1, <2>2, <2>3, <2>4 DEF EditStep
<1>10. TypeOK'  BY <1>3, <1>6, <1>8, <1>9, TypePartsNext DEF Types
<1> QED BY <1>4, <1>7, <1>9, <1>10

\* Time.
LEMMA TimeInv ==
    ASSUME IInv, NEW r \in Routines, FireTimePasses(r) \/ CooldownPasses(r)
    PROVE  IInv'
<1> USE DEF IInv
<1>1. UNCHANGED <<running_count, exists, enabled, rows, stuck, fire, events, manual, edit,
                  requests, faults, leaked>>
  BY DEF FireTimePasses, CooldownPasses, callerVars, boundVars
<1>2. Types  BY TypeParts
<1>3. CronType' /\ cron'.pc = cron.pc /\ cron'.seen = cron.seen
  BY <1>2 DEF FireTimePasses, CooldownPasses, callerVars, Types, CronType
<1>4. DbType'
  <2>1. CASE FireTimePasses(r)  BY <1>2, <2>1 DEF FireTimePasses, Types, DbType
  <2>2. CASE CooldownPasses(r)
    <3>1. hot' \in [Routines -> BOOLEAN]
      BY <1>2, <2>2 DEF CooldownPasses, Types, DbType
    <3>2. event_cache' \in [EventRoutines -> {"absent", "hot", "cold"}]
      BY <1>2, <2>2 DEF CooldownPasses, Types, DbType
    <3> QED BY <1>1, <1>2, <2>2, <3>1, <3>2 DEF CooldownPasses, Types, DbType
  <2> QED BY <2>1, <2>2
<1>5. TypeOK'
  BY <1>1, <1>2, <1>3, <1>4, TypePartsNext
     DEF Types, EventsType, ManualType, EditType, BoundsType
<1>6. Reserving'  BY <1>1, <1>3 DEF Reserving
<1>7. SlotsAccounted' /\ TriggersWithinLimit' /\ RowsAccounted'
  BY <1>1, <1>3, SameCounts, Accounts, AccountsNext DEF AccountsForm
<1> QED BY <1>5, <1>6, <1>7

\* A crash loses every place and every task, and leaves the rows behind.
LEMMA CrashInv == ASSUME IInv, CrashAndRestart PROVE IInv'
<1> USE DEF IInv
<1>1. Types  BY TypeParts
<1>2. /\ running_count' = 0 /\ stuck' = rows /\ UNCHANGED <<exists, enabled, next_fire_at, hot, rows>>
      /\ cron' = IdleCron /\ events' = [w \in Watchers |-> IdleEvent]
      /\ manual' = IdleManual /\ edit' = IdleEdit
      /\ fire' = [f \in Fires |-> NoFire(AnyRoutine)]
      /\ leaked' = [k \in Kinds |-> 0]
      /\ event_cache' = [r \in EventRoutines |-> CacheOf(r)]
      /\ Fault
  BY DEF CrashAndRestart
<1>3. DbType'  BY <1>1, <1>2 DEF Types, DbType, CacheOf
<1>4. fire' \in FireType  BY <1>2, AnyRoutineType DEF FireType, FirePC, NoFire, Kinds
<1>5. CronType' /\ EventsType' /\ ManualType' /\ EditType'
  BY <1>2, IdleTypes DEF CronType, EventsType, ManualType, EditType
<1>6. BoundsType'  BY <1>1, <1>2, RoutineAssumption DEF Types, BoundsType, Fault
<1>7. TypeOK'  BY <1>2, <1>3, <1>4, <1>5, <1>6, TypePartsNext DEF Types
<1>8. cron'.pc = Idle /\ manual'.pc = Idle /\ \A w \in Watchers : events'[w].pc = Idle
  BY <1>2 DEF IdleCron, IdleManual, IdleEvent
<1>9. Reserving'  BY <1>8 DEF Reserving, Idle
<1>10. \A f \in Fires : fire'[f].pc = Idle  BY <1>2 DEF NoFire
<1>11. InFlight("trigger")' = {} /\ InFlight("manual")' = {}  BY <1>10 DEF InFlight
<1>12. \A r \in Routines : Executing(r)' = {}  BY <1>10 DEF Executing, Idle
<1>13. Triggers' = 0 /\ Manuals' = 0 /\ \A r \in Routines : Runs(r)' = 0
  BY <1>11, <1>12, FS_EmptySet DEF Triggers, Manuals, Runs
<1>14. leaked'["trigger"] = 0 /\ leaked'["manual"] = 0  BY <1>2 DEF Kinds
<1>15. SlotsAccounted' /\ TriggersWithinLimit'
  BY <1>2, <1>8, <1>13, <1>14, AccountsNext, RoutineAssumption DEF AccountsForm, Idle
<1>16. RowsAccounted'
  BY <1>1, <1>2, <1>13, AccountsNext DEF AccountsForm, Types, DbType
<1> QED BY <1>7, <1>9, <1>15, <1>16

\* Every step preserves the invariant.
LEMMA NextIInv == IInv /\ [Next]_vars => IInv'
<1> SUFFICES ASSUME IInv, [Next]_vars PROVE IInv'
  OBVIOUS
<1>1. CASE Next
  BY <1>1, CronTickInv, CronInv, EventInv, ManualInv, DroppedInv, FireInv, EditInv,
     TimeInv, CrashInv DEF Next
<1>2. CASE UNCHANGED vars
  <2>1. UNCHANGED <<running_count, exists, enabled, next_fire_at, hot, rows, stuck,
                    event_cache, fire, cron, events, manual, edit, requests, faults, leaked>>
    BY <1>2 DEF vars, dbVars, callerVars, boundVars
  <2>2. TypeOK'  BY <2>1 DEF IInv, TypeOK
  <2>3. Reserving'  BY <2>1 DEF IInv, Reserving
  <2>4. SlotsAccounted' /\ TriggersWithinLimit' /\ RowsAccounted'
    BY <2>1, SameCounts, Accounts, AccountsNext DEF IInv, AccountsForm
  <2> QED BY <2>2, <2>3, <2>4 DEF IInv
<1> QED BY <1>1, <1>2

\* The invariant holds in every reachable state.
LEMMA RoutineInvariant == Spec => []IInv
BY InitIInv, NextIInv, PTL DEF Spec

-----------------------------------------------------------------------------
(* Theorems                                                                    *)

\* Every variable keeps its type; in particular no rollback or completion takes
\* running_count or a routine's rows below zero.
THEOREM TypeCorrect == Spec => []TypeOK
<1>1. IInv => TypeOK  BY DEF IInv
<1> QED BY RoutineInvariant, <1>1, PTL

\* running_count is the number of places held and of those lost to a panic or with
\* a dropped manual fire.
THEOREM SlotsExact == Spec => []SlotsAccounted
<1>1. IInv => SlotsAccounted  BY DEF IInv
<1> QED BY RoutineInvariant, <1>1, PTL

\* Cron and event triggers together keep to max_concurrent_routines, although they
\* load, compare and exchange the count without a lock.
THEOREM TriggerLimit == Spec => []TriggersWithinLimit
<1>1. IInv => TriggersWithinLimit  BY DEF IInv
<1> QED BY RoutineInvariant, <1>1, PTL

\* A routine's rows are those of its executing runs and of known failures.
THEOREM RowsExact == Spec => []RowsAccounted
<1>1. IInv => RowsAccounted  BY DEF IInv
<1> QED BY RoutineInvariant, <1>1, PTL

=============================================================================
