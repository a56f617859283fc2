------------------------------ MODULE Sessions ------------------------------
(***************************************************************************)
(* The session manager (src/agent/session_manager.rs) for one user:    *)
(* its three maps, the agent loop that hydrates and resolves a thread for  *)
(* one message after another (src/agent/thread_ops/hydration.rs), the  *)
(* web handlers that create threads, and the task that prunes idle         *)
(* sessions.  The three interleave at every lock they release.  What is    *)
(* done on a resolved thread is the subject of Conversation.               *)
(*                                                                         *)
(* A session is an object behind an Arc: removed from the map, it is left  *)
(* to whoever holds it.  A message comes from a channel without UUIDs      *)
(* (Chat), or from the web gateway with the UUID of a thread as its key:   *)
(* the one channel taken to name UUIDs, so that each has one key.          *)
(* Of a thread the model keeps its identity; of its conversation in the    *)
(* database, that there is one.                                            *)
(***************************************************************************)
EXTENDS Integers, Sequences

CONSTANTS MaxSessions,      \* bound on session objects ever created
          MaxThreads        \* bound on threads ever created

ASSUME BoundsAssumption == MaxSessions \in Nat \ {0} /\ MaxThreads \in Nat \ {0}

VARIABLES current,      \* the user's entry in sessions: an object, or None
          objs,         \* the session objects, in the order of creation
          threadMap,    \* thread_map: keys of the user to threads
          managers,     \* undo_managers: the threads that have one
          rows,         \* the threads with a conversation in the database
          issued,       \* the number of threads created
          pc, key, sid, tid,        \* the agent loop and its message
          prune,        \* prune_stale_sessions between two locks
          overlap       \* history: pruning met a message's resolution

store == <<current, objs, threadMap, managers, rows, issued>>
agent == <<pc, key, sid, tid>>
vars == <<store, agent, prune, overlap>>

None == 0
Tids == 1..MaxThreads
Chat == 0
Keys == {Chat} \cup Tids

NewSession == [threads |-> {}, fresh |-> TRUE]

Resolving == {"hydrate", "load", "insert", "regMap", "regUndo", "regSession",
              "resolve", "lookup", "adopt", "create", "map"}

----------------------------------------------------------------------------
\* get_or_create_session, double-checked under the write lock.
Obtained == IF current # None THEN current ELSE Len(objs) + 1
WithSession == IF current # None THEN objs ELSE Append(objs, NewSession)
GetOrCreateSession == current' = Obtained /\ objs' = WithSession

\* create_thread and the insertion of a hydrated thread make the session
\* active; nothing that happens inside a thread does.
AddThread(os, s, t) ==
    [os EXCEPT ![s] = [threads |-> @.threads \cup {t}, fresh |-> TRUE]]

\* A session that is neither in the map nor held by the agent loop is gone.
Freed(used) ==
    [s \in DOMAIN objs |-> IF s \in used THEN objs[s] ELSE NewSession]

\* thread_map.insert: the key of the message now reaches thread t.
MapTo(t) ==
    [k \in {key} \cup DOMAIN threadMap |-> IF k = key THEN t ELSE threadMap[k]]

Mapped(t) == \E k \in DOMAIN threadMap : threadMap[k] = t

Goto(label) == pc' = label /\ UNCHANGED <<key, sid, tid>>
Done == pc' = "idle" /\ key' = Chat /\ sid' = None /\ tid' = None

Init ==
    /\ current = None /\ objs = <<>> /\ threadMap = <<>>
    /\ managers = {} /\ rows = {} /\ issued = 0
    /\ pc = "idle" /\ key = Chat /\ sid = None /\ tid = None
    /\ prune = [pc |-> "idle", stale |-> {}]
    /\ overlap = FALSE

----------------------------------------------------------------------------
(* maybe_hydrate_thread and register_thread.                                *)

\* The next message of the stream, one at a time.  A gateway message names a
\* thread its user was told of.
Receive(k) ==
    /\ pc = "idle"
    /\ k \in {Chat} \cup 1..issued
    /\ key' = k
    /\ pc' = IF k = Chat THEN "resolve" ELSE "hydrate"
    /\ overlap' = (overlap \/ prune.pc = "retain")
    /\ objs' = Freed({current})
    /\ UNCHANGED <<current, threadMap, managers, rows, issued, sid, tid, prune>>

HydrateFind ==
    /\ pc = "hydrate"
    /\ GetOrCreateSession
    /\ sid' = Obtained
    /\ pc' = IF key \in WithSession[Obtained].threads THEN "resolve" ELSE "load"
    /\ UNCHANGED <<threadMap, managers, rows, issued, key, tid, prune, overlap>>

\* Mutant: a conversation that cannot be loaded is ignored.
HydrateLoad_FailsOpen ==
    /\ pc = "load"
    /\ \/ key \in rows /\ Goto("insert")
       \/ Goto("resolve")
    /\ UNCHANGED <<store, prune, overlap>>

\* There is a store.  A database error, or no row for the user and channel, ends
\* the message; that a row is of another channel is not told from its absence.
HydrateLoad ==
    /\ pc = "load"
    /\ \/ key \in rows /\ Goto("insert")
       \/ Done
    /\ UNCHANGED <<store, prune, overlap>>

\* No one else inserts this UUID, so the re-check under the lock agrees.
HydrateInsert ==
    /\ pc = "insert"
    /\ objs' = AddThread(objs, sid, key)
    /\ Goto("regMap")
    /\ UNCHANGED <<current, threadMap, managers, rows, issued, prune, overlap>>

RegisterMap ==
    /\ pc = "regMap"
    /\ threadMap' = MapTo(key)
    /\ Goto("regUndo")
    /\ UNCHANGED <<current, objs, managers, rows, issued, prune, overlap>>

RegisterUndo ==
    /\ pc = "regUndo"
    /\ managers' = managers \cup {key}
    /\ Goto("regSession")
    /\ UNCHANGED <<current, objs, threadMap, rows, issued, prune, overlap>>

RegisterSession ==
    /\ pc = "regSession"
    /\ current' = IF current = None THEN sid ELSE current
    /\ Goto("resolve")
    /\ UNCHANGED <<objs, threadMap, managers, rows, issued, prune, overlap>>

----------------------------------------------------------------------------
(* resolve_thread.                                                          *)

ResolveSession ==
    /\ pc = "resolve"
    /\ GetOrCreateSession
    /\ sid' = Obtained
    /\ pc' = "lookup"
    /\ UNCHANGED <<threadMap, managers, rows, issued, key, tid, prune, overlap>>

\* The message is now being handled on this session and thread.
Resolved(t) ==
    /\ tid' = t
    /\ pc' = "work"
    /\ UNCHANGED <<key, sid>>

\* Both reads happen under the map's lock.
Lookup ==
    /\ pc = "lookup"
    /\ IF key \in DOMAIN threadMap /\ threadMap[key] \in objs[sid].threads
       THEN Resolved(threadMap[key])
       ELSE Goto(IF key = Chat THEN "create" ELSE "adopt")
    /\ UNCHANGED <<store, prune, overlap>>

\* Mutant: a thread that another key maps to is adopted as well.
Adopt_Mapped ==
    /\ pc = "adopt"
    /\ IF key \in objs[sid].threads
       THEN /\ threadMap' = MapTo(key)
            /\ managers' = managers \cup {key}
            /\ Resolved(key)
       ELSE Goto("create") /\ UNCHANGED <<threadMap, managers>>
    /\ UNCHANGED <<current, objs, rows, issued, prune, overlap>>

\* A thread of the session that no key maps to yet is adopted: two looks at the map
\* and one at the session, in one step.  Only the agent loop adds to the map, one
\* message at a time, so the re-check under the write lock agrees.
Adopt ==
    /\ pc = "adopt"
    /\ IF ~Mapped(key) /\ key \in objs[sid].threads
       THEN /\ threadMap' = MapTo(key)
            /\ managers' = managers \cup {key}
            /\ Resolved(key)
       ELSE Goto("create") /\ UNCHANGED <<threadMap, managers>>
    /\ UNCHANGED <<current, objs, rows, issued, prune, overlap>>

Create ==
    /\ pc = "create"
    /\ issued < MaxThreads
    /\ issued' = issued + 1
    /\ objs' = AddThread(objs, sid, issued + 1)
    /\ tid' = issued + 1
    /\ pc' = "map"
    /\ UNCHANGED <<current, threadMap, managers, rows, key, sid, prune, overlap>>

\* The mapping and the new undo manager.
MapThread ==
    /\ pc = "map"
    /\ threadMap' = MapTo(tid)
    /\ managers' = managers \cup {tid}
    /\ Resolved(tid)
    /\ UNCHANGED <<current, objs, rows, issued, prune, overlap>>

----------------------------------------------------------------------------
(* What a message does with the maps once it is resolved.                   *)

\* A turn (Conversation): it may store its first row, and get_undo_manager may
\* have to make a manager.
HandleOnThread ==
    /\ pc = "work"
    /\ rows' \in {rows, rows \cup {tid}}
    /\ managers' \in {managers, managers \cup {tid}}
    /\ Done
    /\ UNCHANGED <<current, objs, threadMap, issued, prune, overlap>>

\* process_new_thread, on the session found now.
ProcessNewThread ==
    /\ pc = "work"
    /\ issued < MaxThreads
    /\ issued' = issued + 1
    /\ current' = Obtained
    /\ objs' = AddThread(WithSession, Obtained, issued + 1)
    /\ Done
    /\ UNCHANGED <<threadMap, managers, rows, prune, overlap>>

\* process_switch_thread: active_thread is only displayed; a known target makes
\* the session active.
ProcessSwitchThread ==
    /\ pc = "work"
    /\ current' = Obtained
    /\ \/ objs' = WithSession
       \/ /\ WithSession[Obtained].threads # {}
          /\ objs' = [WithSession EXCEPT ![Obtained].fresh = TRUE]
    /\ Done
    /\ UNCHANGED <<threadMap, managers, rows, issued, prune, overlap>>

----------------------------------------------------------------------------
(* The web handlers.  Pruning between the session's lookup and its lock would *)
(* leave what pruning right after the lock leaves.                          *)

\* chat_new_thread_handler; its row may fail to be stored.
WebNewThread ==
    /\ issued < MaxThreads
    /\ issued' = issued + 1
    /\ current' = Obtained
    /\ objs' = AddThread(WithSession, Obtained, issued + 1)
    /\ rows' \in {rows, rows \cup {issued + 1}}
    /\ UNCHANGED <<threadMap, managers, agent, prune, overlap>>

\* clear_auth_mode and the thread list ask for the session and may create it.
WebGetSession ==
    /\ GetOrCreateSession
    /\ UNCHANGED <<threadMap, managers, rows, issued, agent, prune, overlap>>

----------------------------------------------------------------------------
(* Pruning: five critical sections.                                         *)

\* The idle timeout passes without a new or hydrated thread.
TimePasses ==
    /\ current # None
    /\ objs' = [objs EXCEPT ![current].fresh = FALSE]
    /\ UNCHANGED <<current, threadMap, managers, rows, issued, agent, prune, overlap>>

\* last_active_at is older than the cutoff, and the lock is free.
PruneScan ==
    /\ prune.pc = "idle"
    /\ current # None /\ ~objs[current].fresh
    /\ Len(objs) < MaxSessions
    /\ prune' = [prune EXCEPT !.pc = "collect"]
    /\ UNCHANGED <<store, agent, overlap>>

\* A session locked by someone else contributes no threads.
PruneCollect ==
    /\ prune.pc = "collect"
    /\ \E stale \in {{}, objs[current].threads} :
          prune' = [pc |-> "remove", stale |-> stale]
    /\ UNCHANGED <<store, agent, overlap>>

Overlapping == overlap' = (overlap \/ pc \in Resolving)

PruneRemove ==
    /\ prune.pc = "remove"
    /\ current' = None
    /\ objs' = Freed({sid})
    /\ prune' = [prune EXCEPT !.pc = "retain"]
    /\ Overlapping
    /\ UNCHANGED <<threadMap, managers, rows, issued, agent>>

PruneRetain ==
    /\ prune.pc = "retain"
    /\ threadMap' = <<>>
    /\ prune' = [prune EXCEPT !.pc = "undo"]
    /\ Overlapping
    /\ UNCHANGED <<current, objs, managers, rows, issued, agent>>

PruneUndo ==
    /\ prune.pc = "undo"
    /\ managers' = managers \ prune.stale
    /\ prune' = [pc |-> "idle", stale |-> {}]
    /\ UNCHANGED <<current, objs, threadMap, rows, issued, agent, overlap>>

----------------------------------------------------------------------------
Agent ==
    \/ \E k \in Keys : Receive(k)
    \/ HydrateFind \/ HydrateLoad \/ HydrateInsert
    \/ RegisterMap \/ RegisterUndo \/ RegisterSession
    \/ ResolveSession \/ Lookup \/ Adopt \/ Create \/ MapThread
    \/ HandleOnThread \/ ProcessNewThread \/ ProcessSwitchThread

Web == WebNewThread \/ WebGetSession

Pruner == PruneScan \/ PruneCollect \/ PruneRemove \/ PruneRetain \/ PruneUndo

Next == Agent \/ Web \/ Pruner \/ TimePasses

Spec == Init /\ [][Next]_vars

----------------------------------------------------------------------------
(* Properties.                                                              *)

\* Every variable keeps its type.
TypeOK ==
    /\ current \in 0..Len(objs)
    /\ Len(objs) <= MaxSessions
    /\ \A s \in DOMAIN objs : objs[s].threads \subseteq 1..issued
    /\ DOMAIN threadMap \subseteq Keys
    /\ \A k \in DOMAIN threadMap : threadMap[k] \in 1..issued
    /\ managers \subseteq 1..issued /\ rows \subseteq 1..issued
    /\ pc \in Resolving \cup {"idle", "work"}

\* A gateway message lands in the thread it names, in the user's session
\* (maybe_hydrate_thread and resolve_thread), unless that thread belongs to another
\* key, or pruning took the session away while the message was being resolved.
\* Even then it lands in a thread of the session it was resolved to.
LandsInItsThread ==
    [][pc' = "work" /\ pc # "work" =>
         /\ tid' \in objs'[sid].threads
         /\ ~overlap =>
              /\ sid = current
              /\ key # Chat /\ tid' # key =>
                   \E k \in DOMAIN threadMap \ {key} : threadMap[k] = key]_vars

\* Channel isolation (resolve_thread, "preserving channel isolation"): as long as
\* pruning has not overlapped with a resolution, no thread of the session is
\* reached from two keys.
ChannelIsolation ==
    ~overlap /\ current # None =>
      \A k1, k2 \in DOMAIN threadMap :
        threadMap[k1] = threadMap[k2] /\ threadMap[k1] \in objs[current].threads
          => k1 = k2
=============================================================================
