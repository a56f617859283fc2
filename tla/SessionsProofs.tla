--------------------------- MODULE SessionsProofs ---------------------------
(***************************************************************************)
(* Proofs about Sessions, for every bound on sessions and threads: the     *)
(* type invariant, that no thread is reached from two keys, and that a     *)
(* message lands in the thread it names.                                   *)
(***************************************************************************)
EXTENDS Sessions, TLAPS

-----------------------------------------------------------------------------
(* The inductive invariant                                                     *)

SessionOf(n) == [threads : SUBSET (1..n), fresh : BOOLEAN]

PrunePCs == {"idle", "collect", "remove", "retain", "undo"}

\* Past these labels the message holds the session it was given.
Found == {"load", "insert", "regMap", "regUndo", "regSession",
          "lookup", "adopt", "create", "map"}

\* Only a gateway message, which names a thread, comes through these.
ByName == {"hydrate", "load", "insert", "regMap", "regUndo", "regSession", "adopt"}

\* From here on the thread that a gateway message names is in the session.
Hydrated == {"regMap", "regUndo", "regSession", "resolve", "lookup", "adopt",
             "create", "map"}

Typed ==
    /\ issued \in Nat /\ issued <= MaxThreads
    /\ objs \in Seq(SessionOf(issued))
    /\ current \in 0..Len(objs)
    /\ Len(objs) <= MaxSessions
    /\ DOMAIN threadMap \subseteq {Chat} \cup 1..issued
    /\ \A k \in DOMAIN threadMap : threadMap[k] \in 1..issued
    /\ managers \subseteq 1..issued /\ rows \subseteq 1..issued
    /\ pc \in Resolving \cup {"idle", "work"}
    /\ key \in {Chat} \cup 1..issued
    /\ sid \in 0..Len(objs) /\ tid \in 0..issued
    /\ prune \in [pc : PrunePCs, stale : SUBSET (1..issued)]
    /\ overlap \in BOOLEAN

\* What the message and the pruning task hold on to between two locks, and why
\* a session can always be created when there is none.
Holding ==
    /\ pc \in Found \cup {"work"} => sid # None
    /\ pc = "map" => tid \in objs[sid].threads
    /\ pc = "work" => tid # None
    /\ pc \in ByName => key # Chat
    /\ prune.pc \in {"collect", "remove"} => current # None /\ Len(objs) < MaxSessions
    /\ current = None => Len(objs) < MaxSessions

\* No two keys reach the same thread, of whatever session.
Injective ==
    \A k1, k2 \in DOMAIN threadMap : threadMap[k1] = threadMap[k2] => k1 = k2

\* The map only speaks of threads of the session, except while it still has the
\* entries of the session just removed.
InSession ==
    prune.pc # "retain" =>
      \A k \in DOMAIN threadMap : current # None /\ threadMap[k] \in objs[current].threads

\* A UUID maps to its own thread unless another key has taken that thread.
Displaced == \A k \in DOMAIN threadMap \ {Chat} : threadMap[k] = k \/ Mapped(k)

\* No session is removed under a message that is being resolved.
Undisturbed ==
    /\ pc \in Resolving => prune.pc # "retain"
    /\ pc \in Found => sid = current

\* A thread that has to be hydrated is unknown to the map.
Unknown ==
    pc \in {"load", "insert", "regMap"} => key \notin DOMAIN threadMap /\ ~Mapped(key)

Present ==
    pc \in Hydrated /\ key # Chat => current # None /\ key \in objs[current].threads

\* Why a thread is created, and that the new one is nobody else's.
Unmapped ==
    /\ pc \in {"adopt", "create", "map"} => key \notin DOMAIN threadMap
    /\ pc \in {"create", "map"} /\ key # Chat => Mapped(key)
    /\ pc = "map" => ~Mapped(tid) /\ tid # key

Maps == Injective /\ InSession /\ Displaced
Message == Undisturbed /\ Unknown /\ Present /\ Unmapped

IInv ==
    /\ Typed /\ Holding
    /\ ~overlap => Maps /\ Message

-----------------------------------------------------------------------------
(* The operators of the model                                                  *)

LEMMA MoreThreads ==
    ASSUME NEW n \in Nat, NEW os \in Seq(SessionOf(n))
    PROVE  os \in Seq(SessionOf(n + 1))
<1>1. SessionOf(n) \subseteq SessionOf(n + 1)
  <2>1. 1..n \subseteq 1..(n + 1)  OBVIOUS
  <2> QED BY <2>1 DEF SessionOf
<1> QED BY <1>1

LEMMA MapToFacts ==
    ASSUME NEW t
    PROVE  /\ DOMAIN MapTo(t) = {key} \cup DOMAIN threadMap
           /\ MapTo(t)[key] = t
           /\ \A k \in DOMAIN threadMap \ {key} : MapTo(t)[k] = threadMap[k]
BY DEF MapTo

LEMMA AddThreadFacts ==
    ASSUME NEW n \in Nat, NEW os \in Seq(SessionOf(n)), NEW s \in 1..Len(os), NEW t \in 1..n
    PROVE  LET o == AddThread(os, s, t) IN
           /\ o \in Seq(SessionOf(n)) /\ Len(o) = Len(os)
           /\ o[s].threads = os[s].threads \cup {t}
           /\ \A x \in 1..Len(os) : os[x].threads \subseteq o[x].threads
<1> DEFINE o == AddThread(os, s, t)
<1>1. DOMAIN os = 1..Len(os) /\ \A x \in 1..Len(os) : os[x] \in SessionOf(n)  OBVIOUS
<1>2. [threads |-> os[s].threads \cup {t}, fresh |-> TRUE] \in SessionOf(n)
  BY <1>1 DEF SessionOf
<1>3. o = [os EXCEPT ![s] = [threads |-> os[s].threads \cup {t}, fresh |-> TRUE]]
  BY DEF AddThread
<1>4. o \in Seq(SessionOf(n)) /\ Len(o) = Len(os)  BY <1>1, <1>2, <1>3
<1>5. o[s].threads = os[s].threads \cup {t}  BY <1>1, <1>3
<1>6. \A x \in 1..Len(os) : os[x].threads \subseteq o[x].threads  BY <1>1, <1>3, <1>5
<1> QED BY <1>4, <1>5, <1>6

\* The activity of one session alone changes.
SetFresh(os, s, b) == [os EXCEPT ![s].fresh = b]

LEMMA FreshFacts ==
    ASSUME NEW n \in Nat, NEW os \in Seq(SessionOf(n)), NEW s \in 1..Len(os), NEW b \in BOOLEAN
    PROVE  LET o == SetFresh(os, s, b) IN
           /\ o \in Seq(SessionOf(n)) /\ Len(o) = Len(os)
           /\ \A x \in 1..Len(os) : o[x].threads = os[x].threads
<1> DEFINE o == SetFresh(os, s, b)
<1>1. DOMAIN os = 1..Len(os) /\ \A x \in 1..Len(os) : os[x] \in SessionOf(n)  OBVIOUS
<1>2. [os[s] EXCEPT !.fresh = b] \in SessionOf(n)
      /\ [os[s] EXCEPT !.fresh = b].threads = os[s].threads
  BY <1>1 DEF SessionOf
<1>3. o = [os EXCEPT ![s] = [os[s] EXCEPT !.fresh = b]]  BY DEF SetFresh
<1> QED BY <1>1, <1>2, <1>3

LEMMA WithSessionFacts ==
    ASSUME Typed, Holding
    PROVE  /\ WithSession \in Seq(SessionOf(issued))
           /\ Obtained \in 1..Len(WithSession) /\ Obtained # None
           /\ Len(objs) <= Len(WithSession) /\ Len(WithSession) <= MaxSessions
           /\ \A x \in 1..Len(objs) : WithSession[x] = objs[x]
           /\ current # None => WithSession = objs /\ Obtained = current
           /\ current = None => WithSession[Obtained].threads = {}
<1>1. /\ objs \in Seq(SessionOf(issued)) /\ Len(objs) \in Nat /\ current \in 0..Len(objs)
      /\ Len(objs) <= MaxSessions /\ MaxSessions \in Nat
      /\ current = None => Len(objs) < MaxSessions
  BY BoundsAssumption DEF Typed, Holding
<1>2. NewSession \in SessionOf(issued) /\ NewSession.threads = {}
  BY DEF NewSession, SessionOf
<1>3. CASE current # None
  <2>1. WithSession = objs /\ Obtained = current  BY <1>3 DEF WithSession, Obtained
  <2>2. current \in 1..Len(objs)  BY <1>1, <1>3 DEF None
  <2> QED BY <1>1, <1>3, <2>1, <2>2
<1>4. CASE current = None
  <2>1. WithSession = Append(objs, NewSession) /\ Obtained = Len(objs) + 1
    BY <1>4 DEF WithSession, Obtained
  <2>2. /\ WithSession \in Seq(SessionOf(issued)) /\ Len(WithSession) = Len(objs) + 1
        /\ \A x \in 1..Len(objs) : WithSession[x] = objs[x]
        /\ WithSession[Len(objs) + 1] = NewSession
    BY <1>1, <1>2, <2>1
  <2>3. Obtained \in 1..Len(WithSession) /\ Obtained # None  BY <1>1, <2>1, <2>2 DEF None
  <2>4. Len(objs) <= Len(WithSession) /\ Len(WithSession) <= MaxSessions  BY <1>1, <1>4, <2>2
  <2> QED BY <1>2, <1>4, <2>1, <2>2, <2>3, <2>4
<1> QED BY <1>3, <1>4

LEMMA FreedFacts ==
    ASSUME Typed, NEW used
    PROVE  /\ Freed(used) \in Seq(SessionOf(issued)) /\ Len(Freed(used)) = Len(objs)
           /\ \A s \in 1..Len(objs) : s \in used => Freed(used)[s] = objs[s]
<1>1. /\ objs \in Seq(SessionOf(issued)) /\ Len(objs) \in Nat /\ DOMAIN objs = 1..Len(objs)
      /\ \A s \in 1..Len(objs) : objs[s] \in SessionOf(issued)
  BY DEF Typed
<1>2. NewSession \in SessionOf(issued)  BY DEF NewSession, SessionOf
<1>3. Freed(used) = [s \in 1..Len(objs) |-> IF s \in used THEN objs[s] ELSE NewSession]
  BY <1>1 DEF Freed
<1>4. Freed(used) \in [1..Len(objs) -> SessionOf(issued)]  BY <1>1, <1>2, <1>3
<1>5. Freed(used) \in Seq(SessionOf(issued)) /\ Len(Freed(used)) = Len(objs)  BY <1>1, <1>4
<1> QED BY <1>3, <1>5

\* The object of a session and its threads.
LEMMA SessionFacts ==
    ASSUME Typed
    PROVE  /\ objs \in Seq(SessionOf(issued)) /\ Len(objs) \in Nat
           /\ \A s \in 1..Len(objs) : objs[s].threads \subseteq 1..issued
           /\ current # None => current \in 1..Len(objs)
           /\ sid # None => sid \in 1..Len(objs)
<1>1. objs \in Seq(SessionOf(issued)) /\ Len(objs) \in Nat  BY DEF Typed
<1>2. \A s \in 1..Len(objs) : objs[s] \in SessionOf(issued)  BY <1>1
<1>3. current \in 0..Len(objs) /\ sid \in 0..Len(objs)  BY DEF Typed
<1> QED BY <1>1, <1>2, <1>3 DEF SessionOf, None

-----------------------------------------------------------------------------
(* The steps that change the map                                               *)

LEMMA RegisterMapStep == IInv /\ RegisterMap => IInv'
<1> SUFFICES ASSUME IInv, RegisterMap PROVE IInv'  OBVIOUS
<1>1. /\ Typed /\ Holding
      /\ pc = "regMap" /\ pc' = "regUndo" /\ threadMap' = MapTo(key)
      /\ UNCHANGED <<current, objs, managers, rows, issued, key, sid, tid, prune, overlap>>
  BY DEF IInv, RegisterMap, Goto
<1>2. /\ DOMAIN threadMap' = {key} \cup DOMAIN threadMap
      /\ threadMap'[key] = key
      /\ \A k \in DOMAIN threadMap \ {key} : threadMap'[k] = threadMap[k]
  BY <1>1, MapToFacts
<1>3. key \in 1..issued /\ key # Chat /\ sid # None
  BY <1>1 DEF Typed, Holding, ByName, Found, Chat
<1>4. Typed'
  <2>1. DOMAIN threadMap' \subseteq {Chat} \cup 1..issued  BY <1>1, <1>2, <1>3 DEF Typed
  <2>2. \A k \in DOMAIN threadMap' : threadMap'[k] \in 1..issued  BY <1>1, <1>2, <1>3 DEF Typed
  <2> QED BY <1>1, <2>1, <2>2 DEF Typed, Resolving
<1>5. Holding'  BY <1>1, <1>3 DEF Holding, Found, ByName
<1>6. ASSUME ~overlap' PROVE Maps' /\ Message'
  <2>1. Maps /\ Message  BY <1>1, <1>6 DEF IInv
  <2>2. key \notin DOMAIN threadMap /\ ~Mapped(key)  BY <1>1, <2>1 DEF Message, Unknown
  <2>3. Injective'  BY <1>2, <2>1, <2>2 DEF Maps, Injective, Mapped
  <2>4. current # None /\ key \in objs[current].threads /\ sid = current
    BY <1>1, <1>3, <2>1 DEF Message, Present, Undisturbed, Hydrated, Found
  <2>5. InSession'  BY <1>1, <1>2, <2>1, <2>4 DEF Maps, InSession
  <2>6. Displaced'  BY <1>1, <1>2, <2>1, <2>2 DEF Maps, Displaced, Mapped
  <2>7. Message'
    BY <1>1, <2>1, <2>4 DEF Message, Undisturbed, Unknown, Present, Unmapped, Found, Hydrated,
                            Resolving
  <2> QED BY <2>3, <2>5, <2>6, <2>7 DEF Maps
<1> QED BY <1>4, <1>5, <1>6 DEF IInv

LEMMA AdoptStep == IInv /\ Adopt => IInv'
<1> SUFFICES ASSUME IInv, Adopt PROVE IInv'  OBVIOUS
<1>1. /\ Typed /\ Holding
      /\ pc = "adopt"
      /\ UNCHANGED <<current, objs, rows, issued, key, sid, prune, overlap>>
  BY DEF IInv, Adopt, Goto, Resolved
<1>2. key \in 1..issued /\ key # Chat /\ sid # None
  BY <1>1 DEF Typed, Holding, ByName, Found, Chat
<1>3. CASE ~Mapped(key) /\ key \in objs[sid].threads
  <2>1. /\ threadMap' = MapTo(key) /\ managers' = managers \cup {key}
        /\ tid' = key /\ pc' = "work"
    BY <1>3 DEF Adopt, Resolved
  <2>2. /\ DOMAIN threadMap' = {key} \cup DOMAIN threadMap
        /\ threadMap'[key] = key
        /\ \A k \in DOMAIN threadMap \ {key} : threadMap'[k] = threadMap[k]
    BY <2>1, MapToFacts
  <2>3. Typed'
    <3>1. DOMAIN threadMap' \subseteq {Chat} \cup 1..issued  BY <1>1, <1>2, <2>2 DEF Typed
    <3>2. \A k \in DOMAIN threadMap' : threadMap'[k] \in 1..issued  BY <1>1, <1>2, <2>2 DEF Typed
    <3>3. tid' \in 0..issued /\ managers' \subseteq 1..issued  BY <1>1, <1>2, <2>1 DEF Typed
    <3> QED BY <1>1, <2>1, <3>1, <3>2, <3>3 DEF Typed
  <2>4. Holding'  BY <1>1, <1>2, <2>1 DEF Holding, Found, ByName, Chat, None
  <2>5. ASSUME ~overlap' PROVE Maps' /\ Message'
    <3>1. Maps /\ Message  BY <1>1, <2>5 DEF IInv
    <3>2. key \notin DOMAIN threadMap  BY <1>1, <3>1 DEF Message, Unmapped
    <3>3. Injective'  BY <1>3, <2>2, <3>1, <3>2 DEF Maps, Injective, Mapped
    <3>4. current # None /\ key \in objs[current].threads
      BY <1>1, <1>2, <3>1 DEF Message, Present, Hydrated
    <3>5. InSession'  BY <1>1, <2>2, <3>1, <3>4 DEF Maps, InSession
    <3>6. Displaced'  BY <1>1, <2>2, <3>1, <3>2 DEF Maps, Displaced, Mapped
    <3>7. Message'
      BY <2>1 DEF Message, Undisturbed, Unknown, Present, Unmapped, Found, Hydrated, Resolving
    <3> QED BY <3>3, <3>5, <3>6, <3>7 DEF Maps
  <2> QED BY <2>3, <2>4, <2>5 DEF IInv
<1>4. CASE ~(~Mapped(key) /\ key \in objs[sid].threads)
  <2>1. pc' = "create" /\ UNCHANGED <<threadMap, managers, tid>>  BY <1>4 DEF Adopt, Goto
  <2>2. Typed'  BY <1>1, <2>1 DEF Typed, Resolving
  <2>3. Holding'  BY <1>1, <1>2, <2>1 DEF Holding, Found, ByName
  <2>4. ASSUME ~overlap' PROVE Maps' /\ Message'
    <3>1. Maps /\ Message  BY <1>1, <2>4 DEF IInv
    <3>2. Maps'  BY <1>1, <2>1, <3>1 DEF Maps, Injective, InSession, Displaced, Mapped
    <3>3. Mapped(key)
      BY <1>1, <1>2, <1>4, <3>1 DEF Message, Present, Undisturbed, Hydrated, Found
    <3>4. Mapped(key)'  BY <1>1, <2>1, <3>3 DEF Mapped
    <3> QED
      BY <1>1, <2>1, <3>1, <3>2, <3>4
         DEF Message, Undisturbed, Unknown, Present, Unmapped, Found, Hydrated, Resolving
  <2> QED BY <2>2, <2>3, <2>4 DEF IInv
<1> QED BY <1>3, <1>4

LEMMA MapThreadStep == IInv /\ MapThread => IInv'
<1> SUFFICES ASSUME IInv, MapThread PROVE IInv'  OBVIOUS
<1>1. /\ Typed /\ Holding
      /\ pc = "map" /\ pc' = "work" /\ threadMap' = MapTo(tid)
      /\ managers' = managers \cup {tid}
      /\ UNCHANGED <<current, objs, rows, issued, key, sid, tid, prune, overlap>>
  BY DEF IInv, MapThread, Resolved
<1>2. /\ DOMAIN threadMap' = {key} \cup DOMAIN threadMap
      /\ threadMap'[key] = tid
      /\ \A k \in DOMAIN threadMap \ {key} : threadMap'[k] = threadMap[k]
  BY <1>1, MapToFacts
<1>3. sid # None /\ tid \in objs[sid].threads  BY <1>1 DEF Holding, Found
<1>4. tid \in 1..issued  BY <1>1, <1>3, SessionFacts
<1>5. Typed'
  <2>1. DOMAIN threadMap' \subseteq {Chat} \cup 1..issued  BY <1>1, <1>2 DEF Typed
  <2>2. \A k \in DOMAIN threadMap' : threadMap'[k] \in 1..issued  BY <1>1, <1>2, <1>4 DEF Typed
  <2>3. managers' \subseteq 1..issued  BY <1>1, <1>4 DEF Typed
  <2> QED BY <1>1, <2>1, <2>2, <2>3 DEF Typed
<1>6. Holding'
  <2>1. tid # None  BY <1>4 DEF None
  <2> QED BY <1>1, <1>3, <2>1 DEF Holding, ByName
<1>7. ASSUME ~overlap' PROVE Maps' /\ Message'
  <2>1. Maps /\ Message  BY <1>1, <1>7 DEF IInv
  <2>2. /\ key \notin DOMAIN threadMap /\ ~Mapped(tid) /\ tid # key
        /\ key # Chat => Mapped(key)
        /\ sid = current
    BY <1>1, <2>1 DEF Message, Unmapped, Undisturbed, Found
  <2>3. Injective'  BY <1>2, <2>1, <2>2 DEF Maps, Injective, Mapped
  <2>4. InSession'  BY <1>1, <1>2, <1>3, <2>1, <2>2 DEF Maps, InSession
  <2>5. Displaced'  BY <1>1, <1>2, <2>1, <2>2 DEF Maps, Displaced, Mapped
  <2>6. Message'
    BY <1>1 DEF Message, Undisturbed, Unknown, Present, Unmapped, Found, Hydrated, Resolving
  <2> QED BY <2>3, <2>4, <2>5, <2>6 DEF Maps
<1> QED BY <1>5, <1>6, <1>7 DEF IInv

-----------------------------------------------------------------------------
(* Steps that find, create or extend the session                               *)

\* What get_or_create_session does, with or without a new thread in it: there is
\* a session afterwards, the one there was if any, and no session loses a thread.
Grows ==
    /\ objs' \in Seq(SessionOf(issued'))
    /\ Len(objs) <= Len(objs') /\ Len(objs') <= MaxSessions
    /\ \A s \in 1..Len(objs) : objs[s].threads \subseteq objs'[s].threads
    /\ current' \in 1..Len(objs')
    /\ current # None => current' = current /\ Len(objs') = Len(objs)
    /\ issued' \in {issued, issued + 1} /\ issued' <= MaxThreads

LEMMA ObtainedGrows ==
    ASSUME Typed, Holding, GetOrCreateSession, issued' = issued
    PROVE  Grows
<1>1. objs' = WithSession /\ current' = Obtained /\ issued <= MaxThreads
  BY DEF GetOrCreateSession, Typed
<1>2. /\ \A x \in 1..Len(objs) : WithSession[x] = objs[x]
      /\ WithSession \in Seq(SessionOf(issued)) /\ Obtained \in 1..Len(WithSession)
      /\ Len(objs) <= Len(WithSession) /\ Len(WithSession) <= MaxSessions
      /\ current # None => WithSession = objs /\ Obtained = current
  BY WithSessionFacts
<1> QED BY <1>1, <1>2 DEF Grows

LEMMA AddedGrows ==
    ASSUME Typed, Holding, issued < MaxThreads, issued' = issued + 1, current' = Obtained,
           objs' = AddThread(WithSession, Obtained, issued + 1)
    PROVE  Grows
<1>1. issued \in Nat /\ MaxThreads \in Nat  BY BoundsAssumption DEF Typed
<1>2. /\ \A x \in 1..Len(objs) : WithSession[x] = objs[x]
      /\ WithSession \in Seq(SessionOf(issued)) /\ Obtained \in 1..Len(WithSession)
      /\ Len(objs) <= Len(WithSession) /\ Len(WithSession) <= MaxSessions
      /\ current # None => WithSession = objs /\ Obtained = current
  BY WithSessionFacts
<1>3. WithSession \in Seq(SessionOf(issued + 1))  BY <1>1, <1>2, MoreThreads
<1>4. issued + 1 \in Nat /\ issued + 1 \in 1..(issued + 1) /\ issued + 1 <= MaxThreads
  BY <1>1
<1>5. /\ objs' \in Seq(SessionOf(issued + 1)) /\ Len(objs') = Len(WithSession)
      /\ \A x \in 1..Len(WithSession) : WithSession[x].threads \subseteq objs'[x].threads
  BY <1>2, <1>3, <1>4, AddThreadFacts
<1>6. ASSUME NEW s \in 1..Len(objs) PROVE objs[s].threads \subseteq objs'[s].threads
  <2>1. s \in 1..Len(WithSession)
    <3>1. Len(objs) \in Nat /\ Len(WithSession) \in Nat  BY <1>2, SessionFacts
    <3> QED BY <1>2, <3>1
  <2> QED BY <1>2, <1>5, <2>1
<1> QED BY <1>2, <1>4, <1>5, <1>6 DEF Grows

LEMMA GrowsTypes ==
    ASSUME Typed, Grows
    PROVE  /\ issued' \in Nat /\ issued' <= MaxThreads /\ 1..issued \subseteq 1..issued'
           /\ 0..issued \subseteq 0..issued' /\ 0..Len(objs) \subseteq 0..Len(objs')
           /\ current' \in 0..Len(objs') /\ current' # None
<1>1. issued \in Nat /\ Len(objs) \in Nat /\ Len(objs') \in Nat
  BY SessionFacts DEF Typed, Grows
<1>2. /\ Len(objs) <= Len(objs') /\ current' \in 1..Len(objs')
      /\ issued' \in {issued, issued + 1} /\ issued' <= MaxThreads
  BY DEF Grows
<1> QED BY <1>1, <1>2 DEF None

LEMMA GrowsTyped ==
    ASSUME Typed, Grows, UNCHANGED <<threadMap, prune>>,
           managers' \subseteq 1..issued', rows' \subseteq 1..issued',
           pc' \in Resolving \cup {"idle", "work"},
           key' \in {Chat, key}, sid' \in 0..Len(objs'), tid' \in 0..issued',
           overlap' \in BOOLEAN
    PROVE  Typed'
<1>1. /\ issued' \in Nat /\ issued' <= MaxThreads /\ 1..issued \subseteq 1..issued'
      /\ current' \in 0..Len(objs')
  BY GrowsTypes
<1>2. objs' \in Seq(SessionOf(issued')) /\ Len(objs') <= MaxSessions  BY DEF Grows
<1>3. /\ DOMAIN threadMap' \subseteq {Chat} \cup 1..issued'
      /\ \A k \in DOMAIN threadMap' : threadMap'[k] \in 1..issued'
      /\ key' \in {Chat} \cup 1..issued'
  BY <1>1 DEF Typed
<1>4. prune' \in [pc : PrunePCs, stale : SUBSET (1..issued')]  BY <1>1 DEF Typed
<1> QED BY <1>1, <1>2, <1>3, <1>4 DEF Typed

\* The map stays sound as long as no session is removed under it.
LEMMA MapsKept ==
    ASSUME Maps, threadMap' = threadMap, prune'.pc # "retain" => prune.pc # "retain",
           current # None => current' = current /\ current' # None
                             /\ objs[current].threads \subseteq objs'[current].threads
    PROVE  Maps'
<1>1. Injective' /\ Displaced'  BY DEF Maps, Injective, Displaced, Mapped
<1>2. InSession'  BY DEF Maps, InSession
<1> QED BY <1>1, <1>2 DEF Maps

\* So does what is known of a message, when another task takes the step.
LEMMA MessageKept ==
    ASSUME Holding, Message, threadMap' = threadMap, UNCHANGED agent,
           prune'.pc = "retain" => prune.pc = "retain" \/ pc \notin Resolving,
           current # None => current' = current /\ current' # None
                             /\ objs[current].threads \subseteq objs'[current].threads
    PROVE  Message'
<1>1. pc' = pc /\ key' = key /\ sid' = sid /\ tid' = tid  BY DEF agent
<1>2. Undisturbed'  BY <1>1 DEF Message, Undisturbed, Holding
<1>3. Unknown' /\ Unmapped'  BY <1>1 DEF Message, Unknown, Unmapped, Mapped
<1>4. Present'  BY <1>1 DEF Message, Present
<1> QED BY <1>2, <1>3, <1>4 DEF Message

\* Between two messages, and while one is worked on, nothing is known of it.
LEMMA AtRestNext == pc' \in {"idle", "work"} => Message'
BY DEF Message, Undisturbed, Unknown, Present, Unmapped, Found, Hydrated, Resolving

LEMMA GrowsKeeps ==
    ASSUME Typed, Grows, current # None
    PROVE  current' = current /\ current' # None
           /\ objs[current].threads \subseteq objs'[current].threads
BY SessionFacts DEF Grows

LEMMA GrowsHolding ==
    ASSUME Typed, Holding, Grows, UNCHANGED <<agent, prune>>
    PROVE  Holding'
<1>1. pc' = pc /\ key' = key /\ sid' = sid /\ tid' = tid  BY DEF agent
<1>2. current' # None  BY GrowsTypes
<1>3. sid # None => objs[sid].threads \subseteq objs'[sid].threads  BY SessionFacts DEF Grows
<1>4. pc = "map" => sid # None  BY DEF Holding, Found
<1>5. prune.pc \in {"collect", "remove"} => Len(objs') < MaxSessions  BY DEF Holding, Grows
<1> QED BY <1>1, <1>2, <1>3, <1>4, <1>5 DEF Holding

\* The web handlers.
LEMMA WebSteps == IInv /\ Web => IInv'
<1> SUFFICES ASSUME IInv, Web PROVE IInv'  OBVIOUS
<1>1. /\ Typed /\ Holding /\ issued \in Nat
      /\ UNCHANGED <<threadMap, managers, agent, prune, overlap>>
      /\ pc' = pc /\ key' = key /\ sid' = sid /\ tid' = tid
  BY DEF IInv, Typed, Web, WebNewThread, WebGetSession, agent
<1>2. Grows /\ rows' \subseteq 1..issued'
  <2>1. CASE WebNewThread
    <3>1. /\ issued < MaxThreads /\ issued' = issued + 1 /\ current' = Obtained
          /\ objs' = AddThread(WithSession, Obtained, issued + 1)
          /\ rows' \in {rows, rows \cup {issued + 1}}
      BY <2>1 DEF WebNewThread
    <3>2. Grows  BY <1>1, <3>1, AddedGrows
    <3>3. 1..issued \subseteq 1..issued' /\ issued + 1 \in 1..issued'  BY <1>1, <3>1
    <3> QED BY <1>1, <3>1, <3>2, <3>3 DEF Typed
  <2>2. CASE WebGetSession
    <3>1. GetOrCreateSession /\ issued' = issued /\ rows' = rows  BY <2>2 DEF WebGetSession
    <3> QED BY <1>1, <3>1, ObtainedGrows DEF Typed
  <2> QED BY <2>1, <2>2 DEF Web
<1>3. Typed'
  <2>1. /\ managers' \subseteq 1..issued' /\ sid' \in 0..Len(objs') /\ tid' \in 0..issued'
        /\ pc' \in Resolving \cup {"idle", "work"} /\ overlap' \in BOOLEAN
    BY <1>1, <1>2, GrowsTypes DEF Typed
  <2> QED BY <1>1, <1>2, <2>1, GrowsTyped
<1>4. Holding'  BY <1>1, <1>2, GrowsHolding
<1>5. ASSUME ~overlap' PROVE Maps' /\ Message'
  <2>1. Maps /\ Message  BY <1>1, <1>5 DEF IInv
  <2>2. current # None => current' = current /\ current' # None
                          /\ objs[current].threads \subseteq objs'[current].threads
    BY <1>1, <1>2, GrowsKeeps
  <2> QED BY <1>1, <2>1, <2>2, MapsKept, MessageKept
<1> QED BY <1>3, <1>4, <1>5 DEF IInv

\* The message asks for its session.
LEMMA FindSteps == IInv /\ (HydrateFind \/ ResolveSession) => IInv'
<1> SUFFICES ASSUME IInv, HydrateFind \/ ResolveSession PROVE IInv'  OBVIOUS
<1>1. /\ Typed /\ Holding /\ GetOrCreateSession /\ sid' = Obtained
      /\ UNCHANGED <<threadMap, managers, rows, issued, key, tid, prune, overlap>>
  BY DEF IInv, HydrateFind, ResolveSession
<1>2. pc \in {"hydrate", "resolve"} /\ pc' \in {"resolve", "load", "lookup"}
  BY DEF HydrateFind, ResolveSession
<1>3. Grows /\ sid' = current'  BY <1>1, ObtainedGrows DEF GetOrCreateSession
<1>4. Typed'
  <2>1. /\ managers' \subseteq 1..issued' /\ rows' \subseteq 1..issued'
        /\ sid' \in 0..Len(objs') /\ tid' \in 0..issued' /\ overlap' \in BOOLEAN
    BY <1>1, <1>3, GrowsTypes DEF Typed
  <2>2. pc' \in Resolving \cup {"idle", "work"}  BY <1>2 DEF Resolving
  <2> QED BY <1>1, <1>3, <2>1, <2>2, GrowsTyped
<1>5. Holding'
  <2>1. current' # None  BY <1>1, <1>3, GrowsTypes
  <2>2. prune.pc \in {"collect", "remove"} => Len(objs') < MaxSessions
    BY <1>1, <1>3 DEF Holding, Grows
  <2>3. pc' \in ByName => key # Chat
    BY <1>1, <1>2 DEF Holding, ByName, HydrateFind, ResolveSession
  <2> QED BY <1>1, <1>2, <1>3, <2>1, <2>2, <2>3 DEF Holding
<1>6. ASSUME ~overlap' PROVE Maps' /\ Message'
  <2>1. Maps /\ Message  BY <1>1, <1>6 DEF IInv
  <2>2. current # None => current' = current /\ current' # None
                          /\ objs[current].threads \subseteq objs'[current].threads
    BY <1>1, <1>3, GrowsKeeps
  <2>3. Maps'  BY <1>1, <2>1, <2>2, MapsKept
  <2>4. prune.pc # "retain"  BY <1>2, <2>1 DEF Message, Undisturbed, Resolving
  <2>5. Undisturbed'  BY <1>1, <1>3, <2>4 DEF Undisturbed
  <2>6. CASE HydrateFind
    <3>1. /\ key # Chat
          /\ pc' = IF key \in objs'[current'].threads THEN "resolve" ELSE "load"
      BY <1>1, <2>6 DEF HydrateFind, GetOrCreateSession, Holding, ByName
    <3>2. Mapped(key) => key \in objs'[current'].threads
      BY <2>1, <2>2, <2>4 DEF Maps, InSession, Mapped
    <3>3. key \in DOMAIN threadMap => Mapped(key)  BY <2>1, <3>1 DEF Maps, Displaced, Mapped
    <3>4. Unknown'  BY <1>1, <3>1, <3>2, <3>3 DEF Unknown, Mapped
    <3>5. current' # None  BY <1>1, <1>3, GrowsTypes
    <3>6. Present' /\ Unmapped'  BY <1>1, <3>1, <3>5 DEF Present, Unmapped, Hydrated
    <3> QED BY <2>3, <2>5, <3>4, <3>6 DEF Message
  <2>7. CASE ResolveSession
    <3>1. pc = "resolve" /\ pc' = "lookup"  BY <2>7 DEF ResolveSession
    <3>2. Unknown' /\ Unmapped'  BY <3>1 DEF Unknown, Unmapped
    <3>3. Present'  BY <1>1, <2>1, <2>2, <3>1 DEF Message, Present, Hydrated
    <3> QED BY <2>3, <2>5, <3>2, <3>3 DEF Message
  <2> QED BY <2>6, <2>7
<1> QED BY <1>4, <1>5, <1>6 DEF IInv

\* The message is finished by a command, which may create the session anew.
LEMMA CommandSteps == IInv /\ (ProcessNewThread \/ ProcessSwitchThread) => IInv'
<1> SUFFICES ASSUME IInv, ProcessNewThread \/ ProcessSwitchThread PROVE IInv'  OBVIOUS
<1>1. /\ Typed /\ Holding /\ issued \in Nat
      /\ pc' = "idle" /\ key' = Chat /\ sid' = None /\ tid' = None
      /\ UNCHANGED <<threadMap, managers, rows, prune, overlap>>
  BY DEF IInv, Typed, ProcessNewThread, ProcessSwitchThread, Done
<1>2. Grows
  <2>1. CASE ProcessNewThread  BY <1>1, <2>1, AddedGrows DEF ProcessNewThread
  <2>2. CASE ProcessSwitchThread /\ objs' = WithSession
    BY <1>1, <2>2, ObtainedGrows DEF ProcessSwitchThread, GetOrCreateSession
  <2>3. CASE ProcessSwitchThread /\ objs' # WithSession
    <3>1. /\ objs' = SetFresh(WithSession, Obtained, TRUE)
          /\ current' = Obtained /\ issued' = issued
      BY <2>3 DEF ProcessSwitchThread, SetFresh
    <3>2. /\ \A x \in 1..Len(objs) : WithSession[x] = objs[x]
          /\ WithSession \in Seq(SessionOf(issued)) /\ Obtained \in 1..Len(WithSession)
          /\ Len(objs) <= Len(WithSession) /\ Len(WithSession) <= MaxSessions
          /\ current # None => WithSession = objs /\ Obtained = current
      BY <1>1, WithSessionFacts
    <3>3. /\ objs' \in Seq(SessionOf(issued)) /\ Len(objs') = Len(WithSession)
          /\ \A x \in 1..Len(WithSession) : objs'[x].threads = WithSession[x].threads
      BY <1>1, <3>1, <3>2, FreshFacts
    <3>4. ASSUME NEW s \in 1..Len(objs) PROVE objs[s].threads \subseteq objs'[s].threads
      <4>1. Len(objs) \in Nat /\ Len(WithSession) \in Nat  BY <1>1, <3>2, SessionFacts
      <4>2. s \in 1..Len(WithSession)  BY <3>2, <4>1
      <4> QED BY <3>2, <3>3, <4>2
    <3>5. issued <= MaxThreads  BY <1>1 DEF Typed
    <3> QED BY <3>1, <3>2, <3>3, <3>4, <3>5 DEF Grows
  <2> QED BY <2>1, <2>2, <2>3
<1>3. Typed'
  <2>1. 1..issued \subseteq 1..issued' /\ issued' \in Nat  BY <1>1, <1>2, GrowsTypes
  <2>2. /\ managers' \subseteq 1..issued' /\ rows' \subseteq 1..issued'
        /\ overlap' \in BOOLEAN /\ pc' \in Resolving \cup {"idle", "work"}
    BY <1>1, <2>1 DEF Typed
  <2>3. Len(objs') \in Nat  BY <1>2 DEF Grows
  <2>4. sid' \in 0..Len(objs') /\ tid' \in 0..issued'  BY <1>1, <2>1, <2>3 DEF None
  <2> QED BY <1>1, <1>2, <2>2, <2>4, GrowsTyped
<1>4. Holding'
  <2>1. current' # None  BY <1>1, <1>2, GrowsTypes
  <2>2. prune.pc \in {"collect", "remove"} => Len(objs') < MaxSessions
    BY <1>1, <1>2 DEF Holding, Grows
  <2> QED BY <1>1, <2>1, <2>2 DEF Holding, Found, ByName
<1>5. ASSUME ~overlap' PROVE Maps' /\ Message'
  <2>1. Maps  BY <1>1, <1>5 DEF IInv
  <2>2. current # None => current' = current /\ current' # None
                          /\ objs[current].threads \subseteq objs'[current].threads
    BY <1>1, <1>2, GrowsKeeps
  <2>3. Maps'  BY <1>1, <2>1, <2>2, MapsKept
  <2>4. Message'  BY <1>1, AtRestNext
  <2> QED BY <2>3, <2>4
<1> QED BY <1>3, <1>4, <1>5 DEF IInv

-----------------------------------------------------------------------------
(* The other steps of a message                                                *)

LEMMA ReceiveStep == ASSUME IInv, NEW k \in Keys, Receive(k) PROVE IInv'
<1>1. /\ Typed /\ Holding /\ pc = "idle" /\ k \in {Chat} \cup 1..issued /\ key' = k
      /\ pc' = (IF k = Chat THEN "resolve" ELSE "hydrate")
      /\ overlap' = (overlap \/ prune.pc = "retain") /\ objs' = Freed({current})
      /\ UNCHANGED <<current, threadMap, managers, rows, issued, sid, tid, prune>>
  BY DEF IInv, Receive
<1>2. /\ objs' \in Seq(SessionOf(issued)) /\ Len(objs') = Len(objs)
      /\ \A s \in 1..Len(objs) : s \in {current} => objs'[s] = objs[s]
  BY <1>1, FreedFacts
<1>3. Typed'
  <2>1. overlap' \in BOOLEAN  BY <1>1 DEF Typed
  <2> QED BY <1>1, <1>2, <2>1 DEF Typed, Resolving
<1>4. Holding'  BY <1>1, <1>2 DEF Holding, Found, ByName
<1>5. ASSUME ~overlap' PROVE Maps' /\ Message'
  <2>1. Maps /\ Message /\ prune.pc # "retain"  BY <1>1, <1>5 DEF IInv
  <2>2. current # None => objs'[current] = objs[current]  BY <1>1, <1>2, SessionFacts
  <2>3. Maps'  BY <1>1, <2>1, <2>2, MapsKept
  <2>4. Message'
    BY <1>1, <2>1 DEF Message, Undisturbed, Unknown, Present, Unmapped, Found, Hydrated
  <2> QED BY <2>3, <2>4
<1> QED BY <1>3, <1>4, <1>5 DEF IInv

LEMMA InsertStep == IInv /\ HydrateInsert => IInv'
<1> SUFFICES ASSUME IInv, HydrateInsert PROVE IInv'  OBVIOUS
<1>1. /\ Typed /\ Holding /\ pc = "insert" /\ pc' = "regMap"
      /\ objs' = AddThread(objs, sid, key)
      /\ UNCHANGED <<current, threadMap, managers, rows, issued, key, sid, tid, prune, overlap>>
  BY DEF IInv, HydrateInsert, Goto
<1>2. sid # None /\ key # Chat /\ key \in 1..issued /\ issued \in Nat
  BY <1>1 DEF Typed, Holding, Found, ByName, Chat
<1>3. sid \in 1..Len(objs) /\ objs \in Seq(SessionOf(issued))  BY <1>1, <1>2, SessionFacts
<1>4. /\ objs' \in Seq(SessionOf(issued)) /\ Len(objs') = Len(objs)
      /\ objs'[sid].threads = objs[sid].threads \cup {key}
      /\ \A x \in 1..Len(objs) : objs[x].threads \subseteq objs'[x].threads
  BY <1>1, <1>2, <1>3, AddThreadFacts
<1>5. Typed'  BY <1>1, <1>4 DEF Typed, Resolving
<1>6. Holding'  BY <1>1, <1>2, <1>4 DEF Holding
<1>7. ASSUME ~overlap' PROVE Maps' /\ Message'
  <2>1. Maps /\ Message  BY <1>1, <1>7 DEF IInv
  <2>2. sid = current /\ prune.pc # "retain"
    BY <1>1, <2>1 DEF Message, Undisturbed, Found, Resolving
  <2>3. Maps'  BY <1>1, <1>3, <1>4, <2>1, <2>2, MapsKept
  <2>4. Unknown'  BY <1>1, <2>1 DEF Message, Unknown, Mapped
  <2>5. Undisturbed' /\ Present' /\ Unmapped'
    BY <1>1, <1>2, <1>4, <2>2 DEF Undisturbed, Present, Unmapped
  <2> QED BY <2>3, <2>4, <2>5 DEF Message
<1> QED BY <1>5, <1>6, <1>7 DEF IInv

LEMMA CreateStep == IInv /\ Create => IInv'
<1> SUFFICES ASSUME IInv, Create PROVE IInv'  OBVIOUS
<1>1. /\ Typed /\ Holding /\ pc = "create" /\ pc' = "map"
      /\ issued < MaxThreads /\ issued' = issued + 1 /\ tid' = issued + 1
      /\ objs' = AddThread(objs, sid, issued + 1)
      /\ UNCHANGED <<current, threadMap, managers, rows, key, sid, prune, overlap>>
  BY DEF IInv, Create
<1>2. sid # None /\ issued \in Nat /\ MaxThreads \in Nat
  BY <1>1, BoundsAssumption DEF Typed, Holding, Found
<1>3. sid \in 1..Len(objs) /\ objs \in Seq(SessionOf(issued + 1))
  BY <1>1, <1>2, SessionFacts, MoreThreads
<1>4. /\ issued + 1 \in Nat /\ issued + 1 \in 1..(issued + 1) /\ issued + 1 <= MaxThreads
      /\ 1..issued \subseteq 1..(issued + 1) /\ issued + 1 \notin 1..issued
      /\ issued + 1 \in 0..(issued + 1) /\ issued + 1 # 0
  BY <1>1, <1>2
<1>5. /\ objs' \in Seq(SessionOf(issued + 1)) /\ Len(objs') = Len(objs)
      /\ objs'[sid].threads = objs[sid].threads \cup {issued + 1}
      /\ \A x \in 1..Len(objs) : objs[x].threads \subseteq objs'[x].threads
  BY <1>1, <1>3, <1>4, AddThreadFacts
<1>6. Typed'
  <2>1. prune' \in [pc : PrunePCs, stale : SUBSET (1..issued')]  BY <1>1, <1>4 DEF Typed
  <2>2. /\ DOMAIN threadMap' \subseteq {Chat} \cup 1..issued'
        /\ \A k \in DOMAIN threadMap' : threadMap'[k] \in 1..issued'
        /\ managers' \subseteq 1..issued' /\ rows' \subseteq 1..issued'
        /\ key' \in {Chat} \cup 1..issued'
    BY <1>1, <1>4 DEF Typed
  <2> QED BY <1>1, <1>4, <1>5, <2>1, <2>2 DEF Typed, Resolving
<1>7. Holding'  BY <1>1, <1>2, <1>5 DEF Holding, ByName
<1>8. ASSUME ~overlap' PROVE Maps' /\ Message'
  <2>1. Maps /\ Message  BY <1>1, <1>8 DEF IInv
  <2>2. sid = current /\ prune.pc # "retain"
    BY <1>1, <2>1 DEF Message, Undisturbed, Found, Resolving
  <2>3. Maps'  BY <1>1, <1>3, <1>5, <2>1, <2>2, MapsKept
  <2>4. ~Mapped(issued + 1) /\ key # issued + 1  BY <1>1, <1>4 DEF Typed, Mapped, Chat
  <2>5. Unmapped'  BY <1>1, <2>1, <2>4 DEF Message, Unmapped, Mapped
  <2>6. Present'  BY <1>1, <1>2, <1>3, <1>5, <2>1, <2>2 DEF Message, Present, Hydrated
  <2>7. Undisturbed' /\ Unknown'  BY <1>1, <2>2 DEF Undisturbed, Unknown
  <2> QED BY <2>3, <2>5, <2>6, <2>7 DEF Message
<1> QED BY <1>6, <1>7, <1>8 DEF IInv

\* Steps that change neither a session nor the map.
LEMMA OtherMessageSteps ==
    IInv /\ (HydrateLoad \/ RegisterUndo \/ RegisterSession \/ Lookup \/ HandleOnThread) => IInv'
<1> SUFFICES ASSUME IInv,
                    HydrateLoad \/ RegisterUndo \/ RegisterSession \/ Lookup \/ HandleOnThread
             PROVE  IInv'
  OBVIOUS
<1>1. Typed /\ Holding /\ (~overlap => Maps /\ Message)  BY DEF IInv
<1>2. CASE HydrateLoad /\ pc' = "insert"
  <2>1. /\ pc = "load"
        /\ UNCHANGED <<current, objs, threadMap, managers, rows, issued, key, sid, tid,
                       prune, overlap>>
    BY <1>2 DEF HydrateLoad, Goto, Done, store
  <2>2. Typed'  BY <1>1, <1>2, <2>1 DEF Typed, Resolving
  <2>3. Holding'  BY <1>1, <1>2, <2>1 DEF Holding, Found, ByName
  <2>4. ASSUME ~overlap' PROVE Maps' /\ Message'
    <3>1. Maps /\ Message  BY <1>1, <2>1, <2>4
    <3>2. Maps'  BY <2>1, <3>1, MapsKept
    <3>3. Undisturbed' /\ Present' /\ Unmapped'
      BY <1>2, <2>1, <3>1 DEF Message, Undisturbed, Present, Unmapped, Hydrated, Found, Resolving
    <3>4. Unknown'  BY <1>2, <2>1, <3>1 DEF Message, Unknown, Mapped
    <3> QED BY <3>2, <3>3, <3>4 DEF Message
  <2> QED BY <2>2, <2>3, <2>4 DEF IInv
<1>3. CASE (HydrateLoad /\ pc' # "insert") \/ HandleOnThread
  <2>1. /\ pc' = "idle" /\ key' = Chat /\ sid' = None /\ tid' = None
        /\ UNCHANGED <<current, objs, threadMap, issued, prune, overlap>>
        /\ rows' \in {rows, rows \cup {tid}} /\ managers' \in {managers, managers \cup {tid}}
    BY <1>3 DEF HydrateLoad, HandleOnThread, Goto, Done, store
  <2>2. tid \in 1..issued \/ (rows' = rows /\ managers' = managers)
    BY <1>1, <1>3 DEF HydrateLoad, HandleOnThread, store, Typed, Holding, None
  <2>3. Typed'
    <3>1. rows' \subseteq 1..issued /\ managers' \subseteq 1..issued  BY <1>1, <2>1, <2>2 DEF Typed
    <3>2. 0 \in 0..Len(objs) /\ 0 \in 0..issued  BY <1>1, SessionFacts DEF Typed
    <3> QED BY <1>1, <2>1, <3>1, <3>2 DEF Typed, None
  <2>4. Holding'  BY <1>1, <2>1 DEF Holding, Found, ByName
  <2>5. ASSUME ~overlap' PROVE Maps' /\ Message'  BY <1>1, <2>1, <2>5, MapsKept, AtRestNext
  <2> QED BY <2>3, <2>4, <2>5 DEF IInv
<1>4. CASE RegisterUndo \/ RegisterSession
  <2>1. /\ pc \in {"regUndo", "regSession"} /\ pc' \in {"regSession", "resolve"}
        /\ key # Chat /\ sid # None
        /\ UNCHANGED <<objs, threadMap, rows, issued, key, sid, tid, prune, overlap>>
        /\ current' = (IF current = None THEN sid ELSE current) \/ current' = current
        /\ managers' \in {managers, managers \cup {key}}
    BY <1>1, <1>4 DEF RegisterUndo, RegisterSession, Goto, Holding, ByName, Found
  <2>2. key \in 1..issued /\ sid \in 0..Len(objs)  BY <1>1, <2>1 DEF Typed
  <2>3. Typed'
    <3>1. managers' \subseteq 1..issued /\ current' \in 0..Len(objs)  BY <1>1, <2>1, <2>2 DEF Typed
    <3> QED BY <1>1, <2>1, <3>1 DEF Typed, Resolving
  <2>4. Holding'
    <3>1. current # None => current' = current  BY <2>1
    <3>2. current' = None => current = None  BY <2>1
    <3> QED BY <1>1, <2>1, <3>1, <3>2 DEF Holding
  <2>5. ASSUME ~overlap' PROVE Maps' /\ Message'
    <3>1. Maps /\ Message  BY <1>1, <2>1, <2>5
    <3>2. sid = current /\ current' = current /\ prune.pc # "retain"
      BY <2>1, <3>1 DEF Message, Undisturbed, Found, Resolving
    <3>3. Maps'  BY <2>1, <3>1, <3>2, MapsKept
    <3>4. Present'  BY <2>1, <3>1, <3>2 DEF Message, Present, Hydrated
    <3>5. Undisturbed' /\ Unknown' /\ Unmapped'
      BY <2>1, <3>2 DEF Undisturbed, Unknown, Unmapped
    <3> QED BY <3>3, <3>4, <3>5 DEF Message
  <2> QED BY <2>3, <2>4, <2>5 DEF IInv
<1>5. CASE Lookup
  <2>1. /\ pc = "lookup"
        /\ UNCHANGED <<current, objs, threadMap, managers, rows, issued, key, sid, prune, overlap>>
    BY <1>5 DEF Lookup, Resolved, Goto, store
  <2>2. sid # None  BY <1>1, <2>1 DEF Holding, Found
  <2>3. ASSUME ~overlap' PROVE Maps'
    BY <1>1, <2>1, <2>3, MapsKept
  <2>4. CASE key \in DOMAIN threadMap /\ threadMap[key] \in objs[sid].threads
    <3>1. pc' = "work" /\ tid' = threadMap[key]  BY <1>5, <2>4 DEF Lookup, Resolved
    <3>2. tid' \in 1..issued /\ issued \in Nat  BY <1>1, <2>4, <3>1 DEF Typed
    <3>3. tid' \in 0..issued /\ tid' # None  BY <3>2 DEF None
    <3>4. Typed'  BY <1>1, <2>1, <3>1, <3>3 DEF Typed
    <3>5. Holding'  BY <1>1, <2>1, <2>2, <3>1, <3>3 DEF Holding, ByName
    <3> QED BY <2>3, <3>1, <3>4, <3>5, AtRestNext DEF IInv
  <2>5. CASE ~(key \in DOMAIN threadMap /\ threadMap[key] \in objs[sid].threads)
    <3>1. tid' = tid /\ pc' = (IF key = Chat THEN "create" ELSE "adopt")
      BY <1>5, <2>5 DEF Lookup, Goto
    <3>2. Typed'  BY <1>1, <2>1, <3>1 DEF Typed, Resolving
    <3>3. Holding'  BY <1>1, <2>1, <2>2, <3>1 DEF Holding, Found, ByName
    <3>4. ASSUME ~overlap' PROVE Message'
      <4>1. Maps /\ Message  BY <1>1, <2>1, <3>4
      <4>2. sid = current /\ prune.pc # "retain"
        BY <2>1, <4>1 DEF Message, Undisturbed, Found, Resolving
      <4>3. key \notin DOMAIN threadMap  BY <2>5, <4>1, <4>2 DEF Maps, InSession
      <4>4. Unmapped'  BY <2>1, <3>1, <4>3 DEF Unmapped
      <4>5. Present'  BY <2>1, <3>1, <4>1 DEF Message, Present, Hydrated
      <4>6. Undisturbed' /\ Unknown'  BY <2>1, <3>1, <4>2 DEF Undisturbed, Unknown
      <4> QED BY <4>4, <4>5, <4>6 DEF Message
    <3> QED BY <2>3, <3>2, <3>3, <3>4 DEF IInv
  <2> QED BY <2>4, <2>5
<1> QED BY <1>2, <1>3, <1>4, <1>5

-----------------------------------------------------------------------------
(* Time and pruning                                                            *)

LEMMA PruneSteps == IInv /\ (PruneScan \/ PruneCollect \/ PruneUndo) => IInv'
<1> SUFFICES ASSUME IInv, PruneScan \/ PruneCollect \/ PruneUndo PROVE IInv'  OBVIOUS
<1>1. /\ Typed /\ Holding /\ (~overlap => Maps /\ Message)
      /\ UNCHANGED <<current, objs, threadMap, rows, issued, agent, overlap>>
      /\ pc' = pc /\ key' = key /\ sid' = sid /\ tid' = tid
  BY DEF IInv, PruneScan, PruneCollect, PruneUndo, store, agent
<1>2. /\ managers' \subseteq managers
      /\ prune' \in [pc : PrunePCs, stale : SUBSET (1..issued)]
      /\ prune.pc # "retain" /\ prune'.pc # "retain"
      /\ prune'.pc \in {"collect", "remove"} => current # None /\ Len(objs) < MaxSessions
  <2>1. prune \in [pc : PrunePCs, stale : SUBSET (1..issued)]  BY <1>1 DEF Typed
  <2>2. CASE PruneScan
    BY <2>1, <2>2 DEF PruneScan, PrunePCs, store
  <2>3. CASE PruneCollect
    <3>1. current # None /\ Len(objs) < MaxSessions /\ prune.pc = "collect" /\ managers' = managers
      BY <1>1, <2>3 DEF PruneCollect, Holding, store
    <3>2. PICK stale \in {{}, objs[current].threads} : prune' = [pc |-> "remove", stale |-> stale]
      BY <2>3 DEF PruneCollect
    <3>3. stale \subseteq 1..issued  BY <1>1, <3>1, <3>2, SessionFacts
    <3> QED BY <3>1, <3>2, <3>3 DEF PrunePCs
  <2>4. CASE PruneUndo
    BY <2>4 DEF PruneUndo, PrunePCs
  <2> QED BY <2>2, <2>3, <2>4
<1>3. Typed'
  <2>1. managers' \subseteq 1..issued  BY <1>1, <1>2 DEF Typed
  <2> QED BY <1>1, <1>2, <2>1 DEF Typed
<1>4. Holding'  BY <1>1, <1>2 DEF Holding
<1>5. ASSUME ~overlap' PROVE Maps' /\ Message'
  BY <1>1, <1>2, <1>5, MapsKept, MessageKept
<1> QED BY <1>3, <1>4, <1>5 DEF IInv

LEMMA PruneRemoveStep == IInv /\ PruneRemove => IInv'
<1> SUFFICES ASSUME IInv, PruneRemove PROVE IInv'  OBVIOUS
<1>1. /\ Typed /\ Holding /\ (~overlap => Maps /\ Message)
      /\ prune.pc = "remove" /\ current' = None /\ objs' = Freed({sid})
      /\ prune' = [prune EXCEPT !.pc = "retain"]
      /\ overlap' = (overlap \/ pc \in Resolving)
      /\ UNCHANGED <<threadMap, managers, rows, issued>>
      /\ pc' = pc /\ key' = key /\ sid' = sid /\ tid' = tid
  BY DEF IInv, PruneRemove, Overlapping, agent
<1>2. /\ objs' \in Seq(SessionOf(issued)) /\ Len(objs') = Len(objs)
      /\ \A s \in 1..Len(objs) : s \in {sid} => objs'[s] = objs[s]
  BY <1>1, FreedFacts
<1>3. /\ prune' \in [pc : PrunePCs, stale : SUBSET (1..issued)] /\ prune'.pc = "retain"
      /\ overlap' \in BOOLEAN
  BY <1>1 DEF Typed, PrunePCs
<1>4. Typed'
  <2>1. current' \in 0..Len(objs')  BY <1>1, <1>2, SessionFacts DEF None
  <2> QED BY <1>1, <1>2, <1>3, <2>1 DEF Typed
<1>5. Holding'
  <2>1. sid # None => objs'[sid] = objs[sid]  BY <1>1, <1>2, SessionFacts
  <2>2. pc = "map" => sid # None  BY <1>1 DEF Holding, Found
  <2>3. Len(objs') < MaxSessions  BY <1>1, <1>2 DEF Holding
  <2> QED BY <1>1, <1>3, <2>1, <2>2, <2>3 DEF Holding
<1>6. ASSUME ~overlap' PROVE Maps' /\ Message'
  <2>1. Maps /\ pc' \in {"idle", "work"}  BY <1>1, <1>6 DEF Typed
  <2>2. Injective' /\ Displaced'  BY <1>1, <2>1 DEF Maps, Injective, Displaced, Mapped
  <2>3. InSession'  BY <1>3 DEF InSession
  <2> QED BY <2>1, <2>2, <2>3, AtRestNext DEF Maps
<1> QED BY <1>4, <1>5, <1>6 DEF IInv

LEMMA PruneRetainStep == IInv /\ PruneRetain => IInv'
<1> SUFFICES ASSUME IInv, PruneRetain PROVE IInv'  OBVIOUS
<1>1. /\ Typed /\ Holding
      /\ prune.pc = "retain" /\ threadMap' = <<>>
      /\ prune' = [prune EXCEPT !.pc = "undo"]
      /\ overlap' = (overlap \/ pc \in Resolving)
      /\ UNCHANGED <<current, objs, managers, rows, issued>>
      /\ pc' = pc /\ key' = key /\ sid' = sid /\ tid' = tid
  BY DEF IInv, PruneRetain, Overlapping, agent
<1>2. DOMAIN threadMap' = {}  BY <1>1
<1>3. /\ prune' \in [pc : PrunePCs, stale : SUBSET (1..issued)] /\ prune'.pc = "undo"
      /\ overlap' \in BOOLEAN
  BY <1>1 DEF Typed, PrunePCs
<1>4. Typed'  BY <1>1, <1>2, <1>3 DEF Typed
<1>5. Holding'  BY <1>1, <1>3 DEF Holding
<1>6. ASSUME ~overlap' PROVE Maps' /\ Message'
  <2>1. pc' \in {"idle", "work"}  BY <1>1, <1>6 DEF Typed
  <2>2. Maps'  BY <1>2 DEF Maps, Injective, Displaced, InSession
  <2> QED BY <2>1, <2>2, AtRestNext
<1> QED BY <1>4, <1>5, <1>6 DEF IInv

LEMMA TimeStep == IInv /\ TimePasses => IInv'
<1> SUFFICES ASSUME IInv, TimePasses PROVE IInv'  OBVIOUS
<1>1. /\ Typed /\ Holding /\ (~overlap => Maps /\ Message)
      /\ current # None /\ objs' = SetFresh(objs, current, FALSE)
      /\ UNCHANGED <<current, threadMap, managers, rows, issued, agent, prune, overlap>>
      /\ pc' = pc /\ key' = key /\ sid' = sid /\ tid' = tid
  BY DEF IInv, TimePasses, SetFresh, agent
<1>2. current \in 1..Len(objs) /\ objs \in Seq(SessionOf(issued)) /\ issued \in Nat
  BY <1>1, SessionFacts DEF Typed
<1>3. /\ objs' \in Seq(SessionOf(issued)) /\ Len(objs') = Len(objs)
      /\ \A x \in 1..Len(objs) : objs'[x].threads = objs[x].threads
  BY <1>1, <1>2, FreshFacts
<1>4. Typed'  BY <1>1, <1>3 DEF Typed
<1>5. Holding'
  <2>1. sid # None => objs'[sid].threads = objs[sid].threads  BY <1>1, <1>3, SessionFacts
  <2>2. pc = "map" => sid # None  BY <1>1 DEF Holding, Found
  <2> QED BY <1>1, <1>3, <2>1, <2>2 DEF Holding
<1>6. ASSUME ~overlap' PROVE Maps' /\ Message'
  <2>1. Maps /\ Message  BY <1>1, <1>6
  <2>2. objs[current].threads \subseteq objs'[current].threads  BY <1>2, <1>3
  <2> QED BY <1>1, <2>1, <2>2, MapsKept, MessageKept
<1> QED BY <1>4, <1>5, <1>6 DEF IInv

-----------------------------------------------------------------------------
(* The theorems                                                                *)

LEMMA InitIInv == Init => IInv
<1> SUFFICES ASSUME Init PROVE IInv  OBVIOUS
<1>1. /\ current = None /\ objs = <<>> /\ threadMap = <<>>
      /\ managers = {} /\ rows = {} /\ issued = 0
      /\ pc = "idle" /\ key = Chat /\ sid = None /\ tid = None
      /\ prune = [pc |-> "idle", stale |-> {}] /\ overlap = FALSE
  BY DEF Init
<1>2. DOMAIN threadMap = {} /\ Len(objs) = 0 /\ objs \in Seq(SessionOf(issued))  BY <1>1
<1>3. prune \in [pc : PrunePCs, stale : SUBSET (1..issued)]  BY <1>1 DEF PrunePCs
<1>4. Typed
  <2>1. issued \in Nat /\ issued <= MaxThreads /\ Len(objs) <= MaxSessions
    BY <1>1, <1>2, BoundsAssumption
  <2>2. current \in 0..Len(objs) /\ sid \in 0..Len(objs) /\ tid \in 0..issued
    BY <1>1, <1>2 DEF None
  <2>3. DOMAIN threadMap \subseteq {Chat} \cup 1..issued /\ key \in {Chat} \cup 1..issued
    BY <1>1, <1>2
  <2>4. \A k \in DOMAIN threadMap : threadMap[k] \in 1..issued  BY <1>2
  <2> QED BY <1>1, <1>2, <1>3, <2>1, <2>2, <2>3, <2>4 DEF Typed
<1>5. Holding  BY <1>1, <1>2, BoundsAssumption DEF Holding, Found, ByName
<1>6. Maps  BY <1>1, <1>2 DEF Maps, Injective, InSession, Displaced
<1>7. Message
  BY <1>1 DEF Message, Undisturbed, Unknown, Present, Unmapped, Found, Hydrated, Resolving
<1> QED BY <1>4, <1>5, <1>6, <1>7 DEF IInv

LEMMA NextIInv == IInv /\ [Next]_vars => IInv'
<1> SUFFICES ASSUME IInv, [Next]_vars PROVE IInv'  OBVIOUS
<1>1. CASE Agent
  BY <1>1, ReceiveStep, FindSteps, InsertStep, RegisterMapStep, OtherMessageSteps, AdoptStep,
     CreateStep, MapThreadStep, CommandSteps DEF Agent
<1>2. CASE Web  BY <1>2, WebSteps
<1>3. CASE Pruner  BY <1>3, PruneSteps, PruneRemoveStep, PruneRetainStep DEF Pruner
<1>4. CASE TimePasses  BY <1>4, TimeStep
<1>5. CASE UNCHANGED vars
  BY <1>5 DEF vars, store, agent, IInv, Typed, Holding, Maps, Injective, InSession, Displaced,
              Message, Undisturbed, Unknown, Present, Unmapped, Mapped
<1> QED BY <1>1, <1>2, <1>3, <1>4, <1>5 DEF Next

LEMMA Invariant == Spec => []IInv
BY InitIInv, NextIInv, PTL DEF Spec

\* The session manager's maps, the message in hand and the pruning task keep
\* their types; in particular an identifier in a map is one of a thread created
\* before, and no more sessions exist than the bound allows.
THEOREM TypeCorrect == Spec => []TypeOK
<1>1. IInv => TypeOK
  <2> SUFFICES ASSUME IInv PROVE TypeOK  OBVIOUS
  <2>1. /\ issued \in Nat /\ issued <= MaxThreads /\ MaxThreads \in Nat
        /\ DOMAIN threadMap \subseteq {Chat} \cup 1..issued /\ DOMAIN objs = 1..Len(objs)
    BY BoundsAssumption DEF IInv, Typed
  <2>2. DOMAIN threadMap \subseteq Keys
    <3>1. 1..issued \subseteq 1..MaxThreads  BY <2>1
    <3> QED BY <2>1, <3>1 DEF Keys, Tids
  <2> QED BY <2>1, <2>2, SessionFacts DEF IInv, Typed, TypeOK
<1> QED BY <1>1, Invariant, PTL

\* resolve_thread keeps channels apart: as long as pruning does not overlap with
\* the resolution of a message, no thread of the session has two keys.
THEOREM ChannelsIsolated == Spec => []ChannelIsolation
<1>1. IInv => ChannelIsolation  BY DEF IInv, Maps, Injective, ChannelIsolation
<1> QED BY <1>1, Invariant, PTL

\* maybe_hydrate_thread and resolve_thread put a message where it belongs: in a
\* thread of the session it was resolved to, always; and, unless pruning
\* overlapped with its resolution, in the user's session and the thread it names,
\* or else another key had that thread.
THEOREM MessagesLand == Spec => LandsInItsThread
<1> DEFINE Lands ==
      pc' = "work" /\ pc # "work" =>
         /\ tid' \in objs'[sid].threads
         /\ ~overlap =>
              /\ sid = current
              /\ key # Chat /\ tid' # key =>
                   \E k \in DOMAIN threadMap \ {key} : threadMap[k] = key
<1>1. IInv /\ [Next]_vars => [Lands]_vars
  <2> SUFFICES ASSUME IInv, Next, pc' = "work", pc # "work"
               PROVE  /\ tid' \in objs'[sid].threads
                      /\ ~overlap =>
                           /\ sid = current
                           /\ key # Chat /\ tid' # key =>
                                \E k \in DOMAIN threadMap \ {key} : threadMap[k] = key
    OBVIOUS
  <2>1. Lookup \/ Adopt \/ MapThread
    BY DEF Next, Agent, Web, Pruner, Receive, HydrateFind, HydrateLoad, HydrateInsert,
           RegisterMap, RegisterUndo, RegisterSession, ResolveSession, Create, HandleOnThread,
           ProcessNewThread, ProcessSwitchThread, WebNewThread, WebGetSession, PruneScan,
           PruneCollect, PruneRemove, PruneRetain, PruneUndo, TimePasses, Goto, Done, agent
  <2>2. /\ pc \in {"lookup", "adopt", "map"} /\ objs' = objs
        /\ Typed /\ Holding /\ (~overlap => Maps /\ Message)
    BY <2>1 DEF IInv, Lookup, Adopt, MapThread, store
  <2>3. ~overlap => sid = current
    BY <2>2 DEF Message, Undisturbed, Found
  <2>4. CASE Lookup
    <3>1. key \in DOMAIN threadMap /\ threadMap[key] \in objs[sid].threads /\ tid' = threadMap[key]
      BY <2>4 DEF Lookup, Resolved, Goto
    <3>2. ~overlap /\ key # Chat /\ tid' # key =>
            \E k \in DOMAIN threadMap \ {key} : threadMap[k] = key
      BY <2>2, <3>1 DEF Maps, Displaced, Mapped
    <3> QED BY <2>2, <2>3, <3>1, <3>2
  <2>5. CASE Adopt
    <3>1. key \in objs[sid].threads /\ tid' = key  BY <2>5 DEF Adopt, Resolved, Goto
    <3> QED BY <2>2, <2>3, <3>1
  <2>6. CASE MapThread
    <3>1. pc = "map" /\ tid' = tid  BY <2>6 DEF MapThread, Resolved
    <3>2. tid \in objs[sid].threads  BY <2>2, <3>1 DEF Holding
    <3>3. ~overlap /\ key # Chat => \E k \in DOMAIN threadMap \ {key} : threadMap[k] = key
      BY <2>2, <3>1 DEF Message, Unmapped, Mapped
    <3> QED BY <2>2, <2>3, <3>1, <3>2, <3>3
  <2> QED BY <2>1, <2>4, <2>5, <2>6
<1> QED BY <1>1, Invariant, PTL DEF Spec, LandsInItsThread
=============================================================================
