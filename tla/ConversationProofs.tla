-------------------------- MODULE ConversationProofs --------------------------
(* Safety of one conversation, for any number of turns, approval requests and  *)
(* checkpoints.                                                                *)
(*                                                                             *)
(* At says in which state the thread can be at each place of the agent loop,   *)
(* with no claim of auth mode left once a message has been handled.  Requests  *)
(* says that a request that can still be taken, or has been taken, is an       *)
(* issued one and not closed.  Answers, a second layer on top of these, says   *)
(* that it is the one issued last, and that an answer that runs a tool names   *)
(* it or nothing.  Line is the order of the checkpoints that       *)
(* HistoryOrdered states for neighbours, here for any two, with every turn one *)
(* that was started: the turn that is started next is newer than all of them.  *)
EXTENDS Conversation, SequenceTheorems, TLAPS

Settled ==
    /\ thread.state # "Processing"
    /\ thread.state = "AwaitingApproval" => thread.pending # NoRequest

\* The thread at each place of the agent loop.
At ==
    /\ pc \in {"idle", "intercept", "token", "unclaim", "dispatch", "clear"} => Settled
    /\ pc \in {"checkpoint", "prepare"} => Processable(thread) /\ turn < MaxTurns
    /\ pc \in {"loop", "settle", "answer", "continue"} => thread.state = "Processing"
    /\ pc \in {"answer", "continue"} => held # NoRequest
    /\ pc \notin {"token", "unclaim"} => ~thread.inFlight

Requests ==
    /\ closed \subseteq 0..request
    /\ thread.pending <= request /\ held <= request
    /\ thread.state = "AwaitingApproval" => thread.pending \notin closed
    /\ pc \in {"answer", "continue"} => held \notin closed

\* Only turns that were started are in the thread and its checkpoints.
Started ==
    /\ \A i \in DOMAIN thread.turns : thread.turns[i] <= turn
    /\ \A c \in DOMAIN mgr.undo : \A i \in DOMAIN mgr.undo[c] : mgr.undo[c][i] <= turn
    /\ \A c \in DOMAIN mgr.redo : \A i \in DOMAIN mgr.redo[c] : mgr.redo[c][i] <= turn

\* From the oldest checkpoint to the last redo the latest turn gets no older.
Ordered(m, turns) ==
    /\ \A i, k \in DOMAIN m.undo : i <= k => LatestTurn(m.undo[i]) <= LatestTurn(m.undo[k])
    /\ \A i \in DOMAIN m.undo : LatestTurn(m.undo[i]) <= LatestTurn(turns)
    /\ \A i \in DOMAIN m.redo : LatestTurn(turns) <= LatestTurn(m.redo[i])
    /\ \A i, k \in DOMAIN m.redo : i <= k => LatestTurn(m.redo[k]) <= LatestTurn(m.redo[i])

Line ==
    /\ ~inherited /\ pc # "clear" => Ordered(mgr, thread.turns)
    /\ pc = "prepare" => mgr.redo = <<>>

\* Answers has the types of the two variables about what an answer names.
CoreTypes ==
    /\ thread \in ThreadType
    /\ mgr \in [undo : Seq(Seq(Turns)), redo : Seq(Seq(Turns))]
    /\ Len(mgr.undo) <= MaxCheckpoints
    /\ turn \in 0..MaxTurns
    /\ request \in 0..MaxRequests
    /\ pc \in PCs
    /\ held \in 0..MaxRequests
    /\ pruned \in BOOLEAN
    /\ closed \subseteq 0..MaxRequests
    /\ inherited \in BOOLEAN

IInv == CoreTypes /\ At /\ Requests /\ Started /\ Line

-----------------------------------------------------------------------------
(* What the methods of a thread do                                             *)

\* The fields of a thread after a change of three of them; its turns stay.
Fields(t, u, state, pending, inFlight) ==
    /\ u \in ThreadType /\ u.turns = t.turns
    /\ u.state = state /\ u.pending = pending /\ u.inFlight = inFlight

LEMMA ThreadOps ==
    ASSUME NEW t \in ThreadType
    PROVE  /\ Fields(t, t, t.state, t.pending, t.inFlight)
           /\ Fields(t, EndTurn(t), "Idle", t.pending, t.inFlight)
           /\ \A r \in 0..MaxRequests :
                Fields(t, AwaitApproval(t, r), "AwaitingApproval", r, t.inFlight)
           /\ Fields(t, TakePending(t), "Processing", NoRequest, t.inFlight)
           /\ Fields(t, ClearPendingApproval(t), "Idle", NoRequest, t.inFlight)
           /\ Fields(t, EnterAuthMode(t), t.state, t.pending, t.inFlight)
           /\ Fields(t, Interrupt(t), "Interrupted", t.pending, t.inFlight)
           /\ Fields(t, [t EXCEPT !.auth = FALSE], t.state, t.pending, t.inFlight)
           /\ Fields(t, [t EXCEPT !.inFlight = TRUE], t.state, t.pending, TRUE)
           /\ Fields(t, [t EXCEPT !.inFlight = FALSE], t.state, t.pending, FALSE)
           /\ Fields(t, [t EXCEPT !.inFlight = FALSE, !.auth = FALSE], t.state, t.pending, FALSE)
           /\ Fields(t, [ClearPendingApproval(t) EXCEPT !.auth = FALSE], "Idle", NoRequest, t.inFlight)
<1>1. NoRequest \in 0..MaxRequests  BY BoundsAssumption DEF NoRequest
<1>2. Fields(t, t, t.state, t.pending, t.inFlight)
  BY DEF Fields
<1>3. Fields(t, EndTurn(t), "Idle", t.pending, t.inFlight)
  BY DEF Fields, ThreadType, ThreadStates, EndTurn
<1>4. \A r \in 0..MaxRequests :
         Fields(t, AwaitApproval(t, r), "AwaitingApproval", r, t.inFlight)
  BY DEF Fields, ThreadType, ThreadStates, AwaitApproval
<1>5. /\ Fields(t, TakePending(t), "Processing", NoRequest, t.inFlight)
      /\ Fields(t, ClearPendingApproval(t), "Idle", NoRequest, t.inFlight)
  BY <1>1 DEF Fields, ThreadType, ThreadStates, TakePending, ClearPendingApproval
<1>6. Fields(t, EnterAuthMode(t), t.state, t.pending, t.inFlight)
  BY DEF Fields, ThreadType, ThreadStates, EnterAuthMode
<1>7. Fields(t, Interrupt(t), "Interrupted", t.pending, t.inFlight)
  BY DEF Fields, ThreadType, ThreadStates, Interrupt
<1>8. Fields(t, [t EXCEPT !.auth = FALSE], t.state, t.pending, t.inFlight)
  BY DEF Fields, ThreadType, ThreadStates
<1>9. /\ Fields(t, [t EXCEPT !.inFlight = TRUE], t.state, t.pending, TRUE)
      /\ Fields(t, [t EXCEPT !.inFlight = FALSE], t.state, t.pending, FALSE)
      /\ Fields(t, [t EXCEPT !.inFlight = FALSE, !.auth = FALSE], t.state, t.pending, FALSE)
  BY DEF Fields, ThreadType, ThreadStates
<1>10. Fields(t, [ClearPendingApproval(t) EXCEPT !.auth = FALSE], "Idle", NoRequest, t.inFlight)
  BY <1>1 DEF Fields, ThreadType, ThreadStates, ClearPendingApproval
<1> QED BY <1>2, <1>3, <1>4, <1>5, <1>6, <1>7, <1>8, <1>9, <1>10

\* A thread whose turns are replaced.
LEMMA TurnOps ==
    ASSUME NEW t \in ThreadType
    PROVE  /\ NewThread \in ThreadType /\ NewThread.turns = <<>> /\ NewThread.state = "Idle"
              /\ NewThread.pending = NoRequest /\ NewThread.inFlight = FALSE
           /\ \A turns \in Seq(Turns) :
                LET u == RestoreFromMessages(t, turns)
                IN  /\ u \in ThreadType /\ u.turns = turns /\ u.state = "Idle"
                    /\ u.pending = t.pending /\ u.inFlight = t.inFlight
           /\ \A n \in Turns :
                LET u == StartTurn(t, n)
                IN  /\ u \in ThreadType /\ u.turns = Append(t.turns, n)
                    /\ u.state = "Processing"
                    /\ u.pending = t.pending /\ u.inFlight = t.inFlight
           /\ \A keep \in 1..Len(t.turns) :
                LET u == TruncateTurns(t, keep)
                IN  /\ u \in ThreadType /\ u.state = t.state
                    /\ u.turns = SubSeq(t.turns, Len(t.turns) - keep + 1, Len(t.turns))
                    /\ u.pending = t.pending /\ u.inFlight = t.inFlight
<1>1. /\ NewThread \in ThreadType /\ NewThread.turns = <<>> /\ NewThread.state = "Idle"
      /\ NewThread.pending = NoRequest /\ NewThread.inFlight = FALSE
  BY BoundsAssumption DEF NewThread, ThreadType, ThreadStates, NoRequest
<1>2. ASSUME NEW turns \in Seq(Turns)
      PROVE  LET u == RestoreFromMessages(t, turns)
             IN  /\ u \in ThreadType /\ u.turns = turns /\ u.state = "Idle"
                 /\ u.pending = t.pending /\ u.inFlight = t.inFlight
  BY DEF RestoreFromMessages, ThreadType, ThreadStates
<1>3. ASSUME NEW n \in Turns
      PROVE  LET u == StartTurn(t, n)
             IN  /\ u \in ThreadType /\ u.turns = Append(t.turns, n)
                 /\ u.state = "Processing"
                 /\ u.pending = t.pending /\ u.inFlight = t.inFlight
  <2>1. t.turns \in Seq(Turns)  BY DEF ThreadType
  <2>2. Append(t.turns, n) \in Seq(Turns)  BY <2>1, AppendProperties
  <2> QED BY <2>2 DEF StartTurn, ThreadType, ThreadStates
<1>4. ASSUME NEW keep \in 1..Len(t.turns)
      PROVE  LET u == TruncateTurns(t, keep)
             IN  /\ u \in ThreadType /\ u.state = t.state
                 /\ u.turns = SubSeq(t.turns, Len(t.turns) - keep + 1, Len(t.turns))
                 /\ u.pending = t.pending /\ u.inFlight = t.inFlight
  <2>1. t.turns \in Seq(Turns)  BY DEF ThreadType
  <2>2. SubSeq(t.turns, Len(t.turns) - keep + 1, Len(t.turns)) \in Seq(Turns)
    BY <2>1, SubSeqProperties
  <2> QED BY <2>2 DEF TruncateTurns, ThreadType, ThreadStates
<1> QED BY <1>1, <1>2, <1>3, <1>4

-----------------------------------------------------------------------------
(* Requests                                                                    *)

LEMMA RequestTypes ==
    ASSUME IInv
    PROVE  /\ thread \in ThreadType /\ MaxRequests \in Nat /\ MaxTurns \in Nat
           /\ request \in Nat /\ request <= MaxRequests /\ turn \in Nat /\ turn <= MaxTurns
           /\ thread.pending \in Nat /\ held \in Nat /\ NoRequest \in Nat
           /\ thread.pending <= request /\ held <= request /\ NoRequest <= request
           /\ thread.turns \in Seq(Turns) /\ thread.state \in ThreadStates
<1>1. thread \in ThreadType /\ request \in 0..MaxRequests /\ held \in 0..MaxRequests
      /\ turn \in 0..MaxTurns
  BY DEF IInv, CoreTypes
<1>2. thread.pending \in 0..MaxRequests /\ thread.turns \in Seq(Turns)
      /\ thread.state \in ThreadStates
  BY <1>1 DEF ThreadType
<1>3. MaxRequests \in Nat /\ MaxTurns \in Nat  BY BoundsAssumption
<1>4. thread.pending <= request /\ held <= request  BY DEF IInv, Requests
<1> QED BY <1>1, <1>2, <1>3, <1>4 DEF NoRequest

\* A step after which no request can be taken or is held.
LEMMA RequestsClose ==
    ASSUME IInv, closed' \subseteq closed \cup {thread.pending, held},
           request' \in Nat, request' >= request, thread'.state # "AwaitingApproval",
           thread'.pending \in {thread.pending, NoRequest}, held' \in {held, NoRequest},
           pc' \notin {"answer", "continue"}
    PROVE  Requests'
<1>1. closed \subseteq 0..request  BY DEF IInv, Requests
<1>2. closed' \subseteq 0..request'  BY <1>1, RequestTypes
<1>3. thread'.pending <= request' /\ held' <= request'  BY RequestTypes
<1> QED BY <1>2, <1>3 DEF Requests

\* A step that leaves the requests as they are.
LEMMA RequestsFrame ==
    ASSUME IInv, UNCHANGED <<closed, request>>, thread'.state = thread.state,
           thread'.pending = thread.pending, held' \in {held, NoRequest},
           pc' \in {"answer", "continue"} => pc \in {"answer", "continue"} /\ held' = held
    PROVE  Requests'
<1>1. held' <= request  BY RequestTypes
<1> QED BY <1>1 DEF IInv, Requests

-----------------------------------------------------------------------------
(* Steps that leave the undo manager and the latest turn alone                 *)

\* They also leave "clear" only for "clear", and do not enter "prepare".
LEMMA SameLine ==
    ASSUME IInv, At', Requests', thread' \in ThreadType,
           LatestTurn(thread'.turns) = LatestTurn(thread.turns),
           \A i \in DOMAIN thread'.turns : thread'.turns[i] <= turn,
           UNCHANGED <<mgr, turn, inherited>>, request' \in 0..MaxRequests,
           pc' \in PCs, held' \in Nat, pruned' \in BOOLEAN,
           pc = "clear" => pc' = "clear", pc' = "prepare" => pc = "prepare"
    PROVE  IInv'
<1>1. MaxRequests \in Nat  BY BoundsAssumption
<1>2. closed' \subseteq 0..request' /\ held' <= request'  BY DEF Requests
<1>3. closed' \subseteq 0..MaxRequests /\ held' \in 0..MaxRequests  BY <1>1, <1>2
<1>4. CoreTypes'  BY <1>3 DEF IInv, CoreTypes
<1>5. Started'  BY DEF IInv, Started
<1>6. ~inherited /\ pc # "clear" => Ordered(mgr, thread.turns)  BY DEF IInv, Line
<1>7. ~inherited' /\ pc' # "clear" => Ordered(mgr, thread'.turns)
  BY <1>6 DEF Ordered
<1>8. Line'  BY <1>7 DEF IInv, Line
<1> QED BY <1>4, <1>5, <1>8 DEF IInv

\* A step that changes the thread's state, request or claim and not its turns.
LEMMA SameTurns ==
    ASSUME IInv, At', Requests',
           NEW state, NEW pending, NEW inFlight, Fields(thread, thread', state, pending, inFlight),
           UNCHANGED <<mgr, turn, inherited>>, request' \in 0..MaxRequests,
           pc' \in PCs, held' \in Nat, pruned' \in BOOLEAN,
           pc = "clear" => pc' = "clear", pc' = "prepare" => pc = "prepare"
    PROVE  IInv'
<1>1. thread' \in ThreadType /\ thread'.turns = thread.turns  BY DEF Fields
<1>2. LatestTurn(thread'.turns) = LatestTurn(thread.turns)  BY <1>1
<1>3. \A i \in DOMAIN thread'.turns : thread'.turns[i] <= turn  BY <1>1 DEF IInv, Started
<1> QED BY <1>1, <1>2, <1>3, SameLine

\* Either compaction, the automatic one or the commanded one.
Compacts ==
    NoUpdate \/ \E keep \in 1..Len(thread.turns) : OnThread(TruncateTurns(thread, keep))

\* A compaction keeps the latest turn.
LEMMA Compacted ==
    ASSUME IInv, Compacts
    PROVE  /\ thread' \in ThreadType /\ thread'.state = thread.state
           /\ thread'.pending = thread.pending /\ thread'.inFlight = thread.inFlight
           /\ LatestTurn(thread'.turns) = LatestTurn(thread.turns)
           /\ \A i \in DOMAIN thread'.turns : thread'.turns[i] <= turn
           /\ UNCHANGED <<mgr, turn, request, closed, inherited>>
<1>1. /\ thread \in ThreadType /\ thread.turns \in Seq(Turns)
      /\ \A i \in DOMAIN thread.turns : thread.turns[i] <= turn
  BY RequestTypes DEF IInv, Started
<1>2. CASE NoUpdate
  BY <1>1, <1>2 DEF NoUpdate, history
<1>3. ASSUME NEW keep \in 1..Len(thread.turns), OnThread(TruncateTurns(thread, keep))
      PROVE  /\ thread' \in ThreadType /\ thread'.state = thread.state
             /\ thread'.pending = thread.pending /\ thread'.inFlight = thread.inFlight
             /\ LatestTurn(thread'.turns) = LatestTurn(thread.turns)
             /\ \A i \in DOMAIN thread'.turns : thread'.turns[i] <= turn
             /\ UNCHANGED <<mgr, turn, request, closed, inherited>>
  <2> DEFINE t == thread.turns
  <2>1. /\ thread' = TruncateTurns(thread, keep) /\ UNCHANGED <<mgr, turn, request, inherited>>
        /\ closed' = closed \cup
             IF thread.state = "AwaitingApproval" /\ thread'.state \in {"Idle", "Interrupted"}
             THEN {thread.pending} ELSE {}
    BY <1>3 DEF OnThread, UpdateThread
  <2>2. /\ thread' \in ThreadType /\ thread'.state = thread.state
        /\ thread'.pending = thread.pending /\ thread'.inFlight = thread.inFlight
        /\ thread'.turns = SubSeq(t, Len(t) - keep + 1, Len(t))
    BY <1>1, <1>3, <2>1, TurnOps
  <2>3. closed' = closed  BY <2>1, <2>2
  <2>4. /\ Len(t) \in Nat /\ keep \in Nat /\ keep >= 1 /\ keep <= Len(t)
        /\ t \in Seq(Turns) /\ DOMAIN t = 1..Len(t)
    BY <1>1, <1>3
  <2> HIDE DEF t
  <2> DEFINE m == Len(t) - keep + 1
             u == SubSeq(t, m, Len(t))
  <2>5. /\ u \in Seq(Turns) /\ Len(u) = keep /\ DOMAIN u = 1..keep /\ u # <<>>
        /\ \A i \in 1..keep : u[i] = t[Len(t) - keep + i]
    <3>1. m \in Int /\ Len(t) \in Int /\ m >= 1 /\ m <= Len(t)  BY <2>4
    <3>2. \A i \in m..Len(t) : t[i] \in Turns  BY <2>4, <3>1
    <3> HIDE DEF m
    <3>3. /\ SubSeq(t, m, Len(t)) \in Seq(Turns)
          /\ Len(SubSeq(t, m, Len(t))) = IF m <= Len(t) THEN Len(t) - m + 1 ELSE 0
          /\ \A i \in 1..(Len(t) - m + 1) : SubSeq(t, m, Len(t))[i] = t[m + i - 1]
      BY <3>1, <3>2, SubSeqProperties
    <3> HIDE DEF u
    <3>4. /\ u \in Seq(Turns) /\ Len(u) = Len(t) - m + 1
          /\ \A i \in 1..(Len(t) - m + 1) : u[i] = t[m + i - 1]
      BY <3>1, <3>3 DEF u
    <3>5. Len(u) = keep /\ \A i \in 1..keep : u[i] = t[Len(t) - keep + i]
      BY <2>4, <3>4 DEF m
    <3> QED BY <2>4, <3>4, <3>5
  <2>6. LatestTurn(thread'.turns) = LatestTurn(t)
    <3>1. thread'.turns = u  BY <2>2
    <3> HIDE DEF u, m
    <3>2. u[keep] = t[Len(t)]  BY <2>4, <2>5
    <3>3. t # <<>>  BY <2>4
    <3> QED BY <2>5, <3>1, <3>2, <3>3 DEF LatestTurn, Last
  <2>7. \A i \in DOMAIN thread'.turns : thread'.turns[i] <= turn
    <3>1. \A i \in DOMAIN t : t[i] <= turn  BY <1>1 DEF t
    <3>2. \A i \in 1..keep : Len(t) - keep + i \in DOMAIN t  BY <2>4
    <3> QED BY <2>2, <2>5, <3>1, <3>2
  <2> QED BY <2>1, <2>2, <2>3, <2>6, <2>7 DEF t
<1> QED BY <1>2, <1>3 DEF Compacts

\* What an update under the session's lock does to the requests.
LEMMA Updated ==
    ASSUME NEW th, OnThread(th)
    PROVE  /\ thread' = th /\ UNCHANGED <<mgr, turn, request, inherited>>
           /\ closed' \subseteq closed \cup {thread.pending}
           /\ thread.state # "AwaitingApproval" \/ th.state \notin {"Idle", "Interrupted"}
                => closed' = closed
BY DEF OnThread, UpdateThread

-----------------------------------------------------------------------------
(* Actions that leave the thread as it is                                      *)

LEMMA QuietSteps ==
    ASSUME IInv, UNCHANGED <<thread, mgr, turn, request, closed, inherited>>,
           pc' \in PCs, pruned' \in BOOLEAN,
           held' = held \/ (held' = NoRequest /\ pc' = "idle"),
           \/ pc' = pc
           \/ pc = "idle" /\ pc' = "intercept"
           \/ pc = "intercept" /\ pc' = "dispatch"
           \/ pc = "token" /\ pc' = "unclaim"
           \/ pc = "dispatch" /\ pc' = "idle"
           \/ pc = "dispatch" /\ pc' = "checkpoint" /\ Processable(thread) /\ turn < MaxTurns
           \/ pc = "prepare" /\ pc' = "idle"
           \/ pc = "answer" /\ pc' = "continue"
    PROVE  IInv'
<1>1. At  BY DEF IInv
<1>2. At'  BY <1>1 DEF At, Settled, Processable, PCs
<1>3. Requests'  BY RequestsFrame
<1>4. Fields(thread, thread', thread.state, thread.pending, thread.inFlight)
  BY RequestTypes, ThreadOps
<1>5. request' \in 0..MaxRequests /\ held' \in Nat  BY RequestTypes DEF IInv, CoreTypes
<1> QED BY <1>2, <1>3, <1>4, <1>5, SameTurns

LEMMA IdleSteps ==
    ASSUME IInv, Receive \/ NotClaimed \/ LeaveThread \/ IgnoreStaleAnswer \/ ExecuteTool
                 \/ PruneSession
    PROVE  IInv'
<1>1. UNCHANGED <<thread, mgr, turn, request, closed, inherited>>
  BY DEF Receive, NotClaimed, LeaveThread, IgnoreStaleAnswer, ExecuteTool, PruneSession,
         NoUpdate, history
<1>2. pruned \in BOOLEAN /\ pc \in PCs  BY DEF IInv, CoreTypes
<1>3. CASE Receive
  <2>1. pc = "idle" /\ pc' = "intercept" /\ pc' \in PCs /\ held' = held /\ pruned' \in BOOLEAN
    BY <1>2, <1>3 DEF Receive, Goto, PCs
  <2> QED BY <1>1, <1>2, <2>1, QuietSteps
<1>4. CASE NotClaimed
  <2>1. pc = "intercept" /\ pc' = "dispatch" /\ pc' \in PCs /\ held' = held /\ pruned' \in BOOLEAN
    BY <1>2, <1>4 DEF NotClaimed, Goto, PCs
  <2> QED BY <1>1, <1>2, <2>1, QuietSteps
<1>5. CASE LeaveThread \/ IgnoreStaleAnswer
  <2>1. pc = "dispatch" /\ pc' = "idle" /\ pc' \in PCs /\ held' = NoRequest /\ pruned' \in BOOLEAN
    BY <1>2, <1>5 DEF LeaveThread, IgnoreStaleAnswer, Done, PCs
  <2> QED BY <1>1, <1>2, <2>1, QuietSteps
<1>6. CASE ExecuteTool
  <2>1. pc = "answer" /\ pc' = "continue" /\ pc' \in PCs /\ held' = held /\ pruned' \in BOOLEAN
    BY <1>2, <1>6 DEF ExecuteTool, Goto, PCs
  <2> QED BY <1>1, <1>2, <2>1, QuietSteps
<1>7. CASE PruneSession
  <2>1. pc' = pc /\ held' = held /\ pruned' \in BOOLEAN  BY <1>7 DEF PruneSession
  <2> QED BY <1>1, <1>2, <2>1, QuietSteps
<1> QED BY <1>3, <1>4, <1>5, <1>6, <1>7

\* Compacting, or refusing, before a turn; and the command to compact.
LEMMA CompactSteps ==
    ASSUME IInv, CheckInput \/ ProcessCompact
    PROVE  IInv'
<1>1. pruned \in BOOLEAN /\ pc \in PCs /\ pc = "dispatch" /\ At
  BY DEF IInv, CoreTypes, CheckInput, ProcessCompact
<1>2. CASE Done /\ NoUpdate
  <2>1. pc' = "idle" /\ pc' \in PCs /\ held' = NoRequest /\ UNCHANGED pruned
    BY <1>2 DEF Done, PCs
  <2>2. UNCHANGED <<thread, mgr, turn, request, closed, inherited>>
    BY <1>2 DEF NoUpdate, history
  <2> QED BY <1>1, <2>1, <2>2, QuietSteps
<1>3. CASE Compacts /\ (Done \/ (Processable(thread) /\ turn < MaxTurns /\ Goto("checkpoint")))
  <2>1. /\ thread' \in ThreadType /\ thread'.state = thread.state
        /\ thread'.pending = thread.pending /\ thread'.inFlight = thread.inFlight
        /\ LatestTurn(thread'.turns) = LatestTurn(thread.turns)
        /\ \A i \in DOMAIN thread'.turns : thread'.turns[i] <= turn
        /\ UNCHANGED <<mgr, turn, request, closed, inherited>>
    BY <1>3, Compacted
  <2>2. /\ pc' \in {"idle", "checkpoint"} /\ held' \in {held, NoRequest} /\ pruned' = pruned
        /\ pc' = "checkpoint" => Processable(thread) /\ turn < MaxTurns
    BY <1>3 DEF Done, Goto
  <2>3. At'  BY <1>1, <2>1, <2>2 DEF At, Settled, Processable
  <2>4. Requests'  BY <2>1, <2>2, RequestsFrame
  <2>5. request' \in 0..MaxRequests /\ held' \in Nat /\ pruned' \in BOOLEAN /\ pc' \in PCs
    BY <1>1, <2>1, <2>2, RequestTypes DEF IInv, CoreTypes, PCs
  <2> QED BY <1>1, <2>1, <2>2, <2>3, <2>4, <2>5, SameLine
<1>4. AutoCompact => Compacts  BY DEF AutoCompact, Compacts
<1>5. ASSUME ProcessCompact PROVE Compacts /\ Done
  <2>1. thread.turns \in Seq(Turns)  BY RequestTypes
  <2>2. 1..(Len(thread.turns) - 1) \subseteq 1..Len(thread.turns)  BY <2>1
  <2> QED BY <1>5, <2>2 DEF ProcessCompact, Compacts
<1> QED BY <1>2, <1>3, <1>4, <1>5 DEF CheckInput

-----------------------------------------------------------------------------
(* Auth mode                                                                   *)

\* A step of the handling of auth mode: the request stays, or is given up.
LEMMA AuthStep ==
    ASSUME IInv, NEW state, NEW pending, NEW inFlight,
           Fields(thread, thread', state, pending, inFlight),
           UNCHANGED <<mgr, turn, request, inherited, pruned>>,
           closed' \subseteq closed \cup {thread.pending},
           \/ state = thread.state /\ pending = thread.pending /\ closed' = closed
           \/ state = "Idle" /\ pending = NoRequest,
           held' \in {held, NoRequest},
           \/ pc = "intercept" /\ pc' = "token"
           \/ pc = "intercept" /\ pc' = "dispatch" /\ inFlight = FALSE
           \/ pc = "token" /\ pc' = "unclaim"
           \/ pc = "unclaim" /\ pc' = "idle" /\ inFlight = FALSE
           \/ pc' = pc /\ inFlight = thread.inFlight /\ state = thread.state /\ held' = held
    PROVE  IInv'
<1>1. /\ thread'.state = state /\ thread'.pending = pending /\ thread'.inFlight = inFlight
  BY DEF Fields
<1>2. At /\ pc \in PCs /\ pruned \in BOOLEAN  BY DEF IInv, CoreTypes
<1>3. At'
  <2>1. CASE pc' = pc /\ inFlight = thread.inFlight /\ state = thread.state /\ held' = held
    <3>1. thread.state = "AwaitingApproval" => pending = thread.pending  BY <2>1
    <3> QED BY <1>1, <1>2, <2>1, <3>1 DEF At, Settled, Processable
  <2>2. CASE pc \in {"intercept", "token", "unclaim"} /\ pc' \in {"token", "dispatch", "unclaim", "idle"}
             /\ (pc' \notin {"token", "unclaim"} => inFlight = FALSE)
    <3>1. Settled  BY <1>2, <2>2 DEF At
    <3>2. Settled'  BY <1>1, <3>1 DEF Settled
    <3>3. pc' \notin {"token", "unclaim"} => ~thread'.inFlight  BY <1>1, <2>2
    <3> QED BY <2>2, <3>2, <3>3 DEF At
  <2> QED BY <2>1, <2>2
<1>4. Requests'
  <2>1. CASE state = thread.state /\ pending = thread.pending /\ closed' = closed
    BY <1>1, <2>1, RequestsFrame
  <2>2. CASE state = "Idle" /\ pending = NoRequest
    <3>1. pc' \notin {"answer", "continue"}
      BY <1>2, <2>2 DEF At
    <3> QED BY <1>1, <2>2, <3>1, RequestTypes, RequestsClose
  <2> QED BY <2>1, <2>2
<1>5. request' \in 0..MaxRequests /\ held' \in Nat /\ pruned' \in BOOLEAN
  BY <1>2, RequestTypes DEF IInv, CoreTypes
<1>6. pc' \in PCs  BY <1>2 DEF PCs
<1> QED BY <1>3, <1>4, <1>5, <1>6, SameTurns

\* An update that leaves the thread's state alone closes no request.
LEMMA SameState ==
    ASSUME NEW th, OnThread(th), NEW inFlight,
           Fields(thread, th, thread.state, thread.pending, inFlight)
    PROVE  /\ Fields(thread, thread', thread.state, thread.pending, inFlight)
           /\ closed' = closed /\ UNCHANGED <<mgr, turn, request, inherited>>
<1>1. th.state = thread.state  BY DEF Fields
<1>2. thread' = th /\ closed' = closed /\ UNCHANGED <<mgr, turn, request, inherited>>
  BY <1>1, Updated
<1> QED BY <1>2

LEMMA AuthSteps ==
    ASSUME IInv, ClaimToken \/ ControlEndsAuth \/ ProcessAuthToken \/ Unclaim \/ WebClearAuth
    PROVE  IInv'
<1>1. thread \in ThreadType /\ pruned \in BOOLEAN  BY DEF IInv, CoreTypes
<1>2. CASE ClaimToken
  <2>1. /\ OnThread([thread EXCEPT !.inFlight = TRUE])
        /\ pc = "intercept" /\ pc' = "token" /\ UNCHANGED <<held, pruned>>
    BY <1>2 DEF ClaimToken, Goto
  <2>2. /\ Fields(thread, thread', thread.state, thread.pending, TRUE)
        /\ closed' = closed /\ UNCHANGED <<mgr, turn, request, inherited>>
    BY <1>1, <2>1, ThreadOps, SameState
  <2> QED BY <2>1, <2>2, AuthStep
<1>3. CASE ControlEndsAuth
  <2>1. /\ OnThread([thread EXCEPT !.inFlight = FALSE, !.auth = FALSE])
        /\ pc = "intercept" /\ pc' = "dispatch" /\ UNCHANGED <<held, pruned>>
    BY <1>3 DEF ControlEndsAuth, Goto
  <2>2. /\ Fields(thread, thread', thread.state, thread.pending, FALSE)
        /\ closed' = closed /\ UNCHANGED <<mgr, turn, request, inherited>>
    BY <1>1, <2>1, ThreadOps, SameState
  <2> QED BY <2>1, <2>2, AuthStep
<1>4. CASE Unclaim
  <2>1. /\ OnThread([thread EXCEPT !.inFlight = FALSE])
        /\ pc = "unclaim" /\ pc' = "idle" /\ held' = NoRequest /\ UNCHANGED pruned
    BY <1>4 DEF Unclaim, Done
  <2>2. /\ Fields(thread, thread', thread.state, thread.pending, FALSE)
        /\ closed' = closed /\ UNCHANGED <<mgr, turn, request, inherited>>
    BY <1>1, <2>1, ThreadOps, SameState
  <2> QED BY <2>1, <2>2, AuthStep
<1>5. CASE WebClearAuth
  <2>1. OnThread([thread EXCEPT !.auth = FALSE]) /\ UNCHANGED <<pc, held, pruned>>
    BY <1>5 DEF WebClearAuth
  <2>2. /\ Fields(thread, thread', thread.state, thread.pending, thread.inFlight)
        /\ closed' = closed /\ UNCHANGED <<mgr, turn, request, inherited>>
    BY <1>1, <2>1, ThreadOps, SameState
  <2> QED BY <2>1, <2>2, AuthStep
<1>6. CASE ProcessAuthToken
  <2>1. pc = "token" /\ pc' = "unclaim" /\ UNCHANGED <<held, pruned>>
    BY <1>6 DEF ProcessAuthToken, Goto
  <2>2. CASE OnThread([ClearPendingApproval(thread) EXCEPT !.auth = FALSE])
    <3>1. /\ thread' = [ClearPendingApproval(thread) EXCEPT !.auth = FALSE]
          /\ UNCHANGED <<mgr, turn, request, inherited>>
          /\ closed' \subseteq closed \cup {thread.pending}
      BY <2>2, Updated
    <3>2. Fields(thread, thread', "Idle", NoRequest, thread.inFlight)
      BY <1>1, <3>1, ThreadOps
    <3> QED BY <2>1, <3>1, <3>2, AuthStep
  <2>3. CASE OnThread(EnterAuthMode(thread))
    <3>1. /\ Fields(thread, thread', thread.state, thread.pending, thread.inFlight)
          /\ closed' = closed /\ UNCHANGED <<mgr, turn, request, inherited>>
      BY <1>1, <2>3, ThreadOps, SameState
    <3> QED BY <2>1, <3>1, AuthStep
  <2>4. CASE NoUpdate
    <3>1. UNCHANGED <<thread, mgr, turn, request, closed, inherited>>
      BY <2>4 DEF NoUpdate, history
    <3>2. pc' \in PCs /\ held' = held /\ pruned' \in BOOLEAN  BY <1>1, <2>1 DEF PCs
    <3> QED BY <2>1, <3>1, <3>2, QuietSteps
  <2> QED BY <1>6, <2>2, <2>3, <2>4 DEF ProcessAuthToken
<1> QED BY <1>2, <1>3, <1>4, <1>5, <1>6

-----------------------------------------------------------------------------
(* The agentic loop, approvals and interruption                                *)

\* A step that ends the message, or goes on to "settle" or "loop", with a thread
\* that awaits nothing.
LEMMA RestStep ==
    ASSUME IInv, NEW state, NEW pending, Fields(thread, thread', state, pending, thread.inFlight),
           UNCHANGED <<mgr, turn, request, inherited, pruned>>,
           closed' \subseteq closed \cup {thread.pending, held},
           state # "AwaitingApproval", pending \in {thread.pending, NoRequest},
           held' \in {held, NoRequest}, pc \in {"loop", "settle", "answer", "continue", "dispatch"},
           \/ pc' = "idle" /\ state # "Processing"
           \/ pc' \in {"loop", "settle"} /\ state = "Processing"
    PROVE  IInv'
<1>1. thread'.state = state /\ thread'.pending = pending /\ thread'.inFlight = thread.inFlight
  BY DEF Fields
<1>2. At /\ pruned \in BOOLEAN  BY DEF IInv, CoreTypes
<1>3. At'  BY <1>1, <1>2 DEF At, Settled
<1>4. request \in Nat /\ held \in Nat /\ NoRequest \in Nat  BY RequestTypes
<1>5. Requests'  BY <1>1, <1>4, RequestsClose
<1>6. request' \in 0..MaxRequests /\ held' \in Nat /\ pruned' \in BOOLEAN
  BY <1>2, <1>4 DEF IInv, CoreTypes
<1>7. pc' \in PCs /\ pc # "clear" /\ pc' # "prepare"  BY DEF PCs
<1> QED BY <1>3, <1>5, <1>6, <1>7, SameTurns

LEMMA LoopSteps ==
    ASSUME IInv, LoopEntersAuth \/ LoopResponds \/ RejectTool \/ ContinueLoop \/ ProcessInterrupt
    PROVE  IInv'
<1>1. thread \in ThreadType /\ At  BY DEF IInv, CoreTypes
<1>2. CASE LoopEntersAuth
  <2>1. /\ OnThread(EnterAuthMode(thread)) /\ pc = "loop" /\ pc' = "settle"
        /\ held' = held /\ pruned' = pruned
    BY <1>2 DEF LoopEntersAuth, Goto
  <2>2. /\ Fields(thread, thread', thread.state, thread.pending, thread.inFlight)
        /\ closed' = closed /\ UNCHANGED <<mgr, turn, request, inherited>>
    BY <1>1, <2>1, ThreadOps, SameState
  <2>3. thread.state = "Processing"  BY <1>1, <2>1 DEF At
  <2> QED BY <2>1, <2>2, <2>3, RestStep
<1>3. CASE LoopResponds
  <2>1. /\ OnThread(IF thread.state = "Interrupted" THEN thread ELSE EndTurn(thread))
        /\ pc \in {"loop", "settle"} /\ pc' = "idle" /\ held' = NoRequest /\ pruned' = pruned
    BY <1>3 DEF LoopResponds, Done
  <2>2. thread.state = "Processing"  BY <1>1, <2>1 DEF At
  <2>3. /\ thread' = EndTurn(thread) /\ UNCHANGED <<mgr, turn, request, inherited>>
        /\ closed' \subseteq closed \cup {thread.pending}
    BY <2>1, <2>2, Updated
  <2>4. Fields(thread, thread', "Idle", thread.pending, thread.inFlight)
    BY <1>1, <2>3, ThreadOps
  <2> QED BY <2>1, <2>3, <2>4, RestStep
<1>4. CASE RejectTool
  <2>1. /\ thread' = EndTurn(ClearPendingApproval(thread)) /\ closed' = closed \cup {held}
        /\ pc = "answer" /\ pc' = "idle" /\ held' = NoRequest /\ pruned' = pruned
        /\ UNCHANGED <<mgr, turn, request, inherited>>
    BY <1>4 DEF RejectTool, Done
  <2> DEFINE u == ClearPendingApproval(thread)
  <2>2. Fields(thread, u, "Idle", NoRequest, thread.inFlight)  BY <1>1, ThreadOps
  <2>3. u \in ThreadType  BY <2>2 DEF Fields
  <2>4. Fields(u, EndTurn(u), "Idle", u.pending, u.inFlight)  BY <2>3, ThreadOps
  <2> HIDE DEF u
  <2>5. Fields(thread, thread', "Idle", NoRequest, thread.inFlight)
    BY <2>1, <2>2, <2>4 DEF Fields, u
  <2> QED BY <2>1, <2>5, RestStep
<1>5. CASE ContinueLoop
  <2>1. /\ UNCHANGED <<thread, mgr, turn, request, inherited>> /\ closed' = closed \cup {held}
        /\ pc = "continue" /\ pc' = "loop" /\ held' = held /\ pruned' = pruned
    BY <1>5 DEF ContinueLoop, Goto
  <2>2. thread.state = "Processing"  BY <1>1, <2>1 DEF At
  <2>3. Fields(thread, thread', thread.state, thread.pending, thread.inFlight)
    BY <1>1, <2>1, ThreadOps
  <2> QED BY <2>1, <2>2, <2>3, RestStep
<1>6. CASE ProcessInterrupt
  <2>1. /\ OnThread(IF thread.state \in {"Processing", "AwaitingApproval"}
                    THEN Interrupt(thread) ELSE thread)
        /\ pc = "dispatch" /\ pc' = "idle" /\ held' = NoRequest /\ pruned' = pruned
    BY <1>6 DEF ProcessInterrupt, Done
  <2>2. thread.state # "Processing"  BY <1>1, <2>1 DEF At, Settled
  <2>3. CASE thread.state = "AwaitingApproval"
    <3>1. /\ thread' = Interrupt(thread) /\ UNCHANGED <<mgr, turn, request, inherited>>
          /\ closed' \subseteq closed \cup {thread.pending}
      BY <2>1, <2>3, Updated
    <3>2. Fields(thread, thread', "Interrupted", thread.pending, thread.inFlight)
      BY <1>1, <3>1, ThreadOps
    <3> QED BY <2>1, <3>1, <3>2, RestStep
  <2>4. CASE thread.state # "AwaitingApproval"
    <3>1. /\ thread' = thread /\ UNCHANGED <<mgr, turn, request, inherited>>
          /\ closed' \subseteq closed \cup {thread.pending}
      BY <2>1, <2>2, <2>4, Updated
    <3>2. Fields(thread, thread', thread.state, thread.pending, thread.inFlight)
      BY <1>1, <3>1, ThreadOps
    <3> QED BY <2>1, <2>2, <2>4, <3>1, <3>2, RestStep
  <2> QED BY <2>3, <2>4
<1> QED BY <1>2, <1>3, <1>4, <1>5, <1>6

\* The thread comes to await request r, which is not closed.
LEMMA AwaitStep ==
    ASSUME IInv, NEW r \in Nat, r # NoRequest, r \notin closed', r <= request',
           Fields(thread, thread', "AwaitingApproval", r, thread.inFlight),
           UNCHANGED <<mgr, turn, inherited, pruned>>,
           request' \in 0..MaxRequests, request' >= request,
           closed' \subseteq closed \cup {held}, held' = NoRequest,
           pc \in {"loop", "answer", "continue"}, pc' = "idle"
    PROVE  IInv'
<1>1. thread'.state = "AwaitingApproval" /\ thread'.pending = r
      /\ thread'.inFlight = thread.inFlight
  BY DEF Fields
<1>2. At /\ pruned \in BOOLEAN /\ closed \subseteq 0..request  BY DEF IInv, CoreTypes, Requests
<1>3. At'  BY <1>1, <1>2 DEF At, Settled
<1>4. request \in Nat /\ held \in Nat /\ NoRequest \in Nat /\ held <= request
      /\ NoRequest <= request /\ MaxRequests \in Nat
  BY RequestTypes
<1>5. request' \in Nat /\ closed' \subseteq 0..request' /\ held' <= request'
  BY <1>2, <1>4
<1>6. Requests'  BY <1>1, <1>5 DEF Requests
<1>7. held' \in Nat /\ pruned' \in BOOLEAN  BY <1>2, <1>4
<1>8. pc' \in PCs /\ pc # "clear" /\ pc' # "prepare"  BY DEF PCs
<1> QED BY <1>3, <1>6, <1>7, <1>8, SameTurns

LEMMA ApprovalSteps ==
    ASSUME IInv, LoopNeedsApproval \/ RestageOnMismatch \/ AuthIntercept \/ DeferredNeedsApproval
    PROVE  IInv'
<1>1. thread \in ThreadType /\ At /\ request \in 0..MaxRequests /\ held \in 0..MaxRequests
      /\ closed \subseteq 0..request /\ held <= request
      /\ (pc \in {"answer", "continue"} => held \notin closed)
  BY DEF IInv, CoreTypes, Requests
<1>2. request \in Nat /\ held \in Nat /\ MaxRequests \in Nat  BY RequestTypes
<1>3. CASE LoopNeedsApproval
  <2>1. /\ pc = "loop" /\ pc' = "idle" /\ held' = NoRequest /\ pruned' = pruned
        /\ request < MaxRequests /\ request' = request + 1
        /\ UpdateThread(AwaitApproval(thread, request + 1)) /\ UNCHANGED <<mgr, turn>>
    BY <1>3 DEF LoopNeedsApproval, Done
  <2>2. thread.state = "Processing"  BY <1>1, <2>1 DEF At
  <2>3. thread' = AwaitApproval(thread, request + 1) /\ closed' = closed /\ inherited' = inherited
    BY <2>1, <2>2 DEF UpdateThread
  <2>4. request + 1 \in 0..MaxRequests /\ request + 1 # NoRequest /\ request + 1 \notin closed
    BY <1>1, <1>2, <2>1 DEF NoRequest
  <2>5. Fields(thread, thread', "AwaitingApproval", request + 1, thread.inFlight)
    BY <1>1, <2>3, <2>4, ThreadOps
  <2>6. request + 1 \in Nat /\ request + 1 <= request' /\ request' >= request
        /\ request' \in 0..MaxRequests
    BY <1>2, <2>1, <2>4
  <2> QED BY <2>1, <2>3, <2>4, <2>5, <2>6, AwaitStep
<1>4. CASE RestageOnMismatch
  <2>1. /\ pc = "answer" /\ pc' = "idle" /\ held' = NoRequest /\ pruned' = pruned
        /\ OnThread(AwaitApproval(thread, held))
    BY <1>4 DEF RestageOnMismatch, Done
  <2>2. thread.state = "Processing" /\ held # NoRequest  BY <1>1, <2>1 DEF At
  <2>3. /\ thread' = AwaitApproval(thread, held) /\ closed' = closed
        /\ UNCHANGED <<mgr, turn, request, inherited>>
    BY <2>1, <2>2, Updated
  <2>4. Fields(thread, thread', "AwaitingApproval", held, thread.inFlight)
    BY <1>1, <2>3, ThreadOps
  <2>5. held \notin closed' /\ held <= request' /\ request' >= request
        /\ request' \in 0..MaxRequests
    BY <1>1, <1>2, <2>1, <2>3
  <2> QED BY <1>2, <2>1, <2>2, <2>3, <2>4, <2>5, AwaitStep
<1>5. CASE AuthIntercept
  <2> DEFINE e == EndTurn(thread)
             a == AwaitApproval(e, held)
  <2>1. /\ pc = "continue" /\ pc' = "idle" /\ held' = NoRequest /\ pruned' = pruned
        /\ OnThread(EnterAuthMode(a))
    BY <1>5 DEF AuthIntercept, Done
  <2>2. thread.state = "Processing" /\ held # NoRequest  BY <1>1, <2>1 DEF At
  <2>3. /\ thread' = EnterAuthMode(a) /\ closed' = closed
        /\ UNCHANGED <<mgr, turn, request, inherited>>
    <3> HIDE DEF a
    <3> QED BY <2>1, <2>2, Updated
  <2>4. Fields(thread, e, "Idle", thread.pending, thread.inFlight)  BY <1>1, ThreadOps
  <2>5. e \in ThreadType  BY <2>4 DEF Fields
  <2> HIDE DEF e
  <2>6. Fields(e, a, "AwaitingApproval", held, e.inFlight)  BY <1>1, <2>5, ThreadOps
  <2>7. a \in ThreadType  BY <2>6 DEF Fields
  <2> HIDE DEF a
  <2>8. Fields(a, EnterAuthMode(a), a.state, a.pending, a.inFlight)  BY <2>7, ThreadOps
  <2>9. Fields(thread, thread', "AwaitingApproval", held, thread.inFlight)
    BY <2>3, <2>4, <2>6, <2>8 DEF Fields
  <2>10. held \notin closed' /\ held <= request' /\ request' >= request
         /\ request' \in 0..MaxRequests
    BY <1>1, <1>2, <2>1, <2>3
  <2> QED BY <1>2, <2>1, <2>2, <2>3, <2>9, <2>10, AwaitStep
<1>6. CASE DeferredNeedsApproval
  <2>1. /\ pc = "continue" /\ pc' = "idle" /\ held' = NoRequest /\ pruned' = pruned
        /\ request < MaxRequests /\ request' = request + 1
        /\ thread' = AwaitApproval(thread, request + 1) /\ closed' = closed \cup {held}
        /\ UNCHANGED <<mgr, turn, inherited>>
    BY <1>6 DEF DeferredNeedsApproval, Done
  <2>2. request + 1 \in 0..MaxRequests /\ request + 1 # NoRequest /\ request + 1 \notin closed'
    BY <1>1, <1>2, <2>1 DEF NoRequest
  <2>3. Fields(thread, thread', "AwaitingApproval", request + 1, thread.inFlight)
    BY <1>1, <2>1, <2>2, ThreadOps
  <2>4. request + 1 \in Nat /\ request + 1 <= request' /\ request' >= request
        /\ request' \in 0..MaxRequests
    BY <1>2, <2>1, <2>2
  <2> QED BY <2>1, <2>2, <2>3, <2>4, AwaitStep
<1> QED BY <1>3, <1>4, <1>5, <1>6

\* The request that is taken is the one the thread awaits.
LEMMA TakeStep ==
    ASSUME IInv, TakePendingApproval
    PROVE  IInv'
<1>1. thread \in ThreadType /\ At /\ Requests /\ pruned \in BOOLEAN  BY DEF IInv, CoreTypes
<1>2. /\ pc = "dispatch" /\ pc' = "answer" /\ held' = thread.pending /\ pruned' = pruned
      /\ thread.state = "AwaitingApproval" /\ thread.pending # NoRequest
      /\ OnThread(TakePending(thread))
  BY DEF TakePendingApproval, Awaiting
<1>3. Fields(thread, TakePending(thread), "Processing", NoRequest, thread.inFlight)
  BY <1>1, ThreadOps
<1>4. TakePending(thread).state = "Processing"  BY <1>3 DEF Fields
<1>5. /\ thread' = TakePending(thread) /\ closed' = closed
      /\ UNCHANGED <<mgr, turn, request, inherited>>
  BY <1>2, <1>4, Updated
<1>6. Fields(thread, thread', "Processing", NoRequest, thread.inFlight)  BY <1>3, <1>5
<1>7. /\ thread'.state = "Processing" /\ thread'.pending = NoRequest
      /\ thread'.inFlight = thread.inFlight
  BY <1>6 DEF Fields
<1>8. At'  BY <1>1, <1>2, <1>7 DEF At
<1>9. thread.pending \in Nat /\ thread.pending <= request /\ NoRequest <= request
  BY RequestTypes
<1>10. Requests'  BY <1>1, <1>2, <1>5, <1>7, <1>9 DEF Requests
<1>11. request' \in 0..MaxRequests /\ held' \in Nat /\ pruned' \in BOOLEAN /\ pc' \in PCs
  BY <1>1, <1>2, <1>5, <1>9 DEF IInv, CoreTypes, PCs
<1> QED BY <1>2, <1>5, <1>6, <1>8, <1>10, <1>11, SameTurns

-----------------------------------------------------------------------------
(* The undo manager                                                            *)

Managers == [undo : Seq(Seq(Turns)), redo : Seq(Seq(Turns))]

\* Everything the conversation can be put back to, and what it is now.
Kept(m, turns) ==
    {m.undo[i] : i \in DOMAIN m.undo} \cup {m.redo[i] : i \in DOMAIN m.redo} \cup {turns}

LEMMA LatestIsNat ==
    ASSUME NEW x \in Seq(Turns)
    PROVE  LatestTurn(x) \in Nat
<1>1. CASE x = <<>>  BY <1>1 DEF LatestTurn
<1>2. CASE x # <<>>
  <2>1. Len(x) \in 1..Len(x) /\ DOMAIN x = 1..Len(x)  BY <1>2
  <2>2. x[Len(x)] \in Turns  BY <2>1
  <2> QED BY <1>2, <2>2, BoundsAssumption DEF LatestTurn, Last, Turns
<1> QED BY <1>1, <1>2

\* A checkpoint goes on top; at the limit the oldest one is dropped.
LEMMA PushFacts ==
    ASSUME NEW st \in Seq(Seq(Turns)), Len(st) <= MaxCheckpoints, NEW x \in Seq(Turns)
    PROVE  /\ PushUndo(st, x) \in Seq(Seq(Turns)) /\ Len(PushUndo(st, x)) <= MaxCheckpoints
           /\ \E d \in {0, 1} :
                /\ Len(PushUndo(st, x)) = Len(st) + 1 - d
                /\ \A i \in 1..Len(PushUndo(st, x)) :
                     \/ i + d \in 1..Len(st) /\ PushUndo(st, x)[i] = st[i + d]
                     \/ i + d = Len(st) + 1 /\ PushUndo(st, x)[i] = x
<1> DEFINE a == Append(st, x)
<1>1. /\ a \in Seq(Seq(Turns)) /\ Len(a) = Len(st) + 1 /\ Len(st) \in Nat
      /\ \A i \in 1..Len(st) : a[i] = st[i]
      /\ a[Len(st) + 1] = x
  BY AppendProperties
<1>2. MaxCheckpoints \in Nat  BY CheckpointsAssumption
<1>3. PushUndo(st, x) = IF Len(a) > MaxCheckpoints THEN Tail(a) ELSE a
  BY DEF PushUndo
<1> HIDE DEF a
<1>4. CASE Len(a) > MaxCheckpoints
  <2>1. a # <<>>  BY <1>1
  <2>2. /\ Tail(a) \in Seq(Seq(Turns)) /\ Len(Tail(a)) = Len(a) - 1
        /\ \A i \in 1..Len(Tail(a)) : Tail(a)[i] = a[i + 1]
    BY <1>1, <2>1
  <2> DEFINE p == Tail(a)
  <2>3. PushUndo(st, x) = p  BY <1>3, <1>4
  <2>4. /\ p \in Seq(Seq(Turns)) /\ Len(p) = Len(st)
        /\ \A i \in 1..Len(p) : p[i] = a[i + 1]
    BY <1>1, <2>2
  <2> HIDE DEF p
  <2>5. ASSUME NEW i \in 1..Len(p)
        PROVE  \/ i + 1 \in 1..Len(st) /\ p[i] = st[i + 1]
               \/ i + 1 = Len(st) + 1 /\ p[i] = x
    <3>0. p[i] = a[i + 1]  BY <2>4, Zenon
    <3>1. p[i] = a[i + 1] /\ i \in Nat /\ i >= 1 /\ i <= Len(st)
      <4>1. Len(p) = Len(st) /\ Len(st) \in Nat  BY <1>1, <2>4
      <4> QED BY <3>0, <4>1
    <3>2. CASE i = Len(st)  BY <1>1, <3>1, <3>2
    <3>3. CASE i # Len(st)
      <4>1. i + 1 \in 1..Len(st)  BY <1>1, <3>1, <3>3
      <4> QED BY <1>1, <3>1, <4>1
    <3> QED BY <3>2, <3>3
  <2>6. Len(p) = Len(st) + 1 - 1 /\ Len(p) <= MaxCheckpoints  BY <1>1, <2>4
  <2> QED BY <2>3, <2>4, <2>5, <2>6
<1>5. CASE ~(Len(a) > MaxCheckpoints)
  <2>1. PushUndo(st, x) = a  BY <1>3, <1>5
  <2>2. Len(a) <= MaxCheckpoints /\ Len(a) = Len(st) + 1 - 0  BY <1>1, <1>2, <1>5
  <2>3. \A i \in 1..Len(a) : \/ i + 0 \in 1..Len(st) /\ a[i] = st[i + 0]
                             \/ i + 0 = Len(st) + 1 /\ a[i] = x
    BY <1>1
  <2> QED BY <1>1, <2>1, <2>2, <2>3
<1> QED BY <1>4, <1>5

\* A checkpoint is taken from the top.
LEMMA PopFacts ==
    ASSUME NEW st \in Seq(Seq(Turns)), st # <<>>
    PROVE  /\ Front(st) \in Seq(Seq(Turns)) /\ Len(Front(st)) = Len(st) - 1
           /\ Len(st) \in Nat /\ Len(st) >= 1
           /\ \A i \in 1..(Len(st) - 1) : Front(st)[i] = st[i]
           /\ Last(st) = st[Len(st)] /\ Last(st) \in Seq(Turns)
<1>1. Len(st) \in Nat /\ Len(st) >= 1  OBVIOUS
<1>2. \A i \in 1..(Len(st) - 1) : st[i] \in Seq(Turns)  BY <1>1
<1>3. st[Len(st)] \in Seq(Turns)  BY <1>1
<1> DEFINE n == Len(st) - 1
<1>4. n \in Int /\ n >= 0  BY <1>1
<1>5. \A i \in 1..n : st[i] \in Seq(Turns)  BY <1>2
<1>6. Front(st) = SubSeq(st, 1, n)  BY DEF Front
<1> HIDE DEF n
<1>7. /\ SubSeq(st, 1, n) \in Seq(Seq(Turns))
      /\ Len(SubSeq(st, 1, n)) = IF 1 <= n THEN n - 1 + 1 ELSE 0
      /\ \A i \in 1..(n - 1 + 1) : SubSeq(st, 1, n)[i] = st[1 + i - 1]
  BY <1>4, <1>5, SubSeqProperties
<1>8. Len(SubSeq(st, 1, n)) = n  BY <1>4, <1>7
<1>9. \A i \in 1..n : SubSeq(st, 1, n)[i] = st[i]
  <2> SUFFICES ASSUME NEW i \in 1..n PROVE SubSeq(st, 1, n)[i] = st[i]  OBVIOUS
  <2>1. i \in 1..(n - 1 + 1) /\ 1 + i - 1 = i  BY <1>4
  <2> QED BY <1>7, <2>1
<1> QED BY <1>1, <1>3, <1>6, <1>7, <1>8, <1>9 DEF n, Last

\* The same by positions.
LEMMA PopPositions ==
    ASSUME NEW st \in Seq(Seq(Turns)), st # <<>>, NEW i \in DOMAIN Front(st)
    PROVE  i \in DOMAIN st /\ i <= Len(st) /\ Front(st)[i] = st[i]
<1> DEFINE f == Front(st)
<1>1. f \in Seq(Seq(Turns)) /\ Len(f) = Len(st) - 1 /\ Len(st) \in Nat
      /\ \A k \in 1..(Len(st) - 1) : f[k] = st[k]
  BY PopFacts
<1> HIDE DEF f
<1>2. DOMAIN f = 1..Len(f) /\ DOMAIN st = 1..Len(st)  BY <1>1
<1>3. i \in 1..(Len(st) - 1)  BY <1>1, <1>2 DEF f
<1>4. f[i] = st[i]  BY <1>1, <1>3, Zenon
<1>5. i \in 1..Len(st) /\ i <= Len(st)  BY <1>1, <1>3
<1> QED BY <1>2, <1>4, <1>5 DEF f

LEMMA AppendPositions ==
    ASSUME NEW st \in Seq(Seq(Turns)), NEW x \in Seq(Turns), NEW i \in DOMAIN Append(st, x)
    PROVE  \/ i \in DOMAIN st /\ i <= Len(st) /\ Append(st, x)[i] = st[i]
           \/ i = Len(st) + 1 /\ Append(st, x)[i] = x
<1> DEFINE a == Append(st, x)
<1>1. /\ a \in Seq(Seq(Turns)) /\ Len(a) = Len(st) + 1 /\ Len(st) \in Nat
      /\ \A k \in 1..Len(st) : a[k] = st[k]
      /\ a[Len(st) + 1] = x
  BY AppendProperties
<1> HIDE DEF a
<1>2. DOMAIN a = 1..Len(a) /\ DOMAIN st = 1..Len(st)  BY <1>1
<1>3. i \in 1..Len(st) \/ i = Len(st) + 1  BY <1>1, <1>2 DEF a
<1>4. CASE i \in 1..Len(st)
  <2>1. a[i] = st[i]  BY <1>1, <1>4, Zenon
  <2>2. i <= Len(st)  BY <1>1, <1>4
  <2> QED BY <1>2, <1>4, <2>1, <2>2 DEF a
<1>5. CASE i = Len(st) + 1
  BY <1>1, <1>5 DEF a
<1> QED BY <1>3, <1>4, <1>5

\* The latest turns of a manager's checkpoints are numbers that can be compared.
LEMMA LatestOfManager ==
    ASSUME NEW m \in Managers, NEW turns \in Seq(Turns)
    PROVE  /\ m.undo \in Seq(Seq(Turns)) /\ m.redo \in Seq(Seq(Turns))
           /\ Len(m.undo) \in Nat /\ Len(m.redo) \in Nat
           /\ DOMAIN m.undo = 1..Len(m.undo) /\ DOMAIN m.redo = 1..Len(m.redo)
           /\ \A i \in DOMAIN m.undo : LatestTurn(m.undo[i]) \in Nat /\ m.undo[i] \in Seq(Turns)
           /\ \A i \in DOMAIN m.redo : LatestTurn(m.redo[i]) \in Nat /\ m.redo[i] \in Seq(Turns)
           /\ LatestTurn(turns) \in Nat
<1>1. m.undo \in Seq(Seq(Turns)) /\ m.redo \in Seq(Seq(Turns))  BY DEF Managers
<1>2. /\ Len(m.undo) \in Nat /\ Len(m.redo) \in Nat
      /\ DOMAIN m.undo = 1..Len(m.undo) /\ DOMAIN m.redo = 1..Len(m.redo)
  BY <1>1
<1>3. /\ \A i \in DOMAIN m.undo : m.undo[i] \in Seq(Turns)
      /\ \A i \in DOMAIN m.redo : m.redo[i] \in Seq(Turns)
  BY <1>1, <1>2
<1> QED BY <1>1, <1>2, <1>3, LatestIsNat

\* Undo moves the conversation one checkpoint back.
LEMMA UndoMoves ==
    ASSUME NEW m \in Managers, NEW turns \in Seq(Turns), m.undo # <<>>,
           Len(m.undo) <= MaxCheckpoints
    PROVE  /\ Undo(m, turns) \in Managers /\ Last(m.undo) \in Seq(Turns)
           /\ Len(Undo(m, turns).undo) <= MaxCheckpoints
           /\ Kept(Undo(m, turns), Last(m.undo)) \subseteq Kept(m, turns)
           /\ Ordered(m, turns) => Ordered(Undo(m, turns), Last(m.undo))
<1> DEFINE u == m.undo
           r == m.redo
           v == Front(u)
           w == Append(r, turns)
<1>1. /\ u \in Seq(Seq(Turns)) /\ r \in Seq(Seq(Turns)) /\ u # <<>>
      /\ Len(u) \in Nat /\ Len(r) \in Nat /\ DOMAIN u = 1..Len(u) /\ DOMAIN r = 1..Len(r)
      /\ \A i \in DOMAIN u : LatestTurn(u[i]) \in Nat
      /\ \A i \in DOMAIN r : LatestTurn(r[i]) \in Nat
      /\ LatestTurn(turns) \in Nat /\ Len(u) <= MaxCheckpoints
  BY LatestOfManager
<1>2. /\ Undo(m, turns) = [undo |-> v, redo |-> w]
      /\ Undo(m, turns).undo = v /\ Undo(m, turns).redo = w
  BY DEF Undo
<1>3. Kept(m, turns) = {u[i] : i \in DOMAIN u} \cup {r[i] : i \in DOMAIN r} \cup {turns}
  BY DEF Kept
<1>4. Ordered(m, turns) =>
        /\ \A i, k \in DOMAIN u : i <= k => LatestTurn(u[i]) <= LatestTurn(u[k])
        /\ \A i \in DOMAIN u : LatestTurn(u[i]) <= LatestTurn(turns)
        /\ \A i \in DOMAIN r : LatestTurn(turns) <= LatestTurn(r[i])
        /\ \A i, k \in DOMAIN r : i <= k => LatestTurn(r[k]) <= LatestTurn(r[i])
  BY DEF Ordered
<1> HIDE DEF u, r
<1>5. /\ v \in Seq(Seq(Turns)) /\ Len(v) = Len(u) - 1 /\ Len(u) >= 1
      /\ \A i \in 1..(Len(u) - 1) : v[i] = u[i]
      /\ Last(u) = u[Len(u)] /\ Last(u) \in Seq(Turns)
  BY <1>1, PopFacts
<1>6. /\ w \in Seq(Seq(Turns)) /\ Len(w) = Len(r) + 1
      /\ \A i \in 1..Len(r) : w[i] = r[i]
      /\ w[Len(r) + 1] = turns
  BY <1>1, AppendProperties
<1>7. \A i \in DOMAIN w : i \in Nat
  BY <1>6
<1>8. \A i \in DOMAIN v : i \in DOMAIN u /\ i <= Len(u) /\ v[i] = u[i]
  BY <1>1, PopPositions
<1>9. \A i \in DOMAIN w : \/ i \in DOMAIN r /\ i <= Len(r) /\ w[i] = r[i]
                          \/ i = Len(r) + 1 /\ w[i] = turns
  BY <1>1, AppendPositions
<1> HIDE DEF v, w
<1>10. Len(u) \in DOMAIN u /\ Last(u) = u[Len(u)]  BY <1>1, <1>5
<1>11. Kept(Undo(m, turns), Last(u)) \subseteq Kept(m, turns)
  <2>1. Kept(Undo(m, turns), Last(u)) =
          {v[i] : i \in DOMAIN v} \cup {w[i] : i \in DOMAIN w} \cup {Last(u)}
    BY <1>2 DEF Kept
  <2>2. \A i \in DOMAIN v : v[i] \in Kept(m, turns)  BY <1>3, <1>8
  <2>3. \A i \in DOMAIN w : w[i] \in Kept(m, turns)  BY <1>3, <1>9
  <2>4. Last(u) \in Kept(m, turns)  BY <1>3, <1>10
  <2> QED BY <2>1, <2>2, <2>3, <2>4
<1>12. ASSUME Ordered(m, turns) PROVE Ordered(Undo(m, turns), Last(u))
  <2>1. \A i, k \in DOMAIN v : i <= k => LatestTurn(v[i]) <= LatestTurn(v[k])
    BY <1>4, <1>8, <1>12
  <2>2. \A i \in DOMAIN v : LatestTurn(v[i]) <= LatestTurn(Last(u))
    BY <1>4, <1>8, <1>10, <1>12
  <2>3. ASSUME NEW i \in DOMAIN w PROVE LatestTurn(Last(u)) <= LatestTurn(w[i])
    <3>1. LatestTurn(Last(u)) <= LatestTurn(turns)  BY <1>4, <1>10, <1>12
    <3>2. CASE i \in DOMAIN r /\ w[i] = r[i]
      <4>1. LatestTurn(turns) <= LatestTurn(r[i])  BY <1>4, <1>12, <3>2
      <4>2. LatestTurn(Last(u)) \in Nat /\ LatestTurn(r[i]) \in Nat  BY <1>1, <1>10, <3>2
      <4> QED BY <1>1, <3>1, <3>2, <4>1, <4>2
    <3> QED BY <1>9, <3>1, <3>2
  <2>4. ASSUME NEW i \in DOMAIN w, NEW k \in DOMAIN w, i <= k
        PROVE  LatestTurn(w[k]) <= LatestTurn(w[i])
    <3>1. CASE k \in DOMAIN r /\ k <= Len(r) /\ w[k] = r[k]
      <4>1. i # Len(r) + 1  BY <1>1, <1>7, <2>4, <3>1
      <4>2. i \in DOMAIN r /\ w[i] = r[i]  BY <1>9, <4>1
      <4> QED BY <1>4, <1>12, <2>4, <3>1, <4>2
    <3>2. CASE k = Len(r) + 1 /\ w[k] = turns
      <4>1. CASE i \in DOMAIN r /\ w[i] = r[i]  BY <1>4, <1>12, <3>2, <4>1
      <4>2. CASE w[i] = turns  BY <1>1, <3>2, <4>2
      <4> QED BY <1>9, <4>1, <4>2
    <3> QED BY <1>9, <3>1, <3>2
  <2> QED BY <1>2, <2>1, <2>2, <2>3, <2>4 DEF Ordered
<1>13. Undo(m, turns) \in Managers  BY <1>2, <1>5, <1>6 DEF Managers
<1>14. Len(Undo(m, turns).undo) <= MaxCheckpoints
  BY <1>1, <1>2, <1>5, CheckpointsAssumption
<1> QED BY <1>5, <1>11, <1>12, <1>13, <1>14 DEF u

\* Pushing keeps an undo stack in order.
LEMMA PushOrdered ==
    ASSUME NEW st \in Seq(Seq(Turns)), Len(st) <= MaxCheckpoints, NEW turns \in Seq(Turns)
    PROVE  /\ \A i \in DOMAIN PushUndo(st, turns) :
                 \/ PushUndo(st, turns)[i] = turns
                 \/ \E k \in DOMAIN st : PushUndo(st, turns)[i] = st[k]
           /\ /\ \A i, k \in DOMAIN st : i <= k => LatestTurn(st[i]) <= LatestTurn(st[k])
              /\ \A i \in DOMAIN st : LatestTurn(st[i]) <= LatestTurn(turns)
              => /\ \A i, k \in DOMAIN PushUndo(st, turns) :
                      i <= k => LatestTurn(PushUndo(st, turns)[i]) <= LatestTurn(PushUndo(st, turns)[k])
                 /\ \A i \in DOMAIN PushUndo(st, turns) :
                      LatestTurn(PushUndo(st, turns)[i]) <= LatestTurn(turns)
<1> DEFINE p == PushUndo(st, turns)
<1>1. /\ Len(st) \in Nat /\ DOMAIN st = 1..Len(st) /\ LatestTurn(turns) \in Nat
  BY LatestIsNat
<1>2. /\ p \in Seq(Seq(Turns))
      /\ \E d \in {0, 1} :
           /\ Len(p) = Len(st) + 1 - d
           /\ \A i \in 1..Len(p) : \/ i + d \in 1..Len(st) /\ p[i] = st[i + d]
                                   \/ i + d = Len(st) + 1 /\ p[i] = turns
  BY PushFacts
<1> HIDE DEF p
<1>3. DOMAIN p = 1..Len(p) /\ Len(p) \in Nat  BY <1>2
<1>4. PICK d \in {0, 1} :
        \A i \in DOMAIN p : \/ i + d \in DOMAIN st /\ p[i] = st[i + d]
                            \/ i + d = Len(st) + 1 /\ p[i] = turns
  BY <1>1, <1>2, <1>3
<1>5. d \in Nat  OBVIOUS
<1>6. \A i \in DOMAIN p : p[i] = turns \/ \E k \in DOMAIN st : p[i] = st[k]
  BY <1>4
<1>7. ASSUME \A i, k \in DOMAIN st : i <= k => LatestTurn(st[i]) <= LatestTurn(st[k]),
             \A i \in DOMAIN st : LatestTurn(st[i]) <= LatestTurn(turns)
      PROVE  /\ \A i, k \in DOMAIN p : i <= k => LatestTurn(p[i]) <= LatestTurn(p[k])
             /\ \A i \in DOMAIN p : LatestTurn(p[i]) <= LatestTurn(turns)
  <2>1. ASSUME NEW i \in DOMAIN p PROVE LatestTurn(p[i]) <= LatestTurn(turns)
    <3>1. CASE i + d \in DOMAIN st /\ p[i] = st[i + d]  BY <1>7, <3>1
    <3>2. CASE p[i] = turns  BY <1>1, <3>2
    <3> QED BY <1>4, <3>1, <3>2
  <2>2. ASSUME NEW i \in DOMAIN p, NEW k \in DOMAIN p, i <= k
        PROVE  LatestTurn(p[i]) <= LatestTurn(p[k])
    <3>1. CASE k + d \in DOMAIN st /\ p[k] = st[k + d]
      <4>1. i \in Nat /\ k \in Nat  BY <1>3
      <4>2. i + d <= k + d /\ k + d <= Len(st)  BY <1>1, <1>5, <2>2, <3>1, <4>1
      <4>3. i + d # Len(st) + 1  BY <1>1, <1>5, <4>1, <4>2
      <4>4. i + d \in DOMAIN st /\ p[i] = st[i + d]  BY <1>4, <4>3
      <4> QED BY <1>7, <3>1, <4>2, <4>4
    <3>2. CASE p[k] = turns  BY <2>1, <3>2
    <3> QED BY <1>4, <3>1, <3>2
  <2> QED BY <2>1, <2>2
<1> QED BY <1>6, <1>7 DEF p

\* A checkpoint before a turn.
LEMMA CheckpointKeeps ==
    ASSUME NEW m \in Managers, NEW turns \in Seq(Turns), Len(m.undo) <= MaxCheckpoints
    PROVE  /\ Checkpoint(m, turns) \in Managers /\ Checkpoint(m, turns).redo = <<>>
           /\ Len(Checkpoint(m, turns).undo) <= MaxCheckpoints
           /\ Kept(Checkpoint(m, turns), turns) \subseteq Kept(m, turns)
           /\ Ordered(m, turns) => Ordered(Checkpoint(m, turns), turns)
<1> DEFINE u == m.undo
           p == PushUndo(u, turns)
<1>1. u \in Seq(Seq(Turns)) /\ Len(u) <= MaxCheckpoints  BY LatestOfManager
<1>2. /\ Checkpoint(m, turns) = [undo |-> p, redo |-> <<>>]
      /\ Checkpoint(m, turns).undo = p /\ Checkpoint(m, turns).redo = <<>>
  BY DEF Checkpoint
<1>3. p \in Seq(Seq(Turns)) /\ Len(p) <= MaxCheckpoints  BY <1>1, PushFacts
<1>4. /\ \A i \in DOMAIN p : p[i] = turns \/ \E k \in DOMAIN u : p[i] = u[k]
      /\ /\ \A i, k \in DOMAIN u : i <= k => LatestTurn(u[i]) <= LatestTurn(u[k])
         /\ \A i \in DOMAIN u : LatestTurn(u[i]) <= LatestTurn(turns)
         => /\ \A i, k \in DOMAIN p : i <= k => LatestTurn(p[i]) <= LatestTurn(p[k])
            /\ \A i \in DOMAIN p : LatestTurn(p[i]) <= LatestTurn(turns)
  BY <1>1, PushOrdered
<1> HIDE DEF p
<1>5. Checkpoint(m, turns) \in Managers  BY <1>2, <1>3 DEF Managers
<1>6. Kept(Checkpoint(m, turns), turns) \subseteq Kept(m, turns)
  <2>1. Kept(Checkpoint(m, turns), turns) = {p[i] : i \in DOMAIN p} \cup {turns}
    BY <1>2 DEF Kept
  <2> QED BY <1>4, <2>1 DEF Kept
<1>7. Ordered(m, turns) => Ordered(Checkpoint(m, turns), turns)
  BY <1>2, <1>4 DEF Ordered
<1> QED BY <1>2, <1>3, <1>5, <1>6, <1>7

\* Redo moves the conversation one checkpoint forward.
LEMMA RedoMoves ==
    ASSUME NEW m \in Managers, NEW turns \in Seq(Turns), m.redo # <<>>,
           Len(m.undo) <= MaxCheckpoints
    PROVE  /\ Redo(m, turns) \in Managers /\ Last(m.redo) \in Seq(Turns)
           /\ Len(Redo(m, turns).undo) <= MaxCheckpoints
           /\ Kept(Redo(m, turns), Last(m.redo)) \subseteq Kept(m, turns)
           /\ Ordered(m, turns) => Ordered(Redo(m, turns), Last(m.redo))
<1> DEFINE u == m.undo
           r == m.redo
           p == PushUndo(u, turns)
           v == Front(r)
<1>1. /\ u \in Seq(Seq(Turns)) /\ Len(u) <= MaxCheckpoints
      /\ r \in Seq(Seq(Turns)) /\ r # <<>> /\ DOMAIN r = 1..Len(r)
      /\ \A i \in DOMAIN u : LatestTurn(u[i]) \in Nat
      /\ \A i \in DOMAIN r : LatestTurn(r[i]) \in Nat
      /\ LatestTurn(turns) \in Nat
  BY LatestOfManager
<1>2. /\ Redo(m, turns) = [undo |-> p, redo |-> v]
      /\ Redo(m, turns).undo = p /\ Redo(m, turns).redo = v
  BY DEF Redo
<1>3. Ordered(m, turns) =>
        /\ \A i, k \in DOMAIN u : i <= k => LatestTurn(u[i]) <= LatestTurn(u[k])
        /\ \A i \in DOMAIN u : LatestTurn(u[i]) <= LatestTurn(turns)
        /\ \A i \in DOMAIN r : LatestTurn(turns) <= LatestTurn(r[i])
        /\ \A i, k \in DOMAIN r : i <= k => LatestTurn(r[k]) <= LatestTurn(r[i])
  BY DEF Ordered
<1>4. Kept(m, turns) = {u[i] : i \in DOMAIN u} \cup {r[i] : i \in DOMAIN r} \cup {turns}
  BY DEF Kept
<1> HIDE DEF u, r
<1>5. p \in Seq(Seq(Turns)) /\ Len(p) <= MaxCheckpoints  BY <1>1, PushFacts
<1>6. /\ \A i \in DOMAIN p : p[i] = turns \/ \E k \in DOMAIN u : p[i] = u[k]
      /\ /\ \A i, k \in DOMAIN u : i <= k => LatestTurn(u[i]) <= LatestTurn(u[k])
         /\ \A i \in DOMAIN u : LatestTurn(u[i]) <= LatestTurn(turns)
         => /\ \A i, k \in DOMAIN p : i <= k => LatestTurn(p[i]) <= LatestTurn(p[k])
            /\ \A i \in DOMAIN p : LatestTurn(p[i]) <= LatestTurn(turns)
  BY <1>1, PushOrdered
<1>7. /\ v \in Seq(Seq(Turns)) /\ Len(r) \in Nat /\ Len(r) >= 1
      /\ Last(r) = r[Len(r)] /\ Last(r) \in Seq(Turns)
  BY <1>1, PopFacts
<1>8. \A i \in DOMAIN v : i \in DOMAIN r /\ i <= Len(r) /\ v[i] = r[i]
  BY <1>1, PopPositions
<1> HIDE DEF p, v
<1>9. Len(r) \in DOMAIN r  BY <1>1, <1>7
<1>10. Redo(m, turns) \in Managers  BY <1>2, <1>5, <1>7 DEF Managers
<1>11. Kept(Redo(m, turns), Last(r)) \subseteq Kept(m, turns)
  <2>1. Kept(Redo(m, turns), Last(r)) =
          {p[i] : i \in DOMAIN p} \cup {v[i] : i \in DOMAIN v} \cup {Last(r)}
    BY <1>2 DEF Kept
  <2>2. \A i \in DOMAIN p : p[i] \in Kept(m, turns)  BY <1>4, <1>6
  <2>3. \A i \in DOMAIN v : v[i] \in Kept(m, turns)  BY <1>4, <1>8
  <2>4. Last(r) \in Kept(m, turns)  BY <1>4, <1>7, <1>9
  <2> QED BY <2>1, <2>2, <2>3, <2>4
<1>12. ASSUME Ordered(m, turns) PROVE Ordered(Redo(m, turns), Last(r))
  <2>1. LatestTurn(turns) <= LatestTurn(Last(r)) /\ LatestTurn(Last(r)) \in Nat
    BY <1>1, <1>3, <1>7, <1>9, <1>12
  <2>2. /\ \A i, k \in DOMAIN p : i <= k => LatestTurn(p[i]) <= LatestTurn(p[k])
        /\ \A i \in DOMAIN p : LatestTurn(p[i]) <= LatestTurn(turns)
    BY <1>3, <1>6, <1>12
  <2>3. \A i \in DOMAIN p : LatestTurn(p[i]) \in Nat  BY <1>1, <1>6
  <2>4. ASSUME NEW i \in DOMAIN p PROVE LatestTurn(p[i]) <= LatestTurn(Last(r))
    <3>1. LatestTurn(p[i]) <= LatestTurn(turns) /\ LatestTurn(p[i]) \in Nat  BY <2>2, <2>3
    <3> QED BY <1>1, <2>1, <3>1
  <2>5. \A i \in DOMAIN v : LatestTurn(Last(r)) <= LatestTurn(v[i])
    BY <1>3, <1>7, <1>8, <1>9, <1>12
  <2>6. \A i, k \in DOMAIN v : i <= k => LatestTurn(v[k]) <= LatestTurn(v[i])
    BY <1>3, <1>8, <1>12
  <2> QED BY <1>2, <2>2, <2>4, <2>5, <2>6 DEF Ordered
<1> QED BY <1>2, <1>5, <1>7, <1>10, <1>11, <1>12 DEF r

\* Resuming goes back to a checkpoint and drops it with all later ones.
LEMMA RestoreMoves ==
    ASSUME NEW m \in Managers, NEW turns \in Seq(Turns), NEW c \in DOMAIN m.undo,
           Len(m.undo) <= MaxCheckpoints
    PROVE  /\ Restore(m, c) \in Managers /\ m.undo[c] \in Seq(Turns)
           /\ Len(Restore(m, c).undo) <= MaxCheckpoints
           /\ Kept(Restore(m, c), m.undo[c]) \subseteq Kept(m, turns)
           /\ Ordered(m, turns) => Ordered(Restore(m, c), m.undo[c])
<1> DEFINE u == m.undo
           n == c - 1
           v == SubSeq(u, 1, n)
<1>1. /\ u \in Seq(Seq(Turns)) /\ Len(u) \in Nat /\ DOMAIN u = 1..Len(u)
      /\ Len(u) <= MaxCheckpoints /\ c \in DOMAIN u
      /\ \A i \in DOMAIN u : u[i] \in Seq(Turns)
  BY LatestOfManager
<1>2. /\ Restore(m, c) = [undo |-> v, redo |-> <<>>]
      /\ Restore(m, c).undo = v /\ Restore(m, c).redo = <<>>
  BY DEF Restore
<1>3. Ordered(m, turns) =>
        \A i, k \in DOMAIN u : i <= k => LatestTurn(u[i]) <= LatestTurn(u[k])
  BY DEF Ordered
<1>4. \A i \in DOMAIN u : u[i] \in Kept(m, turns)  BY DEF Kept
<1> HIDE DEF u
<1>5. n \in Int /\ n >= 0 /\ n < c /\ c <= Len(u) /\ c \in Nat  BY <1>1
<1>6. \A i \in 1..n : i \in DOMAIN u /\ i <= c /\ u[i] \in Seq(Turns)  BY <1>1
<1> HIDE DEF n
<1>7. /\ v \in Seq(Seq(Turns))
      /\ Len(v) = IF 1 <= n THEN n - 1 + 1 ELSE 0
      /\ \A i \in 1..(n - 1 + 1) : v[i] = u[1 + i - 1]
  BY <1>5, <1>6, SubSeqProperties
<1> HIDE DEF v
<1>8. Len(v) = n  BY <1>5, <1>7
<1>9. ASSUME NEW i \in DOMAIN v PROVE i \in DOMAIN u /\ i <= c /\ v[i] = u[i]
  <2>1. DOMAIN v = 1..Len(v)  BY <1>7
  <2>2. i \in 1..n  BY <1>8, <2>1
  <2>3. i \in 1..(n - 1 + 1) /\ 1 + i - 1 = i  BY <1>5, <2>2
  <2>4. v[i] = u[i]  BY <1>7, <2>3
  <2> QED BY <1>6, <2>2, <2>4
<1>10. Restore(m, c) \in Managers /\ Len(v) <= MaxCheckpoints
  BY <1>1, <1>2, <1>5, <1>7, <1>8, CheckpointsAssumption DEF Managers
<1>11. Kept(Restore(m, c), u[c]) \subseteq Kept(m, turns)
  <2>1. Kept(Restore(m, c), u[c]) = {v[i] : i \in DOMAIN v} \cup {u[c]}
    BY <1>2 DEF Kept
  <2>2. \A i \in DOMAIN v : v[i] \in Kept(m, turns)  BY <1>4, <1>9
  <2> QED BY <1>1, <1>4, <2>1, <2>2
<1>12. Ordered(m, turns) => Ordered(Restore(m, c), u[c])
  BY <1>1, <1>2, <1>3, <1>9 DEF Ordered
<1> QED BY <1>1, <1>2, <1>10, <1>11, <1>12 DEF u

-----------------------------------------------------------------------------
(* Steps that move the conversation                                            *)

LEMMA LatestBound ==
    ASSUME NEW x \in Seq(Turns), NEW n \in Nat, \A i \in DOMAIN x : x[i] <= n
    PROVE  LatestTurn(x) <= n
<1>1. CASE x = <<>>  BY <1>1 DEF LatestTurn
<1>2. CASE x # <<>>
  <2>1. Len(x) \in DOMAIN x  BY <1>2
  <2> QED BY <1>2, <2>1 DEF LatestTurn, Last
<1> QED BY <1>1, <1>2

\* Started is a fact about what is kept.
LEMMA StartedKept ==
    Started <=> \A x \in Kept(mgr, thread.turns) : \A i \in DOMAIN x : x[i] <= turn
BY DEF Started, Kept

LEMMA StartedKeptNext ==
    (\A x \in Kept(mgr', thread'.turns) : \A i \in DOMAIN x : x[i] <= turn') => Started'
BY DEF Started, Kept

LEMMA NewManagerFacts ==
    /\ NewManager \in Managers /\ NewManager.undo = <<>> /\ NewManager.redo = <<>>
    /\ Len(NewManager.undo) <= MaxCheckpoints
    /\ \A turns : Ordered(NewManager, turns) /\ Kept(NewManager, turns) = {turns}
<1>1. NewManager.undo = <<>> /\ NewManager.redo = <<>>  BY DEF NewManager
<1>2. NewManager \in Managers  BY DEF NewManager, Managers
<1>3. Len(NewManager.undo) <= MaxCheckpoints  BY <1>1, CheckpointsAssumption
<1> QED BY <1>1, <1>2, <1>3 DEF Ordered, Kept

LEMMA MoveStep ==
    ASSUME IInv, At', Requests', thread' \in ThreadType, mgr' \in Managers,
           Len(mgr'.undo) <= MaxCheckpoints, turn' \in 0..MaxTurns,
           request' \in 0..MaxRequests, pc' \in PCs, held' \in Nat,
           pruned' \in BOOLEAN, inherited' \in BOOLEAN,
           \A x \in Kept(mgr', thread'.turns) : \A i \in DOMAIN x : x[i] <= turn',
           ~inherited' /\ pc' # "clear" => Ordered(mgr', thread'.turns),
           pc' = "prepare" => mgr'.redo = <<>>
    PROVE  IInv'
<1>1. MaxRequests \in Nat  BY BoundsAssumption
<1>2. closed' \subseteq 0..request' /\ held' <= request'  BY DEF Requests
<1>3. closed' \subseteq 0..MaxRequests /\ held' \in 0..MaxRequests  BY <1>1, <1>2
<1>4. CoreTypes'  BY <1>3 DEF CoreTypes, Managers
<1>5. Started'  BY StartedKeptNext
<1>6. Line'  BY DEF Line
<1> QED BY <1>4, <1>5, <1>6 DEF IInv

LEMMA CheckpointStep ==
    ASSUME IInv, CheckpointBeforeTurn
    PROVE  IInv'
<1>1. /\ pc = "checkpoint" /\ pc' = "prepare" /\ mgr' = Checkpoint(mgr, thread.turns)
      /\ held' = held /\ pruned' = pruned
      /\ UNCHANGED <<thread, turn, request, closed, inherited>>
  BY DEF CheckpointBeforeTurn, Goto, history
<1>2. /\ thread \in ThreadType /\ mgr \in Managers /\ Len(mgr.undo) <= MaxCheckpoints
      /\ turn \in 0..MaxTurns /\ request \in 0..MaxRequests /\ pruned \in BOOLEAN
      /\ inherited \in BOOLEAN /\ At /\ Started
  BY DEF IInv, CoreTypes, Managers
<1>3. ~inherited /\ pc # "clear" => Ordered(mgr, thread.turns)  BY DEF IInv, Line
<1>4. thread.turns \in Seq(Turns) /\ held \in Nat  BY RequestTypes
<1>5. /\ mgr' \in Managers /\ mgr'.redo = <<>> /\ Len(mgr'.undo) <= MaxCheckpoints
      /\ Kept(mgr', thread.turns) \subseteq Kept(mgr, thread.turns)
      /\ Ordered(mgr, thread.turns) => Ordered(mgr', thread.turns)
  BY <1>1, <1>2, <1>4, CheckpointKeeps
<1>6. At'  BY <1>1, <1>2 DEF At, Processable
<1>7. Requests'  BY <1>1, RequestsFrame
<1>8. \A x \in Kept(mgr', thread'.turns) : \A i \in DOMAIN x : x[i] <= turn'
  BY <1>1, <1>2, <1>5, StartedKept
<1>9. ~inherited' /\ pc' # "clear" => Ordered(mgr', thread'.turns)
  BY <1>1, <1>3, <1>5
<1>10. pc' \in PCs  BY <1>1 DEF PCs
<1>11. thread' \in ThreadType /\ held' \in Nat /\ pruned' \in BOOLEAN /\ inherited' \in BOOLEAN
       /\ turn' \in 0..MaxTurns /\ request' \in 0..MaxRequests
  BY <1>1, <1>2, <1>4
<1> QED BY <1>5, <1>6, <1>7, <1>8, <1>9, <1>10, <1>11, MoveStep

\* The turn that starts is newer than all that are kept, and nothing is left to redo.
LEMMA TurnStep ==
    ASSUME IInv, PrepareTurn
    PROVE  IInv'
<1>1. /\ thread \in ThreadType /\ mgr \in Managers /\ Len(mgr.undo) <= MaxCheckpoints
      /\ turn \in 0..MaxTurns /\ request \in 0..MaxRequests /\ pruned \in BOOLEAN
      /\ inherited \in BOOLEAN /\ At /\ Started
      /\ pc = "prepare" /\ mgr.redo = <<>> /\ turn < MaxTurns
  BY DEF IInv, CoreTypes, Managers, PrepareTurn, Line, At
<1>2. CASE Done /\ NoUpdate
  <2>1. pc' = "idle" /\ pc' \in PCs /\ held' = NoRequest /\ pruned' \in BOOLEAN
    BY <1>1, <1>2 DEF Done, PCs
  <2>2. UNCHANGED <<thread, mgr, turn, request, closed, inherited>>
    BY <1>2 DEF NoUpdate, history
  <2> QED BY <1>1, <2>1, <2>2, QuietSteps
<1>3. CASE Processable(thread) /\ turn' = turn + 1 /\ UpdateThread(StartTurn(thread, turn + 1))
           /\ Goto("loop") /\ UNCHANGED <<mgr, request>>
  <2>1. /\ pc' = "loop" /\ turn' = turn + 1 /\ held' = held /\ pruned' = pruned /\ mgr' = mgr
        /\ request' = request /\ thread' = StartTurn(thread, turn + 1) /\ closed' = closed
        /\ inherited' = inherited
    BY <1>3 DEF Goto, UpdateThread, Processable
  <2>2. /\ thread.turns \in Seq(Turns) /\ held \in Nat /\ turn \in Nat /\ MaxTurns \in Nat
        /\ request \in Nat
    BY RequestTypes
  <2>3. turn + 1 \in Turns /\ turn' \in 0..MaxTurns  BY <1>1, <2>1, <2>2 DEF Turns
  <2>4. /\ thread' \in ThreadType /\ thread'.turns = Append(thread.turns, turn + 1)
        /\ thread'.state = "Processing" /\ thread'.pending = thread.pending
        /\ thread'.inFlight = thread.inFlight
    BY <1>1, <2>1, <2>3, TurnOps
  <2>5. At'  BY <1>1, <2>1, <2>4 DEF At
  <2>6. Requests'  BY <2>1, <2>2, <2>4, RequestsClose
  <2> DEFINE t == thread.turns
             a == Append(t, turn + 1)
  <2>7. /\ a \in Seq(Turns) /\ Len(a) = Len(t) + 1 /\ Len(t) \in Nat
        /\ \A i \in 1..Len(t) : a[i] = t[i]
        /\ a[Len(t) + 1] = turn + 1
    BY <2>2, <2>3, AppendProperties
  <2>8. \A x \in Kept(mgr, t) : \A i \in DOMAIN x : x[i] <= turn  BY <1>1, StartedKept
  <2>9. t \in Kept(mgr, t) /\ \A i \in DOMAIN mgr.undo : mgr.undo[i] \in Kept(mgr, t)
    BY DEF Kept
  <2>10. /\ \A i \in DOMAIN mgr.undo : mgr.undo[i] \in Seq(Turns) /\ LatestTurn(mgr.undo[i]) \in Nat
         /\ DOMAIN t = 1..Len(t)
    BY <1>1, <2>2, LatestOfManager
  <2> HIDE DEF a
  <2>11. LatestTurn(a) = turn + 1
    <3>1. a # <<>>  BY <2>7
    <3> QED BY <2>7, <3>1 DEF LatestTurn, Last
  <2>12. \A i \in DOMAIN mgr.undo : LatestTurn(mgr.undo[i]) <= turn + 1
    <3> SUFFICES ASSUME NEW i \in DOMAIN mgr.undo PROVE LatestTurn(mgr.undo[i]) <= turn + 1
      OBVIOUS
    <3>1. LatestTurn(mgr.undo[i]) <= turn  BY <2>2, <2>8, <2>9, <2>10, LatestBound
    <3> QED BY <2>2, <2>10, <3>1
  <2>13. ~inherited' /\ pc' # "clear" => Ordered(mgr', a)
    <3>1. ~inherited /\ pc # "clear" => Ordered(mgr, t)  BY DEF IInv, Line
    <3> QED BY <1>1, <2>1, <2>11, <2>12, <3>1 DEF Ordered
  <2>14. ASSUME NEW x \in Kept(mgr', a), NEW i \in DOMAIN x PROVE x[i] <= turn'
    <3>1. CASE x = a
      <4>1. DOMAIN a = 1..(Len(t) + 1)  BY <2>7
      <4>2. CASE i \in 1..Len(t)
        <5>1. a[i] = t[i] /\ t[i] <= turn  BY <2>7, <2>8, <2>9, <2>10, <4>2
        <5>2. t[i] \in Turns  BY <2>2, <2>10, <4>2
        <5>3. t[i] \in Nat  BY <2>2, <5>2 DEF Turns
        <5> QED BY <2>1, <2>2, <3>1, <5>1, <5>3
      <4>3. CASE i = Len(t) + 1  BY <2>1, <2>2, <2>7, <3>1, <4>3
      <4> QED BY <2>7, <3>1, <4>1, <4>2, <4>3
    <3>2. CASE x # a
      <4>1. x \in Kept(mgr, t)  BY <2>1, <2>14, <3>2 DEF Kept
      <4>2. x \in Seq(Turns)
        <5>1. \A k \in DOMAIN mgr.redo : mgr.redo[k] \in Seq(Turns)  BY <1>1
        <5> QED BY <2>2, <2>10, <4>1, <5>1 DEF Kept
      <4>3. x[i] \in Turns /\ x[i] <= turn  BY <2>8, <2>14, <4>1, <4>2
      <4>4. x[i] \in Nat  BY <2>2, <4>3 DEF Turns
      <4> QED BY <2>1, <2>2, <4>3, <4>4
    <3> QED BY <3>1, <3>2
  <2>15. thread'.turns = a  BY <2>4 DEF a
  <2>16. pc' \in PCs /\ pc' # "prepare"  BY <2>1 DEF PCs
  <2>17. held' \in Nat /\ pruned' \in BOOLEAN /\ inherited' \in BOOLEAN
         /\ request' \in 0..MaxRequests /\ mgr' \in Managers /\ Len(mgr'.undo) <= MaxCheckpoints
    BY <1>1, <2>1, <2>2
  <2> QED BY <2>3, <2>4, <2>5, <2>6, <2>13, <2>14, <2>15, <2>16, <2>17, MoveStep
<1> QED BY <1>2, <1>3 DEF PrepareTurn

\* Undo, redo and resume put the thread back to something that is kept.
LEMMA RestoredStep ==
    ASSUME IInv, NEW m \in Managers, NEW turns \in Seq(Turns), mgr' = m,
           Len(m.undo) <= MaxCheckpoints, Kept(m, turns) \subseteq Kept(mgr, thread.turns),
           Ordered(mgr, thread.turns) => Ordered(m, turns),
           UpdateThread(RestoreFromMessages(thread, turns)), UNCHANGED <<turn, request>>,
           pc = "dispatch", Done
    PROVE  IInv'
<1>1. /\ thread \in ThreadType /\ turn \in 0..MaxTurns /\ request \in 0..MaxRequests
      /\ pruned \in BOOLEAN /\ inherited \in BOOLEAN /\ At /\ Started
  BY DEF IInv, CoreTypes
<1>2. /\ pc' = "idle" /\ held' = NoRequest /\ pruned' = pruned /\ inherited' = inherited
      /\ thread' = RestoreFromMessages(thread, turns)
      /\ closed' \subseteq closed \cup {thread.pending, held}
  BY DEF Done, UpdateThread
<1>3. /\ thread' \in ThreadType /\ thread'.turns = turns /\ thread'.state = "Idle"
      /\ thread'.pending = thread.pending /\ thread'.inFlight = thread.inFlight
  BY <1>1, <1>2, TurnOps
<1>4. At'  BY <1>1, <1>2, <1>3 DEF At, Settled
<1>5. request \in Nat /\ NoRequest \in Nat  BY RequestTypes
<1>6. Requests'  BY <1>2, <1>3, <1>5, RequestsClose
<1>7. \A x \in Kept(mgr', thread'.turns) : \A i \in DOMAIN x : x[i] <= turn'
  BY <1>1, <1>3, StartedKept
<1>8. ~inherited' /\ pc' # "clear" => Ordered(mgr', thread'.turns)
  <2>1. ~inherited /\ pc # "clear" => Ordered(mgr, thread.turns)  BY DEF IInv, Line
  <2> QED BY <1>2, <1>3, <2>1
<1>9. pc' \in PCs /\ pc' # "prepare"  BY <1>2 DEF PCs
<1>10. held' \in Nat /\ pruned' \in BOOLEAN /\ inherited' \in BOOLEAN
       /\ turn' \in 0..MaxTurns /\ request' \in 0..MaxRequests
       /\ mgr' \in Managers /\ Len(mgr'.undo) <= MaxCheckpoints
  BY <1>1, <1>2, <1>5
<1> QED BY <1>3, <1>4, <1>6, <1>7, <1>8, <1>9, <1>10, MoveStep

LEMMA RewindSteps ==
    ASSUME IInv, ProcessUndo \/ ProcessRedo \/ \E i \in 1..MaxCheckpoints : ProcessResume(i)
    PROVE  IInv'
<1>1. /\ mgr \in Managers /\ Len(mgr.undo) <= MaxCheckpoints /\ pruned \in BOOLEAN
  BY DEF IInv, CoreTypes, Managers
<1>2. thread.turns \in Seq(Turns)  BY RequestTypes
<1>3. pc = "dispatch" /\ Done  BY DEF ProcessUndo, ProcessRedo, ProcessResume, Rewind
<1>4. CASE NoUpdate
  <2>1. pc' = "idle" /\ pc' \in PCs /\ held' = NoRequest /\ pruned' \in BOOLEAN
    BY <1>1, <1>3 DEF Done, PCs
  <2>2. UNCHANGED <<thread, mgr, turn, request, closed, inherited>>
    BY <1>4 DEF NoUpdate, history
  <2> QED BY <1>3, <2>1, <2>2, QuietSteps
<1>5. CASE CanUndo(mgr) /\ mgr' = Undo(mgr, thread.turns) /\ UNCHANGED <<turn, request>>
           /\ UpdateThread(RestoreFromMessages(thread, Last(mgr.undo)))
  <2>1. mgr.undo # <<>>  BY <1>5 DEF CanUndo
  <2> QED BY <1>1, <1>2, <1>3, <1>5, <2>1, UndoMoves, RestoredStep
<1>6. CASE CanRedo(mgr) /\ mgr' = Redo(mgr, thread.turns) /\ UNCHANGED <<turn, request>>
           /\ UpdateThread(RestoreFromMessages(thread, Last(mgr.redo)))
  <2>1. mgr.redo # <<>>  BY <1>6 DEF CanRedo
  <2> QED BY <1>1, <1>2, <1>3, <1>6, <2>1, RedoMoves, RestoredStep
<1>7. ASSUME NEW i \in DOMAIN mgr.undo, mgr' = Restore(mgr, i), UNCHANGED <<turn, request>>,
             UpdateThread(RestoreFromMessages(thread, mgr.undo[i]))
      PROVE  IInv'
  BY <1>1, <1>2, <1>3, <1>7, RestoreMoves, RestoredStep
<1>8. CASE ProcessUndo  BY <1>4, <1>5, <1>8 DEF ProcessUndo, Rewind
<1>9. CASE ProcessRedo  BY <1>4, <1>6, <1>9 DEF ProcessRedo, Rewind
<1>10. CASE \E i \in 1..MaxCheckpoints : ProcessResume(i)
  BY <1>4, <1>7, <1>10 DEF ProcessResume
<1> QED BY <1>8, <1>9, <1>10

LEMMA ClearStep ==
    ASSUME IInv, ProcessClear
    PROVE  IInv'
<1>1. /\ thread \in ThreadType /\ turn \in 0..MaxTurns /\ request \in 0..MaxRequests
      /\ pruned \in BOOLEAN /\ inherited \in BOOLEAN /\ At /\ Started
      /\ mgr \in Managers /\ Len(mgr.undo) <= MaxCheckpoints
  BY DEF IInv, CoreTypes, Managers
<1>2. /\ pc = "dispatch" /\ pc' = "clear" /\ held' = held /\ pruned' = pruned
      /\ OnThread(NewThread)
  BY DEF ProcessClear, Goto
<1>3. /\ thread' = NewThread /\ UNCHANGED <<mgr, turn, request, inherited>>
      /\ closed' \subseteq closed \cup {thread.pending, held}
  BY <1>2, Updated
<1>4. /\ thread' \in ThreadType /\ thread'.turns = <<>> /\ thread'.state = "Idle"
      /\ thread'.pending = NoRequest /\ thread'.inFlight = FALSE
  BY <1>1, <1>3, TurnOps
<1>5. At'  BY <1>2, <1>4 DEF At, Settled
<1>6. request \in Nat /\ held \in Nat  BY RequestTypes
<1>7. Requests'  BY <1>2, <1>3, <1>4, <1>6, RequestsClose
<1>8. \A x \in Kept(mgr', thread'.turns) : \A i \in DOMAIN x : x[i] <= turn'
  <2>1. \A x \in Kept(mgr, thread.turns) : \A i \in DOMAIN x : x[i] <= turn
    BY <1>1, StartedKept
  <2>2. \A x \in Kept(mgr', thread'.turns) : x \in Kept(mgr, thread.turns) \/ x = <<>>
    BY <1>3, <1>4 DEF Kept
  <2> QED BY <1>3, <2>1, <2>2
<1>9. pc' \in PCs /\ pc' # "prepare"  BY <1>2 DEF PCs
<1>10. held' \in Nat /\ pruned' \in BOOLEAN /\ inherited' \in BOOLEAN
       /\ turn' \in 0..MaxTurns /\ request' \in 0..MaxRequests
       /\ mgr' \in Managers /\ Len(mgr'.undo) <= MaxCheckpoints
  BY <1>1, <1>2, <1>3, <1>6
<1> QED BY <1>2, <1>4, <1>5, <1>7, <1>8, <1>9, <1>10, MoveStep

\* The undo manager goes, by a clear or by pruning.
LEMMA ForgetSteps ==
    ASSUME IInv, ClearUndo \/ PruneUndo
    PROVE  IInv'
<1>1. /\ thread \in ThreadType /\ turn \in 0..MaxTurns /\ request \in 0..MaxRequests
      /\ pruned \in BOOLEAN /\ At /\ Started /\ pc \in PCs
  BY DEF IInv, CoreTypes
<1>2. /\ mgr' = NewManager /\ inherited' = FALSE /\ pruned' = pruned
      /\ UNCHANGED <<thread, turn, request, closed>>
      /\ \/ pc = "clear" /\ pc' = "idle" /\ held' = NoRequest
         \/ pc' = pc /\ held' = held
  BY DEF ClearUndo, PruneUndo, Done
<1>3. At'  BY <1>1, <1>2 DEF At, Settled, Processable
<1>4. request \in Nat /\ held \in Nat /\ NoRequest \in Nat  BY RequestTypes
<1>5. Requests'  BY <1>2, <1>4, RequestsFrame
<1>6. \A x \in Kept(mgr', thread'.turns) : \A i \in DOMAIN x : x[i] <= turn'
  <2>1. \A x \in Kept(mgr, thread.turns) : \A i \in DOMAIN x : x[i] <= turn
    BY <1>1, StartedKept
  <2>2. thread.turns \in Kept(mgr, thread.turns)  BY DEF Kept
  <2>3. Kept(mgr', thread'.turns) = {thread.turns}  BY <1>2, NewManagerFacts
  <2> QED BY <1>2, <2>1, <2>2, <2>3
<1>7. pc' \in PCs  BY <1>1, <1>2 DEF PCs
<1>8. held' \in Nat /\ pruned' \in BOOLEAN /\ inherited' \in BOOLEAN
      /\ turn' \in 0..MaxTurns /\ request' \in 0..MaxRequests /\ thread' \in ThreadType
  BY <1>1, <1>2, <1>4
<1>9. /\ mgr' \in Managers /\ Len(mgr'.undo) <= MaxCheckpoints /\ mgr'.redo = <<>>
      /\ Ordered(mgr', thread'.turns)
  BY <1>2, NewManagerFacts
<1> QED BY <1>3, <1>5, <1>6, <1>7, <1>8, <1>9, MoveStep

\* Any stored history is a sequence of turns that were started.
LEMMA StoredTurnsType ==
    ASSUME IInv, NEW stored \in StoredTurns
    PROVE  stored \in Seq(Turns) /\ \A i \in DOMAIN stored : stored[i] <= turn
<1>1. turn \in Nat /\ turn <= MaxTurns /\ MaxTurns \in Nat  BY RequestTypes
<1>2. PICK n \in 0..turn : stored \in [1..n -> 1..turn]  BY DEF StoredTurns
<1>3. n \in Nat  BY <1>1
<1>4. 1..turn \subseteq Turns  BY <1>1 DEF Turns
<1>5. \A i \in 1..n : stored[i] \in 1..turn  BY <1>2
<1>6. DOMAIN stored = 1..n /\ stored = [i \in 1..n |-> stored[i]]  BY <1>2
<1>7. \A i \in 1..n : stored[i] \in Turns  BY <1>4, <1>5
<1>8. [i \in 1..n |-> stored[i]] \in Seq(Turns)  BY <1>3, <1>7
<1>9. stored \in Seq(Turns)  BY <1>6, <1>8
<1> QED BY <1>1, <1>5, <1>6, <1>9

LEMMA RehydrateStep ==
    ASSUME IInv, Rehydrate
    PROVE  IInv'
<1>1. /\ thread \in ThreadType /\ turn \in 0..MaxTurns /\ request \in 0..MaxRequests
      /\ pruned \in BOOLEAN /\ At /\ Started /\ pc \in PCs
      /\ mgr \in Managers /\ Len(mgr.undo) <= MaxCheckpoints
  BY DEF IInv, CoreTypes, Managers
<1>2. /\ pc = "idle" /\ pruned' = FALSE /\ UNCHANGED <<turn, request, pc, held>>
      /\ closed' \subseteq closed \cup {thread.pending, held}
  BY DEF Rehydrate
<1>3. \E turns \in Seq(Turns) :
         /\ thread' \in ThreadType /\ thread'.turns = turns /\ thread'.state = "Idle"
         /\ thread'.pending = NoRequest /\ thread'.inFlight = FALSE
         /\ \A i \in DOMAIN turns : turns[i] <= turn
  <2>1. CASE \E stored \in StoredTurns : thread' = RestoreFromMessages(NewThread, stored)
    <3>1. PICK stored \in StoredTurns : thread' = RestoreFromMessages(NewThread, stored)
      BY <2>1
    <3>2. stored \in Seq(Turns) /\ \A i \in DOMAIN stored : stored[i] <= turn
      BY StoredTurnsType
    <3>3. /\ NewThread \in ThreadType /\ NewThread.pending = NoRequest
          /\ NewThread.inFlight = FALSE
      BY <1>1, TurnOps
    <3>4. /\ thread' \in ThreadType /\ thread'.turns = stored /\ thread'.state = "Idle"
          /\ thread'.pending = NewThread.pending /\ thread'.inFlight = NewThread.inFlight
      BY <3>1, <3>2, <3>3, TurnOps
    <3> QED BY <3>2, <3>3, <3>4
  <2>2. CASE thread' = NewThread
    <3>1. <<>> \in Seq(Turns) /\ \A i \in DOMAIN <<>> : <<>>[i] <= turn  OBVIOUS
    <3>2. /\ thread' \in ThreadType /\ thread'.turns = <<>> /\ thread'.state = "Idle"
          /\ thread'.pending = NoRequest /\ thread'.inFlight = FALSE
      BY <1>1, <2>2, TurnOps
    <3> QED BY <3>1, <3>2
  <2> QED BY <2>1, <2>2 DEF Rehydrate
<1>4. /\ thread' \in ThreadType /\ thread'.state = "Idle"
      /\ thread'.pending = NoRequest /\ thread'.inFlight = FALSE
      /\ \A i \in DOMAIN thread'.turns : thread'.turns[i] <= turn
  BY <1>3
<1>5. /\ inherited' \in BOOLEAN
      /\ \/ mgr' = mgr /\ (~inherited' => mgr = NewManager)
         \/ mgr' = NewManager
  BY DEF Rehydrate
<1>6. At'  BY <1>2, <1>4 DEF At, Settled
<1>7. request \in Nat /\ held \in Nat  BY RequestTypes
<1>8. Requests'  BY <1>2, <1>4, <1>7, RequestsClose
<1>9. mgr' \in Managers /\ Len(mgr'.undo) <= MaxCheckpoints
  BY <1>1, <1>5, NewManagerFacts
<1>10. ~inherited' /\ pc' # "clear" => Ordered(mgr', thread'.turns)
  BY <1>5, NewManagerFacts
<1>11. \A x \in Kept(mgr', thread'.turns) : \A i \in DOMAIN x : x[i] <= turn'
  <2>1. \A x \in Kept(mgr, thread.turns) : \A i \in DOMAIN x : x[i] <= turn
    BY <1>1, StartedKept
  <2>2. CASE mgr' = mgr
    <3>1. \A x \in Kept(mgr', thread'.turns) : x \in Kept(mgr, thread.turns) \/ x = thread'.turns
      BY <2>2 DEF Kept
    <3> QED BY <1>2, <1>4, <2>1, <3>1
  <2>3. CASE mgr' = NewManager
    <3>1. Kept(mgr', thread'.turns) = {thread'.turns}  BY <2>3, NewManagerFacts
    <3> QED BY <1>2, <1>4, <3>1
  <2> QED BY <1>5, <2>2, <2>3
<1>12. pc' \in PCs /\ pc' # "prepare"  BY <1>1, <1>2
<1>13. held' \in Nat /\ pruned' \in BOOLEAN /\ turn' \in 0..MaxTurns
       /\ request' \in 0..MaxRequests
  BY <1>1, <1>2, <1>7
<1> QED BY <1>4, <1>5, <1>6, <1>8, <1>9, <1>10, <1>11, <1>12, <1>13, MoveStep

-----------------------------------------------------------------------------
(* What an answer names and what it runs                                       *)

\* The request that is awaited, taken or run is the one that was issued last.
Answers ==
    /\ named \in Names /\ ran \in 0..MaxRequests
    /\ thread.state = "AwaitingApproval" => thread.pending = request
    /\ pc \in {"answer", "continue"} => held = request
    /\ pc = "continue" => named \in {NoRequest, held}

\* A step after which no other request is awaited and no other answer is at hand.
LEMMA AnswersFrame ==
    ASSUME Answers, UNCHANGED <<request, ran>>,
           thread'.state = "AwaitingApproval" =>
             thread.state = "AwaitingApproval" /\ thread'.pending = thread.pending,
           \/ pc' = pc /\ UNCHANGED <<held, named>>
           \/ pc' \notin {"answer", "continue"} /\ named' \in {named, NoRequest}
    PROVE  Answers'
<1>1. NoRequest \in Names  BY BoundsAssumption DEF Names, NoRequest
<1> QED BY <1>1 DEF Answers, Names

LEMMA QuietAnswers ==
    ASSUME Answers, \/ Receive \/ NotClaimed \/ LeaveThread \/ IgnoreStaleAnswer \/ PruneSession
                    \/ CheckpointBeforeTurn \/ ContinueLoop \/ ClearUndo \/ PruneUndo
                    \/ UNCHANGED vars
    PROVE  Answers'
<1>1. UNCHANGED <<thread, request, ran>>
  BY DEF Receive, NotClaimed, LeaveThread, IgnoreStaleAnswer, PruneSession,
         CheckpointBeforeTurn, ContinueLoop, ClearUndo, PruneUndo, NoUpdate, history, vars
<1>2. \/ pc' = pc /\ UNCHANGED <<held, named>>
      \/ pc' \notin {"answer", "continue"} /\ named' \in {named, NoRequest}
  BY DEF Receive, NotClaimed, LeaveThread, IgnoreStaleAnswer, PruneSession,
         CheckpointBeforeTurn, ContinueLoop, ClearUndo, PruneUndo, Goto, Done, vars
<1> QED BY <1>1, <1>2, AnswersFrame

\* An update after which the thread awaits what it awaited, or nothing.
LEMMA UpdatedAnswers ==
    ASSUME Answers, NEW th, UpdateThread(th), request' = request,
           th.state = "AwaitingApproval" =>
             thread.state = "AwaitingApproval" /\ th.pending = thread.pending,
           \/ pc' = pc /\ UNCHANGED <<held, named>>
           \/ pc' \notin {"answer", "continue"} /\ named' \in {named, NoRequest}
    PROVE  Answers'
<1>1. thread' = th /\ ran' = ran  BY DEF UpdateThread
<1> QED BY <1>1, AnswersFrame

LEMMA AuthAnswers ==
    ASSUME IInv, Answers,
           ClaimToken \/ ControlEndsAuth \/ ProcessAuthToken \/ Unclaim \/ WebClearAuth
    PROVE  Answers'
<1>1. thread \in ThreadType  BY DEF IInv, CoreTypes
<1>2. \/ pc' = pc /\ UNCHANGED <<held, named>>
      \/ pc' \notin {"answer", "continue"} /\ named' \in {named, NoRequest}
  BY DEF ClaimToken, ControlEndsAuth, ProcessAuthToken, Unclaim, WebClearAuth, Goto, Done
<1>3. ASSUME NEW th, NEW inFlight, OnThread(th),
             \/ Fields(thread, th, thread.state, thread.pending, inFlight)
             \/ Fields(thread, th, "Idle", NoRequest, inFlight)
      PROVE  Answers'
  BY <1>2, <1>3, UpdatedAnswers DEF Fields, OnThread
<1>4. CASE ClaimToken  BY <1>1, <1>3, <1>4, ThreadOps DEF ClaimToken
<1>5. CASE ControlEndsAuth  BY <1>1, <1>3, <1>5, ThreadOps DEF ControlEndsAuth
<1>6. CASE Unclaim  BY <1>1, <1>3, <1>6, ThreadOps DEF Unclaim
<1>7. CASE WebClearAuth  BY <1>1, <1>3, <1>7, ThreadOps DEF WebClearAuth
<1>8. CASE ProcessAuthToken
  <2>1. CASE OnThread([ClearPendingApproval(thread) EXCEPT !.auth = FALSE])
    BY <1>1, <1>3, <2>1, ThreadOps
  <2>2. CASE OnThread(EnterAuthMode(thread))  BY <1>1, <1>3, <2>2, ThreadOps
  <2>3. CASE NoUpdate
    BY <1>2, <2>3, AnswersFrame DEF NoUpdate, history
  <2> QED BY <1>8, <2>1, <2>2, <2>3 DEF ProcessAuthToken
<1> QED BY <1>4, <1>5, <1>6, <1>7, <1>8

LEMMA CompactAnswers ==
    ASSUME IInv, Answers, CheckInput \/ ProcessCompact
    PROVE  Answers'
<1>1. pc' \notin {"answer", "continue"} /\ named' \in {named, NoRequest}
  BY DEF CheckInput, ProcessCompact, Goto, Done
<1>2. NoUpdate \/ \E keep \in 1..Len(thread.turns) : OnThread(TruncateTurns(thread, keep))
  <2>1. thread.turns \in Seq(Turns)  BY RequestTypes
  <2>2. 1..(Len(thread.turns) - 1) \subseteq 1..Len(thread.turns)  BY <2>1
  <2> QED BY <2>2 DEF CheckInput, ProcessCompact, AutoCompact
<1>3. ran' = ran  BY <1>2 DEF NoUpdate, OnThread, UpdateThread, history
<1>4. request' = request /\ thread'.state = thread.state /\ thread'.pending = thread.pending
  BY <1>2, Compacted DEF Compacts
<1> QED BY <1>1, <1>3, <1>4, AnswersFrame

LEMMA LoopAnswers ==
    ASSUME IInv, Answers,
           LoopEntersAuth \/ LoopResponds \/ RejectTool \/ ProcessInterrupt \/ ProcessClear
    PROVE  Answers'
<1>1. thread \in ThreadType /\ At  BY DEF IInv, CoreTypes
<1>2. pc' \notin {"answer", "continue"} /\ named' \in {named, NoRequest}
  BY DEF LoopEntersAuth, LoopResponds, RejectTool, ProcessInterrupt, ProcessClear, Goto, Done
<1>3. ASSUME NEW th, OnThread(th),
             \/ th.state # "AwaitingApproval"
             \/ th.state = thread.state /\ th.pending = thread.pending
      PROVE  Answers'
  BY <1>2, <1>3, UpdatedAnswers DEF OnThread
<1>4. CASE LoopEntersAuth
  <2>1. Fields(thread, EnterAuthMode(thread), thread.state, thread.pending, thread.inFlight)
    BY <1>1, ThreadOps
  <2> QED BY <1>3, <1>4, <2>1 DEF LoopEntersAuth, Fields
<1>5. CASE LoopResponds
  <2>1. Fields(thread, EndTurn(thread), "Idle", thread.pending, thread.inFlight)
    BY <1>1, ThreadOps
  <2> QED BY <1>3, <1>5, <2>1 DEF LoopResponds, Fields
<1>6. CASE RejectTool
  <2> DEFINE u == ClearPendingApproval(thread)
  <2>1. Fields(thread, u, "Idle", NoRequest, thread.inFlight)  BY <1>1, ThreadOps
  <2>2. u \in ThreadType  BY <2>1 DEF Fields
  <2>3. Fields(u, EndTurn(u), "Idle", u.pending, u.inFlight)  BY <2>2, ThreadOps
  <2>4. thread'.state = "Idle" /\ UNCHANGED <<request, ran>>
    BY <1>6, <2>3 DEF RejectTool, Fields
  <2> QED BY <1>2, <2>4, AnswersFrame
<1>7. CASE ProcessInterrupt
  <2>1. Fields(thread, Interrupt(thread), "Interrupted", thread.pending, thread.inFlight)
    BY <1>1, ThreadOps
  <2> QED BY <1>3, <1>7, <2>1 DEF ProcessInterrupt, Fields
<1>8. CASE ProcessClear
  <2>1. NewThread.state = "Idle"  BY <1>1, TurnOps
  <2> QED BY <1>3, <1>8, <2>1 DEF ProcessClear
<1> QED BY <1>4, <1>5, <1>6, <1>7, <1>8

LEMMA MoveAnswers ==
    ASSUME IInv, Answers,
           \/ PrepareTurn \/ ProcessUndo \/ ProcessRedo \/ Rehydrate
           \/ \E i \in 1..MaxCheckpoints : ProcessResume(i)
    PROVE  Answers'
<1>1. thread \in ThreadType /\ turn \in 0..MaxTurns /\ mgr \in Managers /\ At
  BY DEF IInv, CoreTypes, Managers
<1>2. \/ pc' = pc /\ UNCHANGED <<held, named>>
      \/ pc' \notin {"answer", "continue"} /\ named' \in {named, NoRequest}
  BY DEF PrepareTurn, ProcessUndo, ProcessRedo, ProcessResume, Rewind, Rehydrate, Goto, Done
<1>3. CASE NoUpdate
  BY <1>2, <1>3, AnswersFrame DEF NoUpdate, history
<1>4. ASSUME NEW turns \in Seq(Turns), request' = request,
             UpdateThread(RestoreFromMessages(thread, turns))
      PROVE  Answers'
  <2>1. RestoreFromMessages(thread, turns).state = "Idle"  BY <1>1, TurnOps
  <2> QED BY <1>2, <1>4, <2>1, UpdatedAnswers
<1>5. CASE ProcessUndo
  <2>1. mgr.undo # <<>> => Last(mgr.undo) \in Seq(Turns)  BY <1>1, PopFacts DEF Managers
  <2> QED BY <1>3, <1>4, <1>5, <2>1 DEF ProcessUndo, Rewind, CanUndo
<1>6. CASE ProcessRedo
  <2>1. mgr.redo # <<>> => Last(mgr.redo) \in Seq(Turns)  BY <1>1, PopFacts DEF Managers
  <2> QED BY <1>3, <1>4, <1>6, <2>1 DEF ProcessRedo, Rewind, CanRedo
<1>7. CASE \E i \in 1..MaxCheckpoints : ProcessResume(i)
  <2>1. \A i \in DOMAIN mgr.undo : mgr.undo[i] \in Seq(Turns)  BY <1>1 DEF Managers
  <2> QED BY <1>3, <1>4, <1>7, <2>1 DEF ProcessResume
<1>8. CASE PrepareTurn
  <2>1. CASE /\ turn' = turn + 1 /\ request' = request /\ pc = "prepare"
             /\ UpdateThread(StartTurn(thread, turn + 1))
    <3>1. turn < MaxTurns /\ turn \in Nat /\ MaxTurns \in Nat
      BY <1>1, <2>1, RequestTypes DEF At
    <3>2. turn + 1 \in Turns  BY <3>1 DEF Turns
    <3>3. StartTurn(thread, turn + 1).state = "Processing"  BY <1>1, <3>2, TurnOps
    <3> QED BY <1>2, <2>1, <3>3, UpdatedAnswers
  <2> QED BY <1>3, <1>8, <2>1 DEF PrepareTurn
<1>9. CASE Rehydrate
  <2>1. /\ NewThread \in ThreadType /\ NewThread.state = "Idle"
    BY <1>1, TurnOps
  <2>2. \A stored \in StoredTurns : RestoreFromMessages(NewThread, stored).state = "Idle"
    BY <2>1, StoredTurnsType, TurnOps
  <2>3. thread'.state = "Idle" /\ UNCHANGED <<request, ran>>
    BY <1>9, <2>1, <2>2 DEF Rehydrate
  <2> QED BY <1>2, <2>3, AnswersFrame
<1> QED BY <1>5, <1>6, <1>7, <1>8, <1>9

\* A request is staged: a new one, or the one that was taken.
LEMMA StagedAnswers ==
    ASSUME IInv, Answers,
           LoopNeedsApproval \/ RestageOnMismatch \/ AuthIntercept \/ DeferredNeedsApproval
    PROVE  Answers'
<1>1. /\ thread \in ThreadType /\ request \in 0..MaxRequests /\ held \in 0..MaxRequests
      /\ request \in Nat /\ MaxRequests \in Nat
  BY RequestTypes DEF IInv, CoreTypes
<1>2. pc' = "idle" /\ named' = NoRequest /\ ran' = ran
  BY DEF LoopNeedsApproval, RestageOnMismatch, AuthIntercept, DeferredNeedsApproval,
         OnThread, UpdateThread, Done
<1>3. thread'.pending = request'
  <2>0. ASSUME NEW t \in ThreadType, NEW r \in 0..MaxRequests
        PROVE  AwaitApproval(t, r) \in ThreadType /\ AwaitApproval(t, r).pending = r
    <3>1. Fields(t, AwaitApproval(t, r), "AwaitingApproval", r, t.inFlight)  BY ThreadOps
    <3> QED BY <3>1 DEF Fields
  <2>1. CASE LoopNeedsApproval \/ DeferredNeedsApproval
    <3>1. thread' = AwaitApproval(thread, request + 1) /\ request' = request + 1
          /\ request + 1 \in 0..MaxRequests
      BY <1>1, <2>1 DEF LoopNeedsApproval, DeferredNeedsApproval, UpdateThread
    <3> QED BY <1>1, <2>0, <3>1
  <2>2. CASE RestageOnMismatch
    <3>1. thread' = AwaitApproval(thread, held) /\ request' = request /\ held = request
      BY <2>2 DEF RestageOnMismatch, OnThread, UpdateThread, Answers
    <3> QED BY <1>1, <2>0, <3>1
  <2>3. CASE AuthIntercept
    <3> DEFINE e == EndTurn(thread)
               a == AwaitApproval(e, held)
    <3>1. thread' = EnterAuthMode(a) /\ request' = request /\ held = request
      BY <2>3 DEF AuthIntercept, OnThread, UpdateThread, Answers
    <3>2. e \in ThreadType  BY <1>1, ThreadOps DEF Fields
    <3> HIDE DEF e
    <3>3. a \in ThreadType /\ a.pending = held  BY <1>1, <2>0, <3>2
    <3> HIDE DEF a
    <3>4. EnterAuthMode(a).pending = a.pending  BY <3>3, ThreadOps DEF Fields
    <3> QED BY <3>1, <3>3, <3>4
  <2> QED BY <2>1, <2>2, <2>3
<1>4. NoRequest \in Names  BY BoundsAssumption DEF Names, NoRequest
<1> QED BY <1>2, <1>3, <1>4 DEF Answers, Names

\* The awaited request is taken; its tool runs when the answer is for it.
LEMMA TakenAnswers ==
    ASSUME IInv, Answers, TakePendingApproval \/ ExecuteTool
    PROVE  Answers'
<1>1. thread \in ThreadType /\ held \in 0..MaxRequests  BY DEF IInv, CoreTypes
<1>2. CASE TakePendingApproval
  <2>1. /\ thread' = TakePending(thread) /\ request' = request /\ ran' = ran
        /\ pc' = "answer" /\ held' = thread.pending /\ named' \in Names
        /\ thread.state = "AwaitingApproval"
    BY <1>2 DEF TakePendingApproval, Awaiting, OnThread, UpdateThread
  <2>2. thread'.state = "Processing"  BY <1>1, <2>1, ThreadOps DEF Fields
  <2> QED BY <2>1, <2>2 DEF Answers, Names
<1>3. CASE ExecuteTool
  <2>1. /\ UNCHANGED <<thread, request, held, named>> /\ ran' = named
        /\ pc = "answer" /\ pc' = "continue" /\ named \in {NoRequest, held}
    BY <1>3 DEF ExecuteTool, Goto
  <2>2. ran' \in 0..MaxRequests  BY <1>1, <2>1, BoundsAssumption DEF NoRequest
  <2> QED BY <2>1, <2>2 DEF Answers, Names
<1> QED BY <1>2, <1>3

-----------------------------------------------------------------------------
(* From the order of any two checkpoints to that of neighbours                 *)

\* Where the checkpoints are in the line that HistoryOrdered speaks of.
LEMMA LinePositions ==
    ASSUME NEW u \in Seq(Seq(Turns)), NEW r \in Seq(Seq(Turns)), NEW turns \in Seq(Turns)
    PROVE  LET line == u \o <<turns>> \o Reverse(r) IN
           /\ Len(line) = Len(u) + 1 + Len(r)
           /\ \A i \in 1..Len(u) : line[i] = u[i]
           /\ line[Len(u) + 1] = turns
           /\ \A i \in 1..Len(r) : line[Len(u) + 1 + i] = r[Len(r) - i + 1]
<1> DEFINE v == Reverse(r)
           a == u \o <<turns>>
           line == a \o v
<1>1. Len(u) \in Nat /\ Len(r) \in Nat /\ DOMAIN r = 1..Len(r)  OBVIOUS
<1>2. \A i \in 1..Len(r) : r[Len(r) - i + 1] \in Seq(Turns)
  <2> SUFFICES ASSUME NEW i \in 1..Len(r) PROVE r[Len(r) - i + 1] \in Seq(Turns)  OBVIOUS
  <2>1. Len(r) - i + 1 \in 1..Len(r)  BY <1>1
  <2> QED BY <2>1
<1>3. /\ v \in Seq(Seq(Turns)) /\ Len(v) = Len(r)
      /\ \A i \in 1..Len(r) : v[i] = r[Len(r) - i + 1]
  BY <1>1, <1>2 DEF Reverse
<1> HIDE DEF v
<1>4. /\ a \in Seq(Seq(Turns)) /\ Len(a) = Len(u) + 1
      /\ \A i \in 1..Len(u) : a[i] = u[i]
      /\ a[Len(u) + 1] = turns
  <2>1. <<turns>> \in Seq(Seq(Turns)) /\ Len(<<turns>>) = 1 /\ <<turns>>[1] = turns  OBVIOUS
  <2> QED BY <1>1, <2>1
<1> HIDE DEF a
<1>5. /\ Len(line) = Len(a) + Len(v)
      /\ \A i \in 1..(Len(a) + Len(v)) :
           line[i] = IF i <= Len(a) THEN a[i] ELSE v[i - Len(a)]
  <2>1. a \in Seq(Seq(Turns)) /\ v \in Seq(Seq(Turns))  BY <1>3, <1>4
  <2> QED BY <2>1
<1> HIDE DEF line
<1>6. \A i \in 1..Len(u) : line[i] = u[i]
  <2> SUFFICES ASSUME NEW i \in 1..Len(u) PROVE line[i] = u[i]  OBVIOUS
  <2>1. i \in 1..(Len(a) + Len(v)) /\ i <= Len(a)  BY <1>1, <1>3, <1>4
  <2> QED BY <1>4, <1>5, <2>1
<1>7. line[Len(u) + 1] = turns
  <2>1. Len(u) + 1 \in 1..(Len(a) + Len(v)) /\ Len(u) + 1 <= Len(a)  BY <1>1, <1>3, <1>4
  <2> QED BY <1>4, <1>5, <2>1
<1>8. ASSUME NEW i \in 1..Len(r) PROVE line[Len(u) + 1 + i] = r[Len(r) - i + 1]
  <2>1. /\ Len(u) + 1 + i \in 1..(Len(a) + Len(v)) /\ ~(Len(u) + 1 + i <= Len(a))
        /\ (Len(u) + 1 + i) - Len(a) = i
    BY <1>1, <1>3, <1>4
  <2> QED BY <1>3, <1>5, <2>1
<1>9. Len(line) = Len(u) + 1 + Len(r)  BY <1>1, <1>3, <1>4, <1>5
<1> QED BY <1>6, <1>7, <1>8, <1>9 DEF line, a, v

LEMMA OrderedLine ==
    ASSUME NEW m \in Managers, NEW turns \in Seq(Turns), Ordered(m, turns)
    PROVE  LET line == m.undo \o <<turns>> \o Reverse(m.redo)
           IN  \A i \in 1..(Len(line) - 1) : LatestTurn(line[i]) <= LatestTurn(line[i + 1])
<1> DEFINE u == m.undo
           r == m.redo
           line == u \o <<turns>> \o Reverse(r)
<1>1. /\ u \in Seq(Seq(Turns)) /\ r \in Seq(Seq(Turns))
      /\ Len(u) \in Nat /\ Len(r) \in Nat /\ DOMAIN u = 1..Len(u) /\ DOMAIN r = 1..Len(r)
  BY LatestOfManager
<1>2. /\ \A i, k \in DOMAIN u : i <= k => LatestTurn(u[i]) <= LatestTurn(u[k])
      /\ \A i \in DOMAIN u : LatestTurn(u[i]) <= LatestTurn(turns)
      /\ \A i \in DOMAIN r : LatestTurn(turns) <= LatestTurn(r[i])
      /\ \A i, k \in DOMAIN r : i <= k => LatestTurn(r[k]) <= LatestTurn(r[i])
  BY DEF Ordered
<1> HIDE DEF u, r
<1>3. /\ Len(line) = Len(u) + 1 + Len(r)
      /\ \A i \in 1..Len(u) : line[i] = u[i]
      /\ line[Len(u) + 1] = turns
      /\ \A i \in 1..Len(r) : line[Len(u) + 1 + i] = r[Len(r) - i + 1]
  BY <1>1, LinePositions
<1> HIDE DEF line
<1>4. ASSUME NEW i \in 1..(Len(line) - 1)
      PROVE  LatestTurn(line[i]) <= LatestTurn(line[i + 1])
  <2>1. i \in Nat /\ i >= 1 /\ i <= Len(u) + Len(r)  BY <1>1, <1>3
  <2>2. CASE i < Len(u)
    <3>1. i \in 1..Len(u) /\ i + 1 \in 1..Len(u) /\ i <= i + 1  BY <1>1, <2>1, <2>2
    <3> QED BY <1>1, <1>2, <1>3, <3>1
  <2>3. CASE i = Len(u)
    <3>1. i \in 1..Len(u)  BY <1>1, <2>1, <2>3
    <3> QED BY <1>1, <1>2, <1>3, <2>3, <3>1
  <2>4. CASE i = Len(u) + 1
    <3>1. 1 \in 1..Len(r) /\ Len(r) - 1 + 1 = Len(r) /\ Len(r) \in 1..Len(r)
      BY <1>1, <2>1, <2>4
    <3>2. line[i + 1] = r[Len(r)]  BY <1>3, <2>4, <3>1
    <3>3. line[i] = turns  BY <1>3, <2>4
    <3> QED BY <1>1, <1>2, <3>1, <3>2, <3>3
  <2>5. CASE i > Len(u) + 1
    <3> DEFINE k == i - (Len(u) + 1)
    <3>1. /\ k \in 1..Len(r) /\ k + 1 \in 1..Len(r)
          /\ Len(u) + 1 + k = i /\ Len(u) + 1 + (k + 1) = i + 1
          /\ Len(r) - k + 1 \in 1..Len(r) /\ Len(r) - (k + 1) + 1 \in 1..Len(r)
          /\ Len(r) - (k + 1) + 1 <= Len(r) - k + 1
      BY <1>1, <2>1, <2>5
    <3> HIDE DEF k
    <3>2. line[Len(u) + 1 + k] = r[Len(r) - k + 1]  BY <1>3, <3>1
    <3>3. line[Len(u) + 1 + (k + 1)] = r[Len(r) - (k + 1) + 1]  BY <1>3, <3>1
    <3>4. LatestTurn(r[Len(r) - k + 1]) <= LatestTurn(r[Len(r) - (k + 1) + 1])
      BY <1>1, <1>2, <3>1
    <3> QED BY <3>1, <3>2, <3>3, <3>4
  <2>6. i < Len(u) \/ i = Len(u) \/ i = Len(u) + 1 \/ i > Len(u) + 1
    <3>1. \A n, p \in Nat : p < n \/ p = n \/ p = n + 1 \/ p > n + 1  OBVIOUS
    <3>2. i \in Nat /\ Len(u) \in Nat  BY <1>1, <2>1
    <3> QED BY ONLY <3>1, <3>2
  <2> QED BY <2>2, <2>3, <2>4, <2>5, <2>6
<1> QED BY <1>4 DEF line, u, r

-----------------------------------------------------------------------------
(* The theorems                                                                *)

LEMMA InitIInv == Init => IInv
<1> SUFFICES ASSUME Init PROVE IInv  OBVIOUS
<1>1. /\ thread = NewThread /\ mgr = NewManager /\ turn = 0 /\ request = 0
      /\ pc = "idle" /\ held = NoRequest /\ closed = {}
      /\ pruned \in BOOLEAN /\ inherited \in BOOLEAN
  BY DEF Init
<1>2. /\ thread \in ThreadType /\ thread.turns = <<>> /\ thread.state = "Idle"
      /\ thread.pending = NoRequest /\ thread.inFlight = FALSE
  BY <1>1, BoundsAssumption DEF NewThread, ThreadType, ThreadStates, NoRequest
<1>3. /\ mgr \in Managers /\ mgr.undo = <<>> /\ mgr.redo = <<>>
      /\ Len(mgr.undo) <= MaxCheckpoints /\ Ordered(mgr, thread.turns)
  BY <1>1, NewManagerFacts
<1>4. turn \in 0..MaxTurns /\ request \in 0..MaxRequests /\ held \in 0..MaxRequests
  BY <1>1, BoundsAssumption DEF NoRequest
<1>5. CoreTypes  BY <1>1, <1>2, <1>3, <1>4 DEF CoreTypes, PCs, Managers
<1>6. At  BY <1>1, <1>2 DEF At, Settled
<1>7. Requests  BY <1>1, <1>2 DEF Requests, NoRequest
<1>8. Started /\ Line  BY <1>1, <1>2, <1>3 DEF Started, Line
<1> QED BY <1>5, <1>6, <1>7, <1>8 DEF IInv

LEMMA NextIInv == IInv /\ [Next]_vars => IInv'
<1> SUFFICES ASSUME IInv, [Next]_vars PROVE IInv'  OBVIOUS
<1>1. CASE Agent
  BY <1>1, IdleSteps, AuthSteps, CompactSteps, CheckpointStep, TurnStep, LoopSteps,
     ApprovalSteps, TakeStep, RewindSteps, ClearStep, ForgetSteps DEF Agent
<1>2. CASE WebClearAuth \/ PruneSession \/ PruneUndo \/ Rehydrate
  BY <1>2, AuthSteps, IdleSteps, ForgetSteps, RehydrateStep
<1>3. CASE UNCHANGED vars
  <2>1. UNCHANGED <<thread, mgr, turn, request, closed, inherited>> /\ pc' = pc
        /\ held' = held /\ pruned' = pruned
    BY <1>3 DEF vars, history
  <2>2. pc \in PCs /\ pruned \in BOOLEAN  BY DEF IInv, CoreTypes
  <2>3. pc' \in PCs /\ pruned' \in BOOLEAN  BY <2>1, <2>2
  <2> QED BY <2>1, <2>3, QuietSteps
<1> QED BY <1>1, <1>2, <1>3 DEF Next

LEMMA InitAnswers == Init => Answers
BY BoundsAssumption DEF Init, Answers, Names, NoRequest, NewThread

LEMMA NextAnswers == IInv /\ Answers /\ [Next]_vars => Answers'
<1> SUFFICES ASSUME IInv, Answers, [Next]_vars PROVE Answers'  OBVIOUS
<1>1. CASE Agent
  BY <1>1, QuietAnswers, AuthAnswers, CompactAnswers, LoopAnswers, MoveAnswers,
     StagedAnswers, TakenAnswers DEF Agent
<1>2. CASE WebClearAuth \/ PruneSession \/ PruneUndo \/ Rehydrate
  BY <1>2, AuthAnswers, QuietAnswers, MoveAnswers
<1>3. CASE UNCHANGED vars
  BY <1>3, QuietAnswers
<1> QED BY <1>1, <1>2, <1>3 DEF Next

LEMMA Inductive == Spec => [](IInv /\ Answers)
BY InitIInv, NextIInv, InitAnswers, NextAnswers, PTL DEF Spec

\* Every variable keeps its type, and the undo stack never exceeds max_checkpoints,
\* whether it grows by a turn or by a redo (push_undo in undo.rs).
THEOREM TypeCorrect == Spec => []TypeOK
<1>1. IInv /\ Answers => TypeOK  BY DEF IInv, CoreTypes, Answers, TypeOK
<1> QED BY <1>1, Inductive, PTL

\* Whatever the order of inputs, tokens, approvals and control commands, and
\* whatever the web and the pruning task do meanwhile, handle_message leaves the
\* thread neither Processing nor waiting for an approval that is not there, and
\* no claim of auth mode behind.
THEOREM AtRestBetweenMessages == Spec => []SettledBetweenMessages
<1>1. IInv => SettledBetweenMessages
  BY DEF IInv, At, Settled, SettledBetweenMessages
<1> QED BY <1>1, Inductive, PTL

\* process_approval runs a tool only on the request that was issued last, while it is
\* open, and never on an answer that names another, whatever duplicates and late
\* answers arrive.
THEOREM ClosedStaysClosed == Spec => []ClosedNeverRuns
<1>1. IInv /\ Answers => ClosedNeverRuns
  BY DEF IInv, Requests, Answers, ClosedNeverRuns
<1> QED BY <1>1, Inductive, PTL

\* Undo, redo and resume move along the order of the conversation, for stacks of
\* any depth and whatever checkpoints the limit has dropped (undo.rs).
THEOREM HistoryInOrder == Spec => []HistoryOrdered
<1>1. IInv => HistoryOrdered
  <2> SUFFICES ASSUME IInv, ~inherited, pc # "clear"
               PROVE  LET line == mgr.undo \o <<thread.turns>> \o Reverse(mgr.redo)
                      IN  \A i \in 1..(Len(line) - 1) :
                            LatestTurn(line[i]) <= LatestTurn(line[i + 1])
    BY DEF HistoryOrdered
  <2>1. mgr \in Managers  BY DEF IInv, CoreTypes, Managers
  <2>2. thread.turns \in Seq(Turns)  BY RequestTypes
  <2>3. Ordered(mgr, thread.turns)  BY DEF IInv, Line
  <2> QED BY <2>1, <2>2, <2>3, OrderedLine
<1> QED BY <1>1, Inductive, PTL
====
