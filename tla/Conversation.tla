---------------------------- MODULE Conversation ----------------------------
(***************************************************************************)
(* One conversation: a thread, its undo manager, and the agent loop that   *)
(* handles the messages sent to it one at a time (handle_message and what  *)
(* it calls, src/agent/thread_ops).  Interleaved with it, between any  *)
(* two locks it takes, the web handlers clear auth mode and the pruning    *)
(* task drops the thread's session and undo manager.                       *)
(*                                                                         *)
(* What a message says is chosen where it first matters: a BeforeInbound   *)
(* hook may turn it into any other submission just before it is dispatched.*)
(* updated_at is written by the agent loop alone, so that no freshness     *)
(* check of compaction or resume fails on it.                              *)
(***************************************************************************)
EXTENDS Thread, FiniteSets

CONSTANTS MaxTurns,         \* bound on turns ever started
          MaxRequests       \* bound on approval requests ever issued

ASSUME BoundsAssumption == MaxTurns \in Nat \ {0} /\ MaxRequests \in Nat \ {0}

VARIABLES thread,       \* the thread, in its session
          mgr,          \* its entry in undo_managers; empty when it has none
          turn, request,    \* numbers last given out
          pc,           \* the agent loop
          held,         \* the pending approval it has taken
          named,        \* the request the answer names; NoRequest if none
          pruned,       \* the session was removed from the manager
          closed,       \* history: requests no longer to be run
          ran,          \* history: what the answer named that ran a tool last
          inherited     \* history: mgr was left by the thread's former self

history == <<closed, ran, inherited>>
vars == <<thread, mgr, turn, request, pc, held, named, pruned, history>>

Goto(label) == pc' = label /\ UNCHANGED <<held, named, pruned>>
Done == pc' = "idle" /\ held' = NoRequest /\ named' = NoRequest /\ UNCHANGED pruned

\* One update of the thread under the session's lock.  A request whose thread
\* leaves AwaitingApproval for rest without being taken is closed.
UpdateThread(th) ==
    /\ thread' = th
    /\ closed' = closed \cup
         IF thread.state = "AwaitingApproval" /\ th.state \in {"Idle", "Interrupted"}
         THEN {thread.pending} ELSE {}
    /\ UNCHANGED <<ran, inherited>>

\* An update of the thread alone.
OnThread(th) == UpdateThread(th) /\ UNCHANGED <<mgr, turn, request>>
NoUpdate == UNCHANGED <<thread, mgr, turn, request, history>>

Init ==
    /\ thread = NewThread /\ mgr = NewManager
    /\ turn = 0 /\ request = 0
    /\ pc = "idle" /\ held = NoRequest /\ named = NoRequest
    /\ pruned = FALSE
    /\ closed = {} /\ ran = NoRequest /\ inherited = FALSE

\* The next message of the stream reaches the thread in its session.
Receive ==
    /\ pc = "idle" /\ ~pruned
    /\ Goto("intercept")
    /\ NoUpdate

----------------------------------------------------------------------------
(* Auth mode: the message is a token, or it ends auth mode.                 *)

\* The claim of a pending auth under the session's lock.
Claims == thread.auth /\ ~thread.inFlight

ClaimToken ==
    /\ pc = "intercept" /\ Claims
    /\ OnThread([thread EXCEPT !.inFlight = TRUE])
    /\ Goto("token")

\* Any other submission is handled normally after clearing both markers.
ControlEndsAuth ==
    /\ pc = "intercept" /\ Claims
    /\ OnThread([thread EXCEPT !.inFlight = FALSE, !.auth = FALSE])
    /\ Goto("dispatch")

NotClaimed ==
    /\ pc = "intercept" /\ ~Claims
    /\ Goto("dispatch")
    /\ NoUpdate

\* process_auth_token: the extension manager accepts the token, or refuses it
\* and auth mode is entered again, or there is no extension manager.
ProcessAuthToken ==
    /\ pc = "token"
    /\ \/ OnThread([ClearPendingApproval(thread) EXCEPT !.auth = FALSE])
       \/ OnThread(EnterAuthMode(thread))
       \/ NoUpdate
    /\ Goto("unclaim")

Unclaim ==
    /\ pc = "unclaim"
    /\ OnThread([thread EXCEPT !.inFlight = FALSE])
    /\ Done

----------------------------------------------------------------------------
(* dispatch_submission: a user's input.                                     *)

\* The BeforeInbound hook rejects the message, or it is a command that leaves
\* the thread alone.
LeaveThread ==
    /\ pc = "dispatch"
    /\ Done
    /\ NoUpdate

\* thread_state_submission_result
Processable(th) == th.state \in {"Idle", "Interrupted"}

\* maybe_compact_context: nothing to compact or a failure, or the compacted
\* snapshot.  It is compared in length with the live thread, so that one that has
\* lost turns passes for stale and is dropped.
AutoCompact ==
    \/ NoUpdate
    \/ \E keep \in 1..Len(thread.turns) :
         LET snapshot == TruncateTurns(thread, keep) IN
         /\ Len(snapshot.turns) = Len(thread.turns)
         /\ OnThread(snapshot)

\* Phases 1 to 4: refused by the thread's state or the safety layer, or taken
\* for a command; or compacted where needed, and on to the turn.
CheckInput ==
    /\ pc = "dispatch"
    /\ \/ Done /\ NoUpdate
       \/ /\ Processable(thread) /\ turn < MaxTurns
          /\ AutoCompact
          /\ Goto("checkpoint")

CheckpointBeforeTurn ==
    /\ pc = "checkpoint"
    /\ mgr' = Checkpoint(mgr, thread.turns)
    /\ Goto("prepare")
    /\ UNCHANGED <<thread, turn, request, history>>

\* The augmented content is unsafe, or the turn starts.
PrepareTurn ==
    /\ pc = "prepare"
    /\ \/ Done /\ NoUpdate
       \/ /\ Processable(thread)
          /\ turn' = turn + 1
          /\ UpdateThread(StartTurn(thread, turn + 1))
          /\ Goto("loop")
          /\ UNCHANGED <<mgr, request>>

\* A tool of the agentic loop asks for a token: the loop answers with the
\* instructions.
LoopEntersAuth ==
    /\ pc = "loop"
    /\ OnThread(EnterAuthMode(thread))
    /\ Goto("settle")

\* handle_loop_result and continue_loop_after_tool, for a response or an error.
LoopResponds ==
    /\ pc \in {"loop", "settle"}
    /\ OnThread(IF thread.state = "Interrupted" THEN thread ELSE EndTurn(thread))
    /\ Done

\* The same, when a tool call needs approval.
LoopNeedsApproval ==
    /\ pc = "loop"
    /\ request < MaxRequests
    /\ request' = request + 1
    /\ UpdateThread(AwaitApproval(thread, request + 1))
    /\ Done
    /\ UNCHANGED <<mgr, turn>>

----------------------------------------------------------------------------
(* process_approval.                                                        *)

\* Mutant: the thread's state is not looked at.
Awaiting_AnyState(th) == th.pending # NoRequest

Awaiting(th) == th.state = "AwaitingApproval" /\ th.pending # NoRequest

IgnoreStaleAnswer ==
    /\ pc = "dispatch" /\ ~Awaiting(thread)
    /\ Done
    /\ NoUpdate

\* What an answer can name: nothing (a plain "yes"), or an id, which may be that of
\* an earlier request or, like the last one here, of none.
Names == NoRequest..(MaxRequests + 1)

\* The approval is taken and the thread made Processing under one lock.
TakePendingApproval ==
    /\ pc = "dispatch" /\ Awaiting(thread)
    /\ held' = thread.pending
    /\ named' \in Names
    /\ OnThread(TakePending(thread))
    /\ pc' = "answer"
    /\ UNCHANGED pruned

\* Mutant: the request is put back but the thread is left Processing.
RestageOnMismatch_Processing ==
    /\ pc = "answer" /\ named \notin {NoRequest, held}
    /\ OnThread([thread EXCEPT !.pending = held])
    /\ Done

\* The answer names another request.
RestageOnMismatch ==
    /\ pc = "answer" /\ named \notin {NoRequest, held}
    /\ OnThread(AwaitApproval(thread, held))
    /\ Done

RejectTool ==
    /\ pc = "answer" /\ named \in {NoRequest, held}
    /\ thread' = EndTurn(ClearPendingApproval(thread))
    /\ closed' = closed \cup {held}
    /\ Done
    /\ UNCHANGED <<mgr, turn, request, ran, inherited>>

\* The tool runs and its result is recorded in the turn.
ExecuteTool ==
    /\ pc = "answer" /\ named \in {NoRequest, held}
    /\ ran' = named
    /\ Goto("continue")
    /\ UNCHANGED <<thread, mgr, turn, request, closed, inherited>>

\* It, or a deferred call after it, asks for a token: the turn ends, and a request
\* with the same id, for the call that asked, is staged for after the
\* authentication.
AuthIntercept ==
    /\ pc = "continue"
    /\ OnThread(EnterAuthMode(AwaitApproval(EndTurn(thread), held)))
    /\ Done

\* A deferred call needs an approval of its own.
DeferredNeedsApproval ==
    /\ pc = "continue"
    /\ request < MaxRequests
    /\ request' = request + 1
    /\ thread' = AwaitApproval(thread, request + 1)
    /\ closed' = closed \cup {held}
    /\ Done
    /\ UNCHANGED <<mgr, turn, ran, inherited>>

ContinueLoop ==
    /\ pc = "continue"
    /\ closed' = closed \cup {held}
    /\ Goto("loop")
    /\ UNCHANGED <<thread, mgr, turn, request, ran, inherited>>

----------------------------------------------------------------------------
(* Control submissions.                                                     *)

\* process_rewind: nothing to do, or the stacks move and the thread is restored.
Rewind(can, moved, stack) ==
    /\ pc = "dispatch"
    /\ \/ ~can /\ NoUpdate
       \/ /\ can
          /\ mgr' = moved
          /\ UpdateThread(RestoreFromMessages(thread, Last(stack)))
          /\ UNCHANGED <<turn, request>>
    /\ Done

ProcessUndo == Rewind(CanUndo(mgr), Undo(mgr, thread.turns), mgr.undo)
ProcessRedo == Rewind(CanRedo(mgr), Redo(mgr, thread.turns), mgr.redo)

\* process_resume, with a checkpoint of the undo stack; an unknown one is
\* answered with an error.
ProcessResume(i) ==
    /\ pc = "dispatch"
    /\ \/ i \notin DOMAIN mgr.undo /\ NoUpdate
       \/ /\ i \in DOMAIN mgr.undo
          /\ mgr' = Restore(mgr, i)
          /\ UpdateThread(RestoreFromMessages(thread, mgr.undo[i]))
          /\ UNCHANGED <<turn, request>>
    /\ Done

\* The agent loop handles one message at a time, so no thread it interrupts is
\* Processing.
ProcessInterrupt ==
    /\ pc = "dispatch"
    /\ OnThread(IF thread.state \in {"Processing", "AwaitingApproval"}
                THEN Interrupt(thread) ELSE thread)
    /\ Done

\* process_compact compares the live thread with what it was before; a compaction
\* fails or puts the snapshot's latest turns in place.
ProcessCompact ==
    /\ pc = "dispatch"
    /\ \/ NoUpdate
       \/ \E keep \in 1..(Len(thread.turns) - 1) :
            OnThread(TruncateTurns(thread, keep))
    /\ Done

\* The thread under its session's lock, then the undo manager under its own.
ProcessClear ==
    /\ pc = "dispatch"
    /\ OnThread(NewThread)
    /\ Goto("clear")

ClearUndo ==
    /\ pc = "clear"
    /\ mgr' = NewManager
    /\ inherited' = FALSE
    /\ Done
    /\ UNCHANGED <<thread, turn, request, closed, ran>>

----------------------------------------------------------------------------
(* The other actors.                                                        *)

\* clear_auth_mode, after a token the web accepted or on a cancellation.
WebClearAuth ==
    /\ OnThread([thread EXCEPT !.auth = FALSE])
    /\ UNCHANGED <<pc, held, named, pruned>>

\* prune_stale_sessions takes the session out of the manager; the message being
\* handled keeps the thread.
PruneSession ==
    /\ ~pruned
    /\ pruned' = TRUE
    /\ UNCHANGED <<thread, mgr, turn, request, pc, held, named, history>>

\* Its last step removes the undo manager, unless the session was locked when
\* the threads were collected; the agent loop gets itself a new one.
PruneUndo ==
    /\ pruned
    /\ mgr' = NewManager
    /\ inherited' = FALSE
    /\ UNCHANGED <<thread, turn, request, pc, held, named, pruned, closed, ran>>

\* What the database gives back: the turns whose messages were stored, in order.
StoredTurns ==
    {turns \in UNION {[1..n -> 1..turn] : n \in 0..turn} :
       \A i, k \in DOMAIN turns : i < k => turns[i] < turns[k]}

\* The next message finds no session: a gateway thread is hydrated from the turns
\* whose messages were stored, and picks up an undo manager that was left behind;
\* any other channel gets a new thread.
Rehydrate ==
    /\ pc = "idle" /\ pruned
    /\ \/ \E stored \in StoredTurns :
            /\ thread' = RestoreFromMessages(NewThread, stored)
            /\ inherited' = (mgr # NewManager)
            /\ UNCHANGED mgr
       \/ thread' = NewThread /\ mgr' = NewManager /\ inherited' = FALSE
    /\ closed' = closed \cup ({thread.pending} \ {NoRequest})
    /\ pruned' = FALSE
    /\ UNCHANGED <<turn, request, pc, held, named, ran>>

----------------------------------------------------------------------------
Agent ==
    \/ Receive
    \/ ClaimToken \/ ControlEndsAuth \/ NotClaimed \/ ProcessAuthToken \/ Unclaim
    \/ LeaveThread \/ CheckInput \/ CheckpointBeforeTurn \/ PrepareTurn
    \/ LoopEntersAuth \/ LoopResponds \/ LoopNeedsApproval
    \/ IgnoreStaleAnswer \/ TakePendingApproval \/ RestageOnMismatch \/ RejectTool
    \/ ExecuteTool \/ AuthIntercept \/ DeferredNeedsApproval \/ ContinueLoop
    \/ ProcessUndo \/ ProcessRedo \/ ProcessInterrupt
    \/ (\E i \in 1..MaxCheckpoints : ProcessResume(i))
    \/ ProcessCompact \/ ProcessClear \/ ClearUndo

Next == Agent \/ WebClearAuth \/ PruneSession \/ PruneUndo \/ Rehydrate

Spec == Init /\ [][Next]_vars

----------------------------------------------------------------------------
(* Properties.                                                              *)

Turns == 1..MaxTurns
ThreadType == [state : ThreadStates, turns : Seq(Turns), pending : 0..MaxRequests,
               auth : BOOLEAN, inFlight : BOOLEAN]
PCs == {"idle", "intercept", "token", "unclaim", "dispatch", "checkpoint",
        "prepare", "loop", "settle", "answer", "continue", "clear"}

\* Every variable keeps its type, and the undo stack its limit, whichever way it
\* grows (push_undo).
TypeOK ==
    /\ thread \in ThreadType
    /\ mgr \in [undo : Seq(Seq(Turns)), redo : Seq(Seq(Turns))]
    /\ Len(mgr.undo) <= MaxCheckpoints
    /\ turn \in 0..MaxTurns
    /\ request \in 0..MaxRequests
    /\ pc \in PCs
    /\ held \in 0..MaxRequests
    /\ named \in Names
    /\ pruned \in BOOLEAN
    /\ closed \subseteq 0..MaxRequests /\ ran \in 0..MaxRequests
    /\ inherited \in BOOLEAN

\* Between messages the thread is at rest (src/agent/thread_ops): it is not
\* left Processing, which would refuse all input; it awaits no approval that is
\* not there to be given; and no auth claim is left, which would let the next
\* token through into the conversation.
SettledBetweenMessages ==
    pc = "idle" => /\ thread.state # "Processing"
                   /\ thread.state = "AwaitingApproval" => thread.pending # NoRequest
                   /\ ~thread.inFlight

\* Whatever answers arrive, and however late, a tool only runs on the request that
\* was issued last, while it is open, and never on an answer that names another
\* (process_approval, thread_ops/approval/primary.rs).  A request is closed when it
\* is rejected, interrupted, cleared, rewound away or lost with its session, and
\* when the loop has gone on after its tool; one whose tool asked for a token stays
\* open.
ClosedNeverRuns ==
    pc = "continue" => /\ held = request /\ held \notin closed
                       /\ named \in {NoRequest, held}

\* Undo goes back in the conversation and redo forward: from the oldest
\* checkpoint over the thread to the last redo, the latest turn never gets older
\* (undo.rs).  Not so for a thread hydrated onto the undo manager of its former
\* self, nor between the two locks of a clear.
LatestTurn(turns) == IF turns = <<>> THEN 0 ELSE Last(turns)
HistoryOrdered ==
    ~inherited /\ pc # "clear" =>
      LET line == mgr.undo \o <<thread.turns>> \o Reverse(mgr.redo)
      IN \A i \in 1..(Len(line) - 1) : LatestTurn(line[i]) <= LatestTurn(line[i + 1])

----------------------------------------------------------------------------
(* What the repository says of the program and the program does not do.     *)

\* "duplicate approvals with same request_id are ignored" (thread_ops/approval.rs):
\* an answer that names a request does not run a tool again after one that named
\* the same.
DuplicateIgnored ==
    [][pc = "answer" /\ pc' = "continue" /\ named # NoRequest => ran # named]_vars
=============================================================================
