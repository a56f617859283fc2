------------------------------- MODULE Thread -------------------------------
(***************************************************************************)
(* A conversation thread and its undo manager, as values: one operator per *)
(* method of Thread (src/agent/session/thread.rs) and of UndoManager   *)
(* (src/agent/undo.rs).                                                *)
(*                                                                         *)
(* A turn is the number it was given when it was started, so a message     *)
(* list (Thread::messages, a checkpoint's messages) is the sequence of the *)
(* turns it was built from, and restore_from_messages gives that sequence  *)
(* back.  A pending approval is its request id; NoRequest is None.         *)
(***************************************************************************)
EXTENDS Integers, Sequences, SequencesExt

CONSTANT MaxCheckpoints     \* max_checkpoints of UndoManager (20 in the code)

ASSUME CheckpointsAssumption == MaxCheckpoints \in Nat \ {0}

\* ThreadState, without Completed, which nothing assigns.
ThreadStates == {"Idle", "Processing", "AwaitingApproval", "Interrupted"}

NoRequest == 0

NewThread == [state |-> "Idle", turns |-> <<>>, pending |-> NoRequest,
              auth |-> FALSE, inFlight |-> FALSE]

StartTurn(t, turn) ==
    [t EXCEPT !.turns = Append(@, turn), !.state = "Processing"]

\* complete_turn and fail_turn differ only in the text they record.
EndTurn(t) == [t EXCEPT !.state = "Idle"]

AwaitApproval(t, request) ==
    [t EXCEPT !.state = "AwaitingApproval", !.pending = request]

\* take_pending_approval with the state change made under the same lock.
TakePending(t) == [t EXCEPT !.pending = NoRequest, !.state = "Processing"]

ClearPendingApproval(t) == [t EXCEPT !.pending = NoRequest, !.state = "Idle"]

EnterAuthMode(t) == [t EXCEPT !.auth = TRUE]

Interrupt(t) == [t EXCEPT !.state = "Interrupted"]

\* Pending approval and auth mode are left as they are.
RestoreFromMessages(t, turns) ==
    [t EXCEPT !.turns = turns, !.state = "Idle"]

\* Compaction keeps the most recent turns.
TruncateTurns(t, keep) ==
    [t EXCEPT !.turns = SubSeq(@, Len(@) - keep + 1, Len(@))]

(***************************************************************************)
(* UndoManager: the oldest checkpoint first on the undo stack, the next    *)
(* one to redo last on the redo stack.                                     *)
(***************************************************************************)
NewManager == [undo |-> <<>>, redo |-> <<>>]

\* Mutant: no limit.
PushUndo_NoLimit(stack, turns) == Append(stack, turns)

PushUndo(stack, turns) ==
    LET pushed == Append(stack, turns)
    IN IF Len(pushed) > MaxCheckpoints THEN Tail(pushed) ELSE pushed

\* Mutant: a new turn leaves the undone ones to be redone.
Checkpoint_KeepsRedo(mgr, turns) ==
    [mgr EXCEPT !.undo = PushUndo(@, turns)]

Checkpoint(mgr, turns) ==
    [undo |-> PushUndo(mgr.undo, turns), redo |-> <<>>]

CanUndo(mgr) == mgr.undo # <<>>
CanRedo(mgr) == mgr.redo # <<>>

Undo(mgr, turns) ==
    [undo |-> Front(mgr.undo), redo |-> Append(mgr.redo, turns)]

Redo(mgr, turns) ==
    [undo |-> PushUndo(mgr.undo, turns), redo |-> Front(mgr.redo)]

\* restore(): the checkpoint at position i and all later ones are dropped.
Restore(mgr, i) == [undo |-> SubSeq(mgr.undo, 1, i - 1), redo |-> <<>>]
=============================================================================
