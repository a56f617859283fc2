------------------------------ MODULE JobState ------------------------------
(* The job state machine of context/state/job_state.rs, and the parts of       *)
(* JobContext (context/state.rs) that move a job along it.                     *)
EXTENDS Integers, Sequences

CONSTANT MaxTransitions     \* MAX_TRANSITIONS, the cap on the kept history

ASSUME MaxTransitionsAssumption == MaxTransitions \in Nat \ {0}

State ==
    {"Pending", "InProgress", "Completed", "Submitted", "Accepted", "Failed",
     "Stuck", "Cancelled"}

\* The pairs can_transition_to matches.
Edges ==
    {<<"Pending", "InProgress">>, <<"Pending", "Cancelled">>,
     <<"InProgress", "Completed">>, <<"InProgress", "Failed">>,
     <<"InProgress", "Stuck">>, <<"InProgress", "Cancelled">>,
     <<"Completed", "Submitted">>, <<"Completed", "Failed">>,
     <<"Submitted", "Accepted">>, <<"Submitted", "Failed">>,
     <<"Stuck", "InProgress">>, <<"Stuck", "Failed">>, <<"Stuck", "Cancelled">>}

CanTransitionTo(s, t) == <<s, t>> \in Edges

IsTerminal(s) == s \in {"Accepted", "Failed", "Cancelled"}

IsActive(s) == s \in State /\ ~IsTerminal(s)

-----------------------------------------------------------------------------
(* The transition history: a sequence of <<from, to>> pairs, newest last.      *)

\* transition_to pushes the new pair and drains the oldest beyond the cap.
Push(history, edge) ==
    LET pushed == Append(history, edge)
    IN  IF Len(pushed) > MaxTransitions
        THEN SubSeq(pushed, Len(pushed) - MaxTransitions + 1, Len(pushed))
        ELSE pushed

Newest(history) == history[Len(history)]

\* transitions.pop()
Pop(history) == SubSeq(history, 1, Len(history) - 1)

\* last_transition_matches_rollback: the newest pair leads from `previous` to
\* the state the job is in now.
MatchesRollback(history, s, previous) ==
    /\ history # <<>>
    /\ Newest(history) = <<previous, s>>

=============================================================================
