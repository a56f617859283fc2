--------------------------- MODULE CircuitBreaker ---------------------------
(* The circuit breaker that wraps an LLM provider (llm/circuit_breaker.rs).    *)
(*                                                                             *)
(* The breaker's fields sit behind one mutex, taken once by the pre-flight     *)
(* check of a call and once more when the call's result is recorded; the call  *)
(* to the wrapped provider runs in between with the mutex free.  Calls is the  *)
(* set of callers that may be in that window at the same time: a result is     *)
(* recorded against whatever state the breaker has reached by then.            *)
EXTENDS Integers

CONSTANTS
    Calls,              \* concurrent callers of the provider
    Threshold,          \* config.failure_threshold
    SuccessesNeeded     \* config.half_open_successes_needed

ASSUME ConfigAssumption ==
    Threshold \in Nat \ {0} /\ SuccessesNeeded \in Nat \ {0}

VARIABLES
    state,                  \* the four fields of BreakerState
    consecutive_failures,
    opened_at,
    half_open_successes,
    call,       \* call[c]: is caller c inside the wrapped provider?
    streak      \* history: transient failures recorded since the last recorded
                \* success, whatever the breaker made of them (saturates at
                \* Threshold, the largest value a property looks at)

breaker == <<state, consecutive_failures, opened_at, half_open_successes>>
vars == <<breaker, call, streak>>

CircuitState == {"Closed", "Open", "HalfOpen"}

\* Option<Instant> seen through its only use, elapsed() >= recovery_timeout.
OpenedAt == {"none", "recent", "elapsed"}

Init ==
    /\ state = "Closed"
    /\ consecutive_failures = 0
    /\ opened_at = "none"
    /\ half_open_successes = 0
    /\ call = [c \in Calls |-> "idle"]
    /\ streak = 0

-----------------------------------------------------------------------------
(* check_allowed                                                               *)

\* Mutant: the recovery timeout is ignored, an open circuit refuses every call.
Allowed_NoRecovery == state # "Open"

\* Ok unless the circuit opened less than a recovery timeout ago.
Allowed == ~(state = "Open" /\ opened_at = "recent")

\* What it leaves behind when it returns Ok: an open circuit turns half-open, or
\* closed if it has no timestamp.
CheckAllowed ==
    LET probe == state = "Open" /\ opened_at # "none"
    IN  /\ Allowed
        /\ state' = IF probe THEN "HalfOpen"
                    ELSE IF state = "Open" THEN "Closed" ELSE state
        /\ half_open_successes' = IF probe THEN 0 ELSE half_open_successes
        /\ UNCHANGED <<consecutive_failures, opened_at>>

-----------------------------------------------------------------------------
(* record_success and record_failure, one disjunct per arm of their match      *)

Close ==
    /\ state' = "Closed"
    /\ consecutive_failures' = 0
    /\ opened_at' = "none"

\* Mutant: a success does not reset the failure count of a closed circuit.
SuccessWhileClosed_KeepsCount ==
    /\ state = "Closed"
    /\ UNCHANGED breaker

SuccessWhileClosed ==
    /\ state = "Closed"
    /\ consecutive_failures' = 0
    /\ UNCHANGED <<state, opened_at, half_open_successes>>

SuccessWhileHalfOpen ==
    /\ state = "HalfOpen"
    /\ half_open_successes' = half_open_successes + 1
    /\ IF half_open_successes + 1 >= SuccessesNeeded
       THEN Close
       ELSE UNCHANGED <<state, consecutive_failures, opened_at>>

SuccessWhileOpen ==
    /\ state = "Open"
    /\ Close
    /\ UNCHANGED half_open_successes

RecordSuccess == SuccessWhileClosed \/ SuccessWhileHalfOpen \/ SuccessWhileOpen

Trip == state' = "Open" /\ opened_at' = "recent"

FailureWhileClosed ==
    /\ state = "Closed"
    /\ consecutive_failures' = consecutive_failures + 1
    /\ IF consecutive_failures + 1 >= Threshold
       THEN Trip ELSE UNCHANGED <<state, opened_at>>
    /\ UNCHANGED half_open_successes

FailureWhileHalfOpen ==
    /\ state = "HalfOpen"
    /\ Trip
    /\ half_open_successes' = 0
    /\ UNCHANGED consecutive_failures

FailureWhileOpen ==
    /\ state = "Open"
    /\ UNCHANGED breaker

RecordFailure == FailureWhileClosed \/ FailureWhileHalfOpen \/ FailureWhileOpen

-----------------------------------------------------------------------------
(* complete and complete_with_tools, split at the call to the provider         *)

Begin(c) ==
    /\ call[c] = "idle"
    /\ CheckAllowed
    /\ call' = [call EXCEPT ![c] = "inflight"]
    /\ UNCHANGED streak

Return(c) == call[c] = "inflight" /\ call' = [call EXCEPT ![c] = "idle"]

Succeed(c) ==
    /\ Return(c)
    /\ RecordSuccess
    /\ streak' = 0

\* An error that is_transient accepts.
FailTransient(c) ==
    /\ Return(c)
    /\ RecordFailure
    /\ streak' = IF streak < Threshold THEN streak + 1 ELSE streak

\* Any other error: record_failure returns before it takes the lock.  A caller
\* that is dropped while it waits leaves the same state behind.
FailOther(c) ==
    /\ Return(c)
    /\ UNCHANGED <<breaker, streak>>

\* Time passes: the recovery timeout of the latest opened_at elapses.
Elapse ==
    /\ opened_at = "recent"
    /\ opened_at' = "elapsed"
    /\ UNCHANGED <<state, consecutive_failures, half_open_successes, call, streak>>

Next ==
    \/ \E c \in Calls : Begin(c) \/ Succeed(c) \/ FailTransient(c) \/ FailOther(c)
    \/ Elapse

Spec == Init /\ [][Next]_vars

-----------------------------------------------------------------------------
(* Properties                                                                  *)

\* Every field of BreakerState stays in its range: in particular neither counter
\* outruns its configured limit, however many calls are recorded concurrently.
TypeOK ==
    /\ state \in CircuitState
    /\ consecutive_failures \in 0 .. Threshold
    /\ opened_at \in OpenedAt
    /\ half_open_successes \in 0 .. SuccessesNeeded
    /\ call \in [Calls -> {"idle", "inflight"}]
    /\ streak \in 0 .. Threshold

\* While the circuit is closed, consecutive_failures is exactly the number of
\* transient failures recorded since the last success, and is still below the
\* threshold (record_failure never leaves a full counter in a closed circuit).
ClosedCountsStreak ==
    state = "Closed" => consecutive_failures = streak /\ streak < Threshold

\* opened_at is set exactly while the circuit is not closed, so the "recover
\* gracefully" arm of check_allowed (Open without a timestamp) is dead code.
OpenedAtIffNotClosed == opened_at = "none" <=> state = "Closed"

\* The circuit trips out of Closed only on a streak of Threshold transient
\* failures with no success recorded among them (record_failure's Closed arm
\* against record_success's reset).
TripsOnlyOnStreak ==
    [][state = "Closed" /\ state' = "Open" => streak' = Threshold]_vars

\* An open circuit never refuses calls for ever: check_allowed's timeout elapses
\* and neither refusals nor late failures push it back.
OpenUntilElapsed == state = "Open" ~> Allowed

=============================================================================
