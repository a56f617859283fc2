------------------------------ MODULE LlmChain ------------------------------
(* The provider chain of llm/chain.rs below the response cache: the circuit    *)
(* breaker around the failover provider around one retrying provider each.     *)
(* Retries touch nothing shared, and an attempt is what the retry loop returns.*)
(*                                                                             *)
(* CircuitBreaker is extended by what happens between a call's admission and   *)
(* the recording of its result.  The failover's cooldowns are lock-free: every *)
(* store and every fetch_add on them is a step of its own, as is one scan of   *)
(* the timestamps, and the calls of all callers interleave between these.      *)
EXTENDS CircuitBreaker

CONSTANTS
    NumProviders,       \* self.providers.len()
    CooldownThreshold   \* cooldown_config.failure_threshold

ASSUME ChainAssumption ==
    /\ NumProviders \in Nat \ {0}
    /\ CooldownThreshold \in Nat \ {0}

VARIABLES
    step,           \* step[c]: where call c is between admission and result
    available,      \* available[c]: the indices c has still to try, in their order
    result,         \* result[c]: what c is about to return to the breaker
    failure_count,  \* per provider, as far as the threshold tells values apart
    activated,      \* cooldown_activated_nanos: "none" (0), "recent", "elapsed"
    older,          \* pairs <<p, q>>: the timestamp of p is older than that of q
    health          \* the backends: "fresh", then "bad", then "recovered"

failover == <<failure_count, activated, older>>
progress == <<step, available, result>>
chainVars == <<vars, failover, progress, health>>

P == 1 .. NumProviders
Steps == {"idle", "partition", "oldest", "trying", "counting", "activating",
          "resetCount", "resetCooldown", "record"}

AtProvider == {"trying", "counting", "activating", "resetCount", "resetCooldown"}
Results == {"none", "ok", "exhausted", "expired", "other"}

ChainInit ==
    /\ Init
    /\ step = [c \in Calls |-> "idle"]
    /\ available = [c \in Calls |-> {}]
    /\ result = [c \in Calls |-> "none"]
    /\ failure_count = [p \in P |-> 0]
    /\ activated = [p \in P |-> "none"]
    /\ older = {}
    /\ health = [p \in P |-> "fresh"]

Goto(c, s) == step' = [step EXCEPT ![c] = s]

-----------------------------------------------------------------------------
(* try_providers: choosing whom to try                                         *)

ChainBegin(c) ==
    /\ Begin(c)
    /\ Goto(c, "partition")
    /\ UNCHANGED <<failover, available, result, health>>

\* Mutant: the duration is not compared, a timestamp alone keeps a provider out.
IsInCooldown_NoExpiry(p) == activated[p] # "none"

IsInCooldown(p) == activated[p] = "recent"

\* The providers' timestamps are loaded one after another; here, and in PickOldest,
\* they are read in one step.
Partition(c) ==
    LET usable == {p \in P : ~IsInCooldown(p)}
    IN  /\ step[c] = "partition"
        /\ available' = [available EXCEPT ![c] = usable]
        /\ Goto(c, IF usable = {} THEN "oldest" ELSE "trying")
        /\ UNCHANGED <<vars, failover, result, health>>

\* min_by_key over the timestamps as they are now: a provider reset since the
\* partition has 0 and goes first, the first of them if there are several.
IsOldest(p) ==
    IF \E q \in P : activated[q] = "none"
    THEN activated[p] = "none" /\ \A q \in P : activated[q] = "none" => p <= q
    ELSE \A q \in P \ {p} : <<p, q>> \in older

PickOldest(c) ==
    /\ step[c] = "oldest"
    /\ \E p \in P : IsOldest(p) /\ available' = [available EXCEPT ![c] = {p}]
    /\ Goto(c, "trying")
    /\ UNCHANGED <<vars, failover, result, health>>

-----------------------------------------------------------------------------
(* One attempt, through the provider's retry loop                              *)

Current(c) == CHOOSE p \in available[c] : \A q \in available[c] : p <= q

\* The answer of a call, on its way to the breaker.
Answer(c, r) ==
    /\ result' = [result EXCEPT ![c] = r]
    /\ Goto(c, "record")
    /\ available' = [available EXCEPT ![c] = {}]

AttemptSucceeds(c) ==
    /\ step[c] = "trying"
    /\ Goto(c, "resetCount")
    /\ UNCHANGED <<vars, failover, available, result, health>>

\* A retryable error, after retry_loop has spent its attempts.  The retries in
\* between touch nothing that another call could see.
AttemptFails(c) ==
    /\ step[c] = "trying"
    /\ health[Current(c)] = "bad"
    /\ Goto(c, "counting")
    /\ UNCHANGED <<vars, failover, available, result, health>>

\* SessionExpired is not retryable, so no other provider is tried, but is_transient
\* counts it against the backend.
AttemptExpires(c) ==
    /\ step[c] = "trying"
    /\ health[Current(c)] = "bad"
    /\ Answer(c, "expired")
    /\ UNCHANGED <<vars, failover, health>>

\* An error that is neither retryable nor transient, such as a context that is
\* too long: whatever the provider's health.
AttemptRejected(c) ==
    /\ step[c] = "trying"
    /\ Answer(c, "other")
    /\ UNCHANGED <<vars, failover, health>>

-----------------------------------------------------------------------------
(* The atomics of ProviderCooldown                                             *)

\* Mutant: the first failing provider ends the call.
TryNext_GivesUp(c) == Answer(c, "exhausted")

\* Mutant: the end of the list is noticed one provider too late.
TryNext_OffByOne(c) ==
    IF available[c] = {}
    THEN Answer(c, "exhausted")
    ELSE /\ available' = [available EXCEPT ![c] = @ \ {Current(c)}]
         /\ Goto(c, "trying")
         /\ UNCHANGED result

TryNext(c) ==
    IF available[c] = {Current(c)}
    THEN Answer(c, "exhausted")
    ELSE /\ available' = [available EXCEPT ![c] = @ \ {Current(c)}]
         /\ Goto(c, "trying")
         /\ UNCHANGED result

\* fetch_add; the stored count is kept only up to the threshold.
RecordProviderFailure(c) ==
    LET p == Current(c)
        reached == failure_count[p] + 1 >= CooldownThreshold
    IN  /\ step[c] = "counting"
        /\ failure_count' = [failure_count EXCEPT
                               ![p] = IF reached THEN CooldownThreshold ELSE @ + 1]
        /\ IF reached
           THEN Goto(c, "activating") /\ UNCHANGED <<available, result>>
           ELSE TryNext(c)
        /\ UNCHANGED <<vars, activated, older, health>>

Without(p) == {e \in older : e[1] # p /\ e[2] # p}

ActivateCooldown(c) ==
    LET p == Current(c)
    IN  /\ step[c] = "activating"
        /\ activated' = [activated EXCEPT ![p] = "recent"]
        /\ older' = Without(p) \cup {<<q, p>> : q \in {q \in P \ {p} : activated[q] # "none"}}
        /\ TryNext(c)
        /\ UNCHANGED <<vars, failure_count, health>>

ResetCount(c) ==
    /\ step[c] = "resetCount"
    /\ failure_count' = [failure_count EXCEPT ![Current(c)] = 0]
    /\ Goto(c, "resetCooldown")
    /\ UNCHANGED <<vars, activated, older, available, result, health>>

ResetCooldown(c) ==
    LET p == Current(c)
    IN  /\ step[c] = "resetCooldown"
        /\ activated' = [activated EXCEPT ![p] = "none"]
        /\ older' = Without(p)
        /\ Answer(c, "ok")
        /\ UNCHANGED <<vars, failure_count, health>>

-----------------------------------------------------------------------------
(* Back in the breaker                                                         *)

Leave(c) ==
    /\ Goto(c, "idle")
    /\ available' = [available EXCEPT ![c] = {}]
    /\ result' = [result EXCEPT ![c] = "none"]
    /\ UNCHANGED <<failover, health>>

RecordResult(c) ==
    /\ step[c] = "record"
    /\ \/ result[c] = "ok" /\ Succeed(c)
       \/ result[c] \in {"exhausted", "expired"} /\ FailTransient(c)
       \/ result[c] = "other" /\ FailOther(c)
    /\ Leave(c)

\* The caller is dropped at an await: in the provider, in a retry's sleep or
\* waiting for the breaker's mutex.
Dropped(c) ==
    /\ step[c] \in {"trying", "record"}
    /\ FailOther(c)
    /\ Leave(c)

-----------------------------------------------------------------------------
(* The backends and time                                                       *)

Degrade(p) ==
    /\ health[p] = "fresh"
    /\ health' = [health EXCEPT ![p] = "bad"]
    /\ UNCHANGED <<vars, failover, progress>>

Recover(p) ==
    /\ health[p] = "bad"
    /\ health' = [health EXCEPT ![p] = "recovered"]
    /\ UNCHANGED <<vars, failover, progress>>

CooldownElapses(p) ==
    /\ activated[p] = "recent"
    /\ activated' = [activated EXCEPT ![p] = "elapsed"]
    /\ UNCHANGED <<vars, failure_count, older, progress, health>>

RecoveryElapses == Elapse /\ UNCHANGED <<failover, progress, health>>

CallStep(c) ==
    \/ Partition(c) \/ PickOldest(c)
    \/ AttemptSucceeds(c) \/ AttemptFails(c) \/ AttemptExpires(c) \/ AttemptRejected(c)
    \/ RecordProviderFailure(c) \/ ActivateCooldown(c)
    \/ ResetCount(c) \/ ResetCooldown(c) \/ RecordResult(c)

ChainNext ==
    \/ \E c \in Calls : ChainBegin(c) \/ CallStep(c) \/ Dropped(c)
    \/ \E p \in P : Degrade(p) \/ Recover(p) \/ CooldownElapses(p)
    \/ RecoveryElapses

ChainSpec == ChainInit /\ [][ChainNext]_chainVars

\* Clocks advance and an admitted call goes on: providers answer or their request
\* timeout fails them.  Callers need not call, backends need not recover.
ChainFairSpec ==
    /\ ChainSpec
    /\ WF_chainVars(RecoveryElapses)
    /\ \A p \in P : WF_chainVars(CooldownElapses(p))
    /\ \A c \in Calls : WF_chainVars(CallStep(c))

-----------------------------------------------------------------------------
(* Properties                                                                  *)

\* Every variable of breaker and chain has its type, a call that is at a provider
\* has one, and older puts the providers that have a timestamp, and only those, in
\* a strict total order (so that min_by_key has a result).
ChainTypeOK ==
    /\ TypeOK
    /\ step \in [Calls -> Steps]
    /\ available \in [Calls -> SUBSET P]
    /\ \A c \in Calls : step[c] \in AtProvider => available[c] # {}
    /\ result \in [Calls -> Results]
    /\ failure_count \in [P -> 0 .. CooldownThreshold]
    /\ activated \in [P -> {"none", "recent", "elapsed"}]
    /\ older \subseteq P \X P
    /\ \A p, q \in P :
          /\ <<p, q>> \in older => <<q, p>> \notin older
          /\ p # q => (activated[p] # "none" /\ activated[q] # "none"
                         <=> <<p, q>> \in older \/ <<q, p>> \in older)
          /\ \A r \in P : <<p, q>> \in older /\ <<q, r>> \in older => <<p, r>> \in older
    /\ health \in [P -> {"fresh", "bad", "recovered"}]

\* try_providers gives a call up, and the breaker counts it against the chain, only
\* if every provider has had trouble: one that never failed is not in cooldown,
\* whatever the others' atomics are doing, and is tried before the call gives up.
\* (An expired session is returned at once, and is_transient counts that too.)
GivesUpOnlyIfAllFailed ==
    \A c \in Calls : result[c] = "exhausted" => \A p \in P : health[p] # "fresh"

\* Once every backend is well for good, and calls go on to be answered, the chain
\* comes back to normal: the circuit closes and stays closed, and no provider is
\* skipped any more (recovery timeout, half-open probes, late failures, cooldowns
\* and their resets together).
ComesBack ==
    /\ <>[](\A p \in P : health[p] # "bad")
    /\ []<><<\E c \in Calls : result[c] = "ok" /\ RecordResult(c)>>_chainVars
    => <>[](state = "Closed" /\ \A p \in P : ~IsInCooldown(p))
=============================================================================
