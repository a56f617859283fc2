--------------------------- MODULE LlmChainProofs ---------------------------
(* For any number of concurrent callers, any number of providers and any       *)
(* configured limits.                                                          *)
(*                                                                             *)
(* The breaker by itself: its counters stay within their limits, a closed      *)
(* circuit counts exactly the current streak of failures, and only a full      *)
(* streak trips it.  The chain: every step of it is a step of the breaker or   *)
(* leaves the breaker alone, so all of that holds of the chain; and a call is  *)
(* given up only if every provider has had trouble.  The latter needs to know  *)
(* where every call is: a provider that never failed is in nobody's cooldown   *)
(* and still ahead of every call that is at a provider (ChainSafe).            *)
EXTENDS LlmChain, WellFoundedInduction, TLAPS

-----------------------------------------------------------------------------
(* The breaker                                                                 *)

\* A half-open circuit is still short of the successes that would close it.
HalfOpenShort == state = "HalfOpen" => half_open_successes < SuccessesNeeded

\* The inductive invariant.  TypeOK alone is not inductive: record_failure keeps
\* consecutive_failures within Threshold only because a closed circuit is below
\* it, and record_success needs the same of a half-open one.
BreakerInv == TypeOK /\ ClosedCountsStreak /\ OpenedAtIffNotClosed /\ HalfOpenShort

\* The fresh BreakerState satisfies the invariant.
LEMMA InitBreaker == Init => BreakerInv
BY ConfigAssumption
   DEF Init, BreakerInv, TypeOK, ClosedCountsStreak, OpenedAtIffNotClosed,
       HalfOpenShort, CircuitState, OpenedAt

\* Each of check_allowed, record_success, record_failure and the passage of time
\* preserves the invariant.
LEMMA NextBreaker == BreakerInv /\ [Next]_vars => BreakerInv'
<1> SUFFICES ASSUME BreakerInv, [Next]_vars PROVE BreakerInv'
  OBVIOUS
<1> USE ConfigAssumption
      DEF BreakerInv, TypeOK, ClosedCountsStreak, OpenedAtIffNotClosed, HalfOpenShort,
          CircuitState, OpenedAt
<1>1. ASSUME NEW c \in Calls, Begin(c) PROVE BreakerInv'
  BY <1>1 DEF Begin, CheckAllowed, Allowed
<1>2. ASSUME NEW c \in Calls, Succeed(c) PROVE BreakerInv'
  <2>1. CASE SuccessWhileClosed
    BY <1>2, <2>1 DEF Succeed, Return, SuccessWhileClosed
  <2>2. CASE SuccessWhileHalfOpen
    BY <1>2, <2>2 DEF Succeed, Return, SuccessWhileHalfOpen, Close
  <2>3. CASE SuccessWhileOpen
    BY <1>2, <2>3 DEF Succeed, Return, SuccessWhileOpen, Close
  <2> QED BY <1>2, <2>1, <2>2, <2>3 DEF Succeed, RecordSuccess
<1>3. ASSUME NEW c \in Calls, FailTransient(c) PROVE BreakerInv'
  <2>1. CASE FailureWhileClosed
    BY <1>3, <2>1 DEF FailTransient, Return, FailureWhileClosed, Trip
  <2>2. CASE FailureWhileHalfOpen
    BY <1>3, <2>2 DEF FailTransient, Return, FailureWhileHalfOpen, Trip
  <2>3. CASE FailureWhileOpen
    BY <1>3, <2>3 DEF FailTransient, Return, FailureWhileOpen, breaker
  <2> QED BY <1>3, <2>1, <2>2, <2>3 DEF FailTransient, RecordFailure
<1>4. ASSUME NEW c \in Calls, FailOther(c) PROVE BreakerInv'
  BY <1>4 DEF FailOther, Return, breaker
<1>5. CASE Elapse
  BY <1>5 DEF Elapse
<1>6. CASE UNCHANGED vars
  BY <1>6 DEF vars, breaker
<1> QED BY <1>1, <1>2, <1>3, <1>4, <1>5, <1>6 DEF Next

\* The invariant holds in every reachable state.
LEMMA BreakerInvariant == Spec => []BreakerInv
BY InitBreaker, NextBreaker, PTL DEF Spec

\* Type correctness, including the bounds of both counters.
THEOREM TypeCorrect == Spec => []TypeOK
<1>1. BreakerInv => TypeOK  BY DEF BreakerInv
<1> QED BY BreakerInvariant, <1>1, PTL

\* While closed, consecutive_failures is the current streak and below the
\* threshold (record_success and record_failure keep it exact).
THEOREM ClosedCount == Spec => []ClosedCountsStreak
<1>1. BreakerInv => ClosedCountsStreak  BY DEF BreakerInv
<1> QED BY BreakerInvariant, <1>1, PTL

\* opened_at is None exactly while closed: check_allowed's fallback arm for an
\* open circuit without a timestamp is unreachable.
THEOREM TimestampWhileOpen == Spec => []OpenedAtIffNotClosed
<1>1. BreakerInv => OpenedAtIffNotClosed  BY DEF BreakerInv
<1> QED BY BreakerInvariant, <1>1, PTL

\* Only a streak of Threshold transient failures opens a closed circuit.
THEOREM TripsOnStreak == Spec => TripsOnlyOnStreak
<1>1. ASSUME BreakerInv, [Next]_vars, state = "Closed", state' = "Open"
      PROVE  streak' = Threshold
  <2>1. ASSUME NEW c \in Calls, FailTransient(c) PROVE streak' = Threshold
    <3>1. FailureWhileClosed
      BY <1>1, <2>1
         DEF FailTransient, RecordFailure, FailureWhileHalfOpen, FailureWhileOpen
    <3>2. consecutive_failures + 1 >= Threshold
      BY <1>1, <3>1 DEF FailureWhileClosed
    <3> QED
      BY <1>1, <2>1, <3>2, ConfigAssumption
         DEF FailTransient, BreakerInv, TypeOK, ClosedCountsStreak
  <2>2. ASSUME NEW c \in Calls, Begin(c) PROVE FALSE
    BY <1>1, <2>2 DEF Begin, CheckAllowed
  <2>3. ASSUME NEW c \in Calls, Succeed(c) PROVE FALSE
    BY <1>1, <2>3 DEF Succeed, RecordSuccess, SuccessWhileClosed,
                      SuccessWhileHalfOpen, SuccessWhileOpen
  <2>4. ASSUME NEW c \in Calls, FailOther(c) PROVE FALSE
    BY <1>1, <2>4 DEF FailOther, breaker
  <2>5. CASE Elapse  BY <1>1, <2>5 DEF Elapse
  <2>6. CASE UNCHANGED vars  BY <1>1, <2>6 DEF vars, breaker
  <2> QED BY <1>1, <2>1, <2>2, <2>3, <2>4, <2>5, <2>6 DEF Next
<1>2. BreakerInv /\ [Next]_vars =>
        [state = "Closed" /\ state' = "Open" => streak' = Threshold]_vars
  BY <1>1
<1> QED BY BreakerInvariant, <1>2, PTL DEF Spec, TripsOnlyOnStreak

-----------------------------------------------------------------------------
(* The chain implements the breaker                                            *)

\* Every step of the chain is a step of the breaker or leaves it alone.
LEMMA ChainStepIsBreakerStep == [ChainNext]_chainVars => [Next]_vars
<1> SUFFICES ASSUME [ChainNext]_chainVars PROVE [Next]_vars
  OBVIOUS
<1>1. ASSUME NEW c \in Calls, ChainBegin(c) PROVE Next
  BY <1>1 DEF ChainBegin, Next
<1>2. ASSUME NEW c \in Calls, CallStep(c) PROVE [Next]_vars
  <2>1. CASE RecordResult(c)
    BY <2>1 DEF RecordResult, Next
  <2>2. CASE ~RecordResult(c)
    <3>1. UNCHANGED vars
      BY <1>2, <2>2
         DEF CallStep, Partition, PickOldest, AttemptSucceeds, AttemptFails,
             AttemptExpires, AttemptRejected, RecordProviderFailure,
             ActivateCooldown, ResetCount, ResetCooldown
    <3> QED BY <3>1
  <2> QED BY <2>1, <2>2
<1>3. ASSUME NEW c \in Calls, Dropped(c) PROVE Next
  BY <1>3 DEF Dropped, Next
<1>4. ASSUME NEW p \in P, Degrade(p) \/ Recover(p) \/ CooldownElapses(p)
      PROVE  UNCHANGED vars
  BY <1>4 DEF Degrade, Recover, CooldownElapses
<1>5. CASE RecoveryElapses
  BY <1>5 DEF RecoveryElapses, Next
<1>6. CASE UNCHANGED chainVars
  BY <1>6 DEF chainVars
<1> QED BY <1>1, <1>2, <1>3, <1>4, <1>5, <1>6 DEF ChainNext

\* The provider chain is a circuit breaker whatever happens between check_allowed
\* and the recording of a result: failover, cooldowns, dropped callers.
THEOREM ChainImplementsBreaker == ChainSpec => Spec
<1>1. ChainInit => Init  BY DEF ChainInit
<1> QED BY <1>1, ChainStepIsBreakerStep, PTL DEF ChainSpec, Spec

\* So the breaker's counter is exact in the chain, an open circuit has a
\* timestamp, and only a streak of transient failures trips it.
THEOREM ChainBreakerSafe ==
    ChainSpec => []ClosedCountsStreak /\ []OpenedAtIffNotClosed /\ TripsOnlyOnStreak
BY ChainImplementsBreaker, ClosedCount, TimestampWhileOpen, TripsOnStreak

-----------------------------------------------------------------------------
(* The chain's own invariant                                                   *)

\* The part of ChainTypeOK about the timestamps.
OlderOK ==
    /\ activated \in [P -> {"none", "recent", "elapsed"}]
    /\ older \subseteq P \X P
    /\ \A p, q \in P :
          /\ <<p, q>> \in older => <<q, p>> \notin older
          /\ p # q => (activated[p] # "none" /\ activated[q] # "none"
                         <=> <<p, q>> \in older \/ <<q, p>> \in older)
          /\ \A r \in P : <<p, q>> \in older /\ <<q, r>> \in older => <<p, r>> \in older

\* And the rest of it, about the calls and the counts.
CallsOK ==
    /\ step \in [Calls -> Steps]
    /\ available \in [Calls -> SUBSET P]
    /\ \A c \in Calls : step[c] \in AtProvider => available[c] # {}
    /\ result \in [Calls -> Results]
    /\ failure_count \in [P -> 0 .. CooldownThreshold]
    /\ health \in [P -> {"fresh", "bad", "recovered"}]

NoneFresh == \A p \in P : health[p] # "fresh"

\* A provider that never failed has no timestamp, and is ahead of every call that
\* is at a provider; a call that records a failure does so for one that failed; a
\* call that found nobody out of cooldown, or gave up, has seen all of them fail.
ChainSafe ==
    /\ \A p \in P : activated[p] # "none" => health[p] # "fresh"
    /\ \A c \in Calls :
          /\ step[c] \in {"counting", "activating"} => health[Current(c)] # "fresh"
          /\ step[c] \in AtProvider =>
                \A p \in P : health[p] = "fresh" => p \in available[c]
          /\ step[c] = "oldest" => NoneFresh
          /\ result[c] = "exhausted" => NoneFresh

ChainInv == OlderOK /\ CallsOK /\ ChainSafe

\* Every non-empty set of providers has a first one.
LEMMA FirstExists ==
    ASSUME NEW S \in SUBSET P, S # {}
    PROVE  \E p \in S : \A q \in S : p <= q
<1>1. P \subseteq Nat  BY ChainAssumption DEF P
<1> DEFINE Less == {ss \in Nat \X Nat : ss[1] < ss[2]}
<1>2. IsWellFoundedOn(Less, Nat)
  BY NatLessThanWellFounded DEF OpToRel
<1>3. PICK p \in S : \A q \in S : ~(<<q, p>> \in Less)
  <2> HIDE DEF Less
  <2> QED BY <1>1, <1>2, WFMin, Zenon
<1>4. ASSUME NEW q \in S PROVE p <= q
  <2>1. p \in Nat /\ q \in Nat  BY <1>1
  <2>2. q < p => <<q, p>> \in Less  BY <2>1
  <2> QED BY <1>3, <2>1, <2>2
<1> QED BY <1>4

\* So a call that has providers left is at one of them.
LEMMA CurrentAvailable ==
    ASSUME CallsOK, NEW c \in Calls, available[c] # {}
    PROVE  Current(c) \in available[c] /\ Current(c) \in P
<1>1. available[c] \in SUBSET P  BY DEF CallsOK
<1>2. \E p \in available[c] : \A q \in available[c] : p <= q
  BY <1>1, FirstExists
<1> QED BY <1>1, <1>2 DEF Current

\* The chain starts with every provider fresh and every call idle.
LEMMA InitChain == ChainInit => ChainInv
BY ChainAssumption
   DEF ChainInit, ChainInv, OlderOK, CallsOK, ChainSafe, NoneFresh, Steps,
       AtProvider, Results

\* store(now): p becomes the youngest of those that have a timestamp.
LEMMA ActivateKeepsOrder ==
    ASSUME OlderOK, NEW p \in P,
           activated' = [activated EXCEPT ![p] = "recent"],
           older' = Without(p) \cup {<<q, p>> : q \in {q \in P \ {p} : activated[q] # "none"}}
    PROVE  OlderOK'
<1>1. \A x, y \in P : <<x, y>> \in older' <=>
         \/ x # p /\ y # p /\ <<x, y>> \in older
         \/ y = p /\ x # p /\ activated[x] # "none"
  BY DEF Without
<1>2. older' \subseteq P \X P  BY DEF OlderOK, Without
<1>3. \A x \in P : activated'[x] = IF x = p THEN "recent" ELSE activated[x]
  BY DEF OlderOK
<1>4. activated' \in [P -> {"none", "recent", "elapsed"}]  BY DEF OlderOK
<1>5. \A x, y \in P : <<x, y>> \in older' => <<y, x>> \notin older'
  BY <1>1 DEF OlderOK
<1>6. \A x, y \in P : x # y =>
         (activated'[x] # "none" /\ activated'[y] # "none"
            <=> <<x, y>> \in older' \/ <<y, x>> \in older')
  <2> SUFFICES ASSUME NEW x \in P, NEW y \in P, x # y
               PROVE  activated'[x] # "none" /\ activated'[y] # "none"
                        <=> <<x, y>> \in older' \/ <<y, x>> \in older'
    OBVIOUS
  <2>1. CASE x # p /\ y # p  BY <1>1, <1>3, <2>1 DEF OlderOK
  <2>2. CASE x = p  BY <1>1, <1>3, <2>2
  <2>3. CASE y = p  BY <1>1, <1>3, <2>3
  <2> QED BY <2>1, <2>2, <2>3
<1>7. \A x, y, z \in P : <<x, y>> \in older' /\ <<y, z>> \in older' => <<x, z>> \in older'
  <2> SUFFICES ASSUME NEW x \in P, NEW y \in P, NEW z \in P,
                      <<x, y>> \in older', <<y, z>> \in older'
               PROVE  <<x, z>> \in older'
    OBVIOUS
  <2>1. x # p /\ y # p /\ <<x, y>> \in older  BY <1>1
  <2>2. x # y /\ activated[x] # "none"  BY <2>1 DEF OlderOK
  <2> QED BY <1>1, <2>1, <2>2 DEF OlderOK
<1> QED BY <1>2, <1>4, <1>5, <1>6, <1>7 DEF OlderOK

\* store(0): p leaves the order.
LEMMA ResetKeepsOrder ==
    ASSUME OlderOK, NEW p \in P,
           activated' = [activated EXCEPT ![p] = "none"],
           older' = Without(p)
    PROVE  OlderOK'
<1>1. \A x, y \in P : <<x, y>> \in older' <=> x # p /\ y # p /\ <<x, y>> \in older
  BY DEF Without
<1>2. older' \subseteq P \X P  BY DEF OlderOK, Without
<1>3. \A x \in P : activated'[x] = IF x = p THEN "none" ELSE activated[x]
  BY DEF OlderOK
<1>4. activated' \in [P -> {"none", "recent", "elapsed"}]  BY DEF OlderOK
<1>5. \A x, y \in P : <<x, y>> \in older' => <<y, x>> \notin older'
  BY <1>1 DEF OlderOK
<1>6. \A x, y \in P : x # y =>
         (activated'[x] # "none" /\ activated'[y] # "none"
            <=> <<x, y>> \in older' \/ <<y, x>> \in older')
  BY <1>1, <1>3 DEF OlderOK
<1>7. \A x, y, z \in P : <<x, y>> \in older' /\ <<y, z>> \in older' => <<x, z>> \in older'
  BY <1>1 DEF OlderOK
<1> QED BY <1>2, <1>4, <1>5, <1>6, <1>7 DEF OlderOK

\* trying the next provider, after the current one has been seen to fail, keeps
\* every fresh provider ahead; the last one gives the call up.
LEMMA TryNextSafe ==
    ASSUME CallsOK, ChainSafe, NEW c \in Calls,
           step[c] \in {"counting", "activating"}, TryNext(c), health' = health
    PROVE  /\ step' \in [Calls -> Steps]
           /\ available' \in [Calls -> SUBSET P]
           /\ result' \in [Calls -> Results]
           /\ \A d \in Calls : step'[d] \in AtProvider => available'[d] # {}
           /\ \A d \in Calls :
                 /\ step'[d] \in {"counting", "activating"} =>
                       step[d] = step'[d] /\ available'[d] = available[d]
                 /\ step'[d] \in AtProvider =>
                       \A p \in P : health[p] = "fresh" => p \in available'[d]
                 /\ step'[d] = "oldest" => step[d] = "oldest"
                 /\ result'[d] = "exhausted" => NoneFresh
<1>1. available[c] # {}  BY DEF CallsOK, AtProvider
<1>2. Current(c) \in available[c] /\ Current(c) \in P  BY <1>1, CurrentAvailable
<1>3. health[Current(c)] # "fresh"  BY DEF ChainSafe
<1>4. \A p \in P : health[p] = "fresh" => p \in available[c]
  BY DEF ChainSafe, AtProvider
<1> DEFINE p0 == Current(c)
<1> HIDE DEF p0
<1>5. CASE available[c] = {Current(c)}
  <2>1. NoneFresh  BY <1>3, <1>4, <1>5 DEF NoneFresh
  <2>2. Answer(c, "exhausted")  BY <1>5 DEF TryNext
  <2> QED BY <2>1, <2>2 DEF Answer, Goto, CallsOK, ChainSafe, Steps, AtProvider, Results
<1>6. CASE available[c] # {Current(c)}
  <2>1. /\ available' = [available EXCEPT ![c] = @ \ {p0}]
        /\ step' = [step EXCEPT ![c] = "trying"]
        /\ result' = result
    BY <1>6 DEF TryNext, Goto, p0
  <2>2. p0 \in available[c] /\ available[c] # {p0} /\ health[p0] # "fresh"
    BY <1>2, <1>3, <1>6 DEF p0
  <2> QED BY <1>4, <2>1, <2>2 DEF CallsOK, ChainSafe, Steps, AtProvider
<1> QED BY <1>5, <1>6

\* Current(d) depends on available[d] only.
LEMMA CurrentFrame ==
    ASSUME NEW d, available'[d] = available[d]
    PROVE  Current(d)' = Current(d)
BY DEF Current

\* What a step must show of the calls it moves, if it leaves the backends alone
\* and gives no timestamp to a fresh provider.
LEMMA ChainSafeStep ==
    ASSUME ChainSafe, health' = health,
           \A p \in P : activated'[p] # "none" => activated[p] # "none" \/ health[p] # "fresh",
           \A d \in Calls :
              /\ step'[d] \in {"counting", "activating"} =>
                    /\ available'[d] = available[d]
                    /\ step[d] \in {"counting", "activating"} \/ health[Current(d)] # "fresh"
              /\ step'[d] \in AtProvider =>
                    \A p \in P : health[p] = "fresh" => p \in available'[d]
              /\ step'[d] = "oldest" => step[d] = "oldest" \/ NoneFresh
              /\ result'[d] = "exhausted" => result[d] = "exhausted" \/ NoneFresh
    PROVE  ChainSafe'
<1>1. \A d \in Calls : step'[d] \in {"counting", "activating"} =>
         health[Current(d)] # "fresh" /\ Current(d)' = Current(d)
  BY CurrentFrame DEF ChainSafe
<1>2. \A d \in Calls : step'[d] = "oldest" \/ result'[d] = "exhausted" => NoneFresh
  BY DEF ChainSafe
<1>3. \A p \in P : activated'[p] # "none" => health[p] # "fresh"
  BY DEF ChainSafe
<1>4. NoneFresh' <=> NoneFresh  BY DEF NoneFresh
<1> QED BY <1>1, <1>2, <1>3, <1>4 DEF ChainSafe

\* A call that leaves the chain takes nothing with it.
LEMMA LeaveInv ==
    ASSUME ChainInv, NEW c \in Calls, Leave(c) PROVE ChainInv'
<1> USE DEF ChainInv
<1>1. /\ step' = [step EXCEPT ![c] = "idle"]
      /\ available' = [available EXCEPT ![c] = {}]
      /\ result' = [result EXCEPT ![c] = "none"]
      /\ UNCHANGED <<failure_count, activated, older, health>>
  BY DEF Leave, Goto, failover
<1>2. CallsOK'  BY <1>1 DEF CallsOK, Steps, AtProvider, Results
<1>3. ChainSafe'
  <2>1. \A d \in Calls :
              /\ step'[d] \in {"counting", "activating"} =>
                    available'[d] = available[d] /\ step[d] = step'[d]
              /\ step'[d] \in AtProvider =>
                    \A q \in P : health[q] = "fresh" => q \in available'[d]
              /\ step'[d] = "oldest" => step[d] = "oldest"
              /\ result'[d] = "exhausted" => result[d] = "exhausted"
    BY <1>1 DEF CallsOK, ChainSafe, AtProvider
  <2> QED BY <1>1, <2>1, ChainSafeStep
<1>4. OlderOK'  BY <1>1 DEF OlderOK
<1> QED BY <1>2, <1>3, <1>4


\* Each step of a call preserves the invariant.
LEMMA CallStepInv ==
    ASSUME ChainInv, NEW c \in Calls, CallStep(c) PROVE ChainInv'
<1> USE DEF ChainInv
<1>1. CASE Partition(c)
  <2> DEFINE usable == {p \in P : ~IsInCooldown(p)}
  <2>1. \A p \in P : p \notin usable => health[p] # "fresh"
    BY DEF IsInCooldown, ChainSafe
  <2>2. usable = {} => NoneFresh  BY <2>1 DEF NoneFresh
  <2>3. usable \in SUBSET P  OBVIOUS
  <2>4. /\ available' = [available EXCEPT ![c] = usable]
        /\ step' = [step EXCEPT ![c] = IF usable = {} THEN "oldest" ELSE "trying"]
        /\ UNCHANGED <<failure_count, activated, older, result, health>>
    BY <1>1 DEF Partition, Goto, failover
  <2> HIDE DEF usable
  <2>5. CallsOK'  BY <2>3, <2>4 DEF CallsOK, Steps, AtProvider
  <2>6. ChainSafe'
    <3>1. \A d \in Calls :
              /\ step'[d] \in {"counting", "activating"} =>
                    available'[d] = available[d] /\ step[d] = step'[d]
              /\ step'[d] \in AtProvider =>
                    \A p \in P : health[p] = "fresh" => p \in available'[d]
              /\ step'[d] = "oldest" => step[d] = "oldest" \/ NoneFresh
      BY <2>1, <2>2, <2>4 DEF CallsOK, ChainSafe, AtProvider
    <3> QED BY <2>4, <3>1, ChainSafeStep
  <2>7. OlderOK'  BY <2>4 DEF OlderOK
  <2> QED BY <2>5, <2>6, <2>7
<1>2. CASE PickOldest(c)
  <2>1. PICK p \in P : available' = [available EXCEPT ![c] = {p}]
    BY <1>2 DEF PickOldest
  <2>2. /\ step[c] = "oldest"
        /\ step' = [step EXCEPT ![c] = "trying"]
        /\ UNCHANGED <<failure_count, activated, older, result, health>>
    BY <1>2 DEF PickOldest, Goto, failover
  <2>3. NoneFresh  BY <2>2 DEF ChainSafe
  <2>4. CallsOK'  BY <2>1, <2>2 DEF CallsOK, Steps, AtProvider
  <2>5. ChainSafe'
    <3>1. \A d \in Calls :
              /\ step'[d] \in {"counting", "activating"} =>
                    available'[d] = available[d] /\ step[d] = step'[d]
              /\ step'[d] \in AtProvider =>
                    \A q \in P : health[q] = "fresh" => q \in available'[d]
              /\ step'[d] = "oldest" => step[d] = "oldest"
      BY <2>1, <2>2, <2>3 DEF CallsOK, ChainSafe, AtProvider, NoneFresh
    <3> QED BY <2>2, <3>1, ChainSafeStep
  <2>6. OlderOK'  BY <2>2 DEF OlderOK
  <2> QED BY <2>4, <2>5, <2>6
<1>3. CASE AttemptSucceeds(c) \/ AttemptFails(c)
  <2>1. /\ step[c] = "trying"
        /\ \/ step' = [step EXCEPT ![c] = "resetCount"]
           \/ step' = [step EXCEPT ![c] = "counting"] /\ health[Current(c)] = "bad"
        /\ UNCHANGED <<failure_count, activated, older, available, result, health>>
    BY <1>3 DEF AttemptSucceeds, AttemptFails, Goto, failover
  <2>2. CallsOK'  BY <2>1 DEF CallsOK, Steps, AtProvider
  <2>3. ChainSafe'
    <3>1. \A d \in Calls :
              /\ step'[d] \in {"counting", "activating"} =>
                    step[d] = step'[d] \/ health[Current(d)] # "fresh"
              /\ step'[d] \in AtProvider =>
                    \A q \in P : health[q] = "fresh" => q \in available'[d]
              /\ step'[d] = "oldest" => step[d] = "oldest"
      BY <2>1 DEF CallsOK, ChainSafe, AtProvider
    <3> QED BY <2>1, <3>1, ChainSafeStep
  <2>4. OlderOK'  BY <2>1 DEF OlderOK
  <2> QED BY <2>2, <2>3, <2>4
<1>4. CASE AttemptExpires(c) \/ AttemptRejected(c)
  <2>1. PICK r \in {"expired", "other"} :
          /\ result' = [result EXCEPT ![c] = r]
          /\ step' = [step EXCEPT ![c] = "record"]
          /\ available' = [available EXCEPT ![c] = {}]
          /\ UNCHANGED <<failure_count, activated, older, health>>
    BY <1>4 DEF AttemptExpires, AttemptRejected, Answer, Goto, failover
  <2>2. CallsOK'  BY <2>1 DEF CallsOK, Steps, AtProvider, Results
  <2>3. ChainSafe'
    <3>1. \A d \in Calls :
              /\ step'[d] \in {"counting", "activating"} =>
                    available'[d] = available[d] /\ step[d] = step'[d]
              /\ step'[d] \in AtProvider =>
                    \A q \in P : health[q] = "fresh" => q \in available'[d]
              /\ step'[d] = "oldest" => step[d] = "oldest"
              /\ result'[d] = "exhausted" => result[d] = "exhausted"
      BY <2>1 DEF CallsOK, ChainSafe, AtProvider
    <3> QED BY <2>1, <3>1, ChainSafeStep
  <2>4. OlderOK'  BY <2>1 DEF OlderOK
  <2> QED BY <2>2, <2>3, <2>4
<1>5. CASE RecordProviderFailure(c)
  <2> DEFINE p0 == Current(c)
  <2>1. available[c] # {} /\ step[c] = "counting"
    BY <1>5 DEF RecordProviderFailure, CallsOK, AtProvider
  <2>2. p0 \in P  BY <2>1, CurrentAvailable
  <2>3. /\ failure_count' = [failure_count EXCEPT ![p0] =
                IF failure_count[p0] + 1 >= CooldownThreshold THEN CooldownThreshold ELSE @ + 1]
        /\ UNCHANGED <<activated, older, health>>
    BY <1>5 DEF RecordProviderFailure
  <2> HIDE DEF p0
  <2>4. failure_count' \in [P -> 0 .. CooldownThreshold]
    BY <2>2, <2>3, ChainAssumption DEF CallsOK
  <2>5. OlderOK'  BY <2>3 DEF OlderOK
  <2>6. CASE Goto(c, "activating") /\ UNCHANGED <<available, result>>
    <3>1. CallsOK'  BY <2>1, <2>3, <2>4, <2>6 DEF CallsOK, Goto, Steps, AtProvider
    <3>2. ChainSafe'
      <4>1. \A d \in Calls :
              /\ step'[d] \in {"counting", "activating"} => step[d] \in {"counting", "activating"}
              /\ step'[d] \in AtProvider =>
                    \A q \in P : health[q] = "fresh" => q \in available'[d]
              /\ step'[d] = "oldest" => step[d] = "oldest"
        BY <2>1, <2>6 DEF CallsOK, ChainSafe, AtProvider, Goto
      <4> QED BY <2>3, <2>6, <4>1, ChainSafeStep
    <3> QED BY <2>5, <3>1, <3>2
  <2>7. CASE TryNext(c)
    <3>1. CallsOK'  BY <2>1, <2>3, <2>4, <2>7, TryNextSafe DEF CallsOK
    <3>2. ChainSafe'  BY <2>1, <2>3, <2>7, TryNextSafe, ChainSafeStep
    <3> QED BY <2>5, <3>1, <3>2
  <2> QED BY <1>5, <2>6, <2>7 DEF RecordProviderFailure
<1>6. CASE ActivateCooldown(c)
  <2> DEFINE p0 == Current(c)
  <2>1. available[c] # {} /\ step[c] = "activating"
    BY <1>6 DEF ActivateCooldown, CallsOK, AtProvider
  <2>2. p0 \in P /\ health[p0] # "fresh"  BY <2>1, CurrentAvailable DEF ChainSafe
  <2>3. /\ activated' = [activated EXCEPT ![p0] = "recent"]
        /\ older' = Without(p0) \cup {<<q, p0>> : q \in {q \in P \ {p0} : activated[q] # "none"}}
        /\ UNCHANGED <<failure_count, health>>
        /\ TryNext(c)
    BY <1>6 DEF ActivateCooldown
  <2> HIDE DEF p0
  <2>4. OlderOK'  BY <2>2, <2>3, ActivateKeepsOrder
  <2>5. \A p \in P : activated'[p] # "none" => activated[p] # "none" \/ health[p] # "fresh"
    BY <2>2, <2>3 DEF OlderOK
  <2>6. CallsOK'  BY <2>1, <2>3, TryNextSafe DEF CallsOK
  <2>7. ChainSafe'  BY <2>1, <2>3, <2>5, TryNextSafe, ChainSafeStep
  <2> QED BY <2>4, <2>6, <2>7
<1>7. CASE ResetCount(c)
  <2> DEFINE p0 == Current(c)
  <2>1. available[c] # {} /\ step[c] = "resetCount"
    BY <1>7 DEF ResetCount, CallsOK, AtProvider
  <2>2. p0 \in P  BY <2>1, CurrentAvailable
  <2>3. /\ failure_count' = [failure_count EXCEPT ![p0] = 0]
        /\ step' = [step EXCEPT ![c] = "resetCooldown"]
        /\ UNCHANGED <<activated, older, available, result, health>>
    BY <1>7 DEF ResetCount, Goto
  <2> HIDE DEF p0
  <2>4. CallsOK'  BY <2>1, <2>2, <2>3, ChainAssumption DEF CallsOK, Steps, AtProvider
  <2>5. ChainSafe'
    <3>1. \A d \in Calls :
              /\ step'[d] \in {"counting", "activating"} => step[d] = step'[d]
              /\ step'[d] \in AtProvider =>
                    \A q \in P : health[q] = "fresh" => q \in available'[d]
              /\ step'[d] = "oldest" => step[d] = "oldest"
      BY <2>1, <2>3 DEF CallsOK, ChainSafe, AtProvider
    <3> QED BY <2>3, <3>1, ChainSafeStep
  <2>6. OlderOK'  BY <2>3 DEF OlderOK
  <2> QED BY <2>4, <2>5, <2>6
<1>8. CASE ResetCooldown(c)
  <2> DEFINE p0 == Current(c)
  <2>1. available[c] # {} /\ step[c] = "resetCooldown"
    BY <1>8 DEF ResetCooldown, CallsOK, AtProvider
  <2>2. p0 \in P  BY <2>1, CurrentAvailable
  <2>3. /\ activated' = [activated EXCEPT ![p0] = "none"]
        /\ older' = Without(p0)
        /\ result' = [result EXCEPT ![c] = "ok"]
        /\ step' = [step EXCEPT ![c] = "record"]
        /\ available' = [available EXCEPT ![c] = {}]
        /\ UNCHANGED <<failure_count, health>>
    BY <1>8 DEF ResetCooldown, Answer, Goto
  <2> HIDE DEF p0
  <2>4. OlderOK'  BY <2>2, <2>3, ResetKeepsOrder
  <2>5. \A p \in P : activated'[p] # "none" => activated[p] # "none"
    BY <2>2, <2>3 DEF OlderOK
  <2>6. CallsOK'  BY <2>3 DEF CallsOK, Steps, AtProvider, Results
  <2>7. ChainSafe'
    <3>1. \A d \in Calls :
              /\ step'[d] \in {"counting", "activating"} =>
                    available'[d] = available[d] /\ step[d] = step'[d]
              /\ step'[d] \in AtProvider =>
                    \A q \in P : health[q] = "fresh" => q \in available'[d]
              /\ step'[d] = "oldest" => step[d] = "oldest"
              /\ result'[d] = "exhausted" => result[d] = "exhausted"
      BY <2>3 DEF CallsOK, ChainSafe, AtProvider
    <3> QED BY <2>3, <2>5, <3>1, ChainSafeStep
  <2> QED BY <2>4, <2>6, <2>7
<1>9. CASE RecordResult(c)
  BY <1>9, LeaveInv DEF RecordResult
<1> QED BY <1>1, <1>2, <1>3, <1>4, <1>5, <1>6, <1>7, <1>8, <1>9 DEF CallStep

\* So does every step of the chain.
LEMMA NextChain == ChainInv /\ [ChainNext]_chainVars => ChainInv'
<1> SUFFICES ASSUME ChainInv, [ChainNext]_chainVars PROVE ChainInv'
  OBVIOUS
<1> USE DEF ChainInv
<1>1. ASSUME NEW c \in Calls, ChainBegin(c) PROVE ChainInv'
  <2>1. /\ step' = [step EXCEPT ![c] = "partition"]
        /\ UNCHANGED <<failure_count, activated, older, available, result, health>>
    BY <1>1 DEF ChainBegin, Goto, failover
  <2>2. CallsOK'  BY <2>1 DEF CallsOK, Steps, AtProvider
  <2>3. ChainSafe'
    <3>1. \A d \in Calls :
              /\ step'[d] \in {"counting", "activating"} => step[d] = step'[d]
              /\ step'[d] \in AtProvider =>
                    \A q \in P : health[q] = "fresh" => q \in available'[d]
              /\ step'[d] = "oldest" => step[d] = "oldest"
      BY <2>1 DEF CallsOK, ChainSafe, AtProvider
    <3> QED BY <2>1, <3>1, ChainSafeStep
  <2>4. OlderOK'  BY <2>1 DEF OlderOK
  <2> QED BY <2>2, <2>3, <2>4
<1>2. ASSUME NEW c \in Calls, CallStep(c) PROVE ChainInv'
  BY <1>2, CallStepInv
<1>3. ASSUME NEW c \in Calls, Dropped(c) PROVE ChainInv'
  BY <1>3, LeaveInv DEF Dropped
<1>4. ASSUME NEW p \in P, Degrade(p) \/ Recover(p) PROVE ChainInv'
  <2>1. /\ health' \in [P -> {"fresh", "bad", "recovered"}]
        /\ \A q \in P : health'[q] = "fresh" => health[q] = "fresh"
    BY <1>4 DEF Degrade, Recover, CallsOK
  <2>2. UNCHANGED <<failure_count, activated, older, step, available, result>>
    BY <1>4 DEF Degrade, Recover, failover, progress
  <2>3. OlderOK' /\ CallsOK'  BY <2>1, <2>2 DEF OlderOK, CallsOK
  <2>4. NoneFresh => NoneFresh'  BY <2>1 DEF NoneFresh
  <2>5. \A d \in Calls : step[d] \in {"counting", "activating"} =>
           health'[Current(d)] # "fresh" /\ Current(d)' = Current(d)
    <3> SUFFICES ASSUME NEW d \in Calls, step[d] \in {"counting", "activating"}
                 PROVE  health'[Current(d)] # "fresh" /\ Current(d)' = Current(d)
      OBVIOUS
    <3>1. Current(d) \in P  BY CurrentAvailable DEF CallsOK, AtProvider
    <3>2. health[Current(d)] # "fresh"  BY DEF ChainSafe
    <3> QED BY <2>1, <2>2, <3>1, <3>2, CurrentFrame
  <2>6. ChainSafe'  BY <2>1, <2>2, <2>4, <2>5 DEF ChainSafe
  <2> QED BY <2>3, <2>6
<1>5. ASSUME NEW p \in P, CooldownElapses(p) PROVE ChainInv'
  <2>1. /\ activated[p] = "recent"
        /\ activated' = [activated EXCEPT ![p] = "elapsed"]
        /\ UNCHANGED <<failure_count, older, step, available, result, health>>
    BY <1>5 DEF CooldownElapses, progress
  <2>2. \A q \in P : activated'[q] # "none" <=> activated[q] # "none"
    BY <2>1 DEF OlderOK
  <2>3. OlderOK'
    <3>1. activated' \in [P -> {"none", "recent", "elapsed"}]  BY <2>1 DEF OlderOK
    <3> QED BY <2>1, <2>2, <3>1 DEF OlderOK
  <2>4. CallsOK'  BY <2>1 DEF CallsOK
  <2>5. ChainSafe'  BY <2>1, <2>2, ChainSafeStep DEF ChainSafe
  <2> QED BY <2>3, <2>4, <2>5
<1>6. CASE RecoveryElapses \/ UNCHANGED chainVars
  <2>1. UNCHANGED <<failure_count, activated, older, step, available, result, health>>
    BY <1>6 DEF RecoveryElapses, chainVars, failover, progress
  <2>2. OlderOK' /\ CallsOK'  BY <2>1 DEF OlderOK, CallsOK
  <2>3. ChainSafe'  BY <2>1, ChainSafeStep DEF ChainSafe
  <2> QED BY <2>2, <2>3
<1> QED BY <1>1, <1>2, <1>3, <1>4, <1>5, <1>6 DEF ChainNext

\* The chain's invariant holds in every reachable state.
LEMMA ChainInvariant == ChainSpec => []ChainInv
BY InitChain, NextChain, PTL DEF ChainSpec

\* Every variable of breaker and chain keeps its type, a call that is at a
\* provider has one left, and the timestamps stay in a strict total order, so that
\* min_by_key has a result whoever stores and resets them in the meantime.
THEOREM ChainTypeCorrect == ChainSpec => []ChainTypeOK
<1>1. TypeOK /\ ChainInv => ChainTypeOK
  BY DEF ChainInv, OlderOK, CallsOK, ChainTypeOK
<1> QED BY ChainInvariant, ChainImplementsBreaker, TypeCorrect, <1>1, PTL

\* try_providers gives a call up only if every provider has had trouble.
THEOREM GiveUpSound == ChainSpec => []GivesUpOnlyIfAllFailed
<1>1. ChainInv => GivesUpOnlyIfAllFailed
  BY DEF ChainInv, ChainSafe, NoneFresh, GivesUpOnlyIfAllFailed
<1> QED BY ChainInvariant, <1>1, PTL
=============================================================================
