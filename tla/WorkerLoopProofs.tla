-------------------------- MODULE WorkerLoopProofs --------------------------
(* Safety of one worker's loop, for any limits, any batch size and any number  *)
(* of follow-up messages.                                                      *)
(*                                                                             *)
(* The bounds on late work are proved by counting along the code: Late says    *)
(* how many calls can have begun since Stop at each place of the loop, which   *)
(* is right because Stop stays in the channel until a check of the signals     *)
(* finds it (Mail); Cancelled says that what may still start after a           *)
(* cancellation are the calls that have read the old state.  The first         *)
(* follow-up is kept because it is ahead of every other one in the channel.    *)
EXTENDS WorkerLoop, FiniteSetTheorems, SequenceTheorems, WellFoundedInduction, TLAPS

Messages == {StartMsg, StopMsg} \cup {UserMsg(n) : n \in 1 .. MaxMessages}

IsUser(msg) == msg[1] = "User"

\* What the channel holds: user messages that were sent, the first one ahead of
\* all others; Start while the worker waits for it; and Stop from when it is sent
\* until the worker ends.
Mail ==
    /\ \A k \in DOMAIN mailbox : IsUser(mailbox[k]) => mailbox[k][2] <= sent
    /\ \A i, k \in DOMAIN mailbox :
          mailbox[i] = UserMsg(1) /\ IsUser(mailbox[k]) => i <= k
    /\ pc = "start" => mailbox # <<>> /\ mailbox[1] = StartMsg
    /\ Queued(StopMsg) => stopped
    /\ stopped /\ pc # "done" => Queued(StopMsg)

\* How many model calls and tool rounds can have begun since Stop was sent.
Late ==
    /\ ~stopped => lateCalls = 0
    /\ pc \in {"start", "planned", "state", "ready"} => lateCalls = 0
    /\ pc \in {"plan", "drain", "select"} => lateCalls <= 1
    /\ pc \in {"confirm", "recheck", "respond"} => lateCalls <= 2
    /\ StopBoundsWork

\* The calls that have read the job's state before it was cancelled and have not
\* started yet.
Unaware == {i \in Calls : tool[i] = "hook" /\ snapshot[i] # "Cancelled"}

Cancelled ==
    /\ job_state # "Cancelled" => lateTools = 0
    /\ lateTools + Cardinality(Unaware) <= MaxBatch

\* A slot is empty or holds the result of its own call, which has then been joined;
\* and while a batch runs the calls of its message are open.  Answered is
\* CallsAnswered and what it needs of the slots between the batches.
Slots ==
    /\ \A i \in Calls : results[i] \in {Missing, i}
    /\ pc \notin Running \cup {"done"} => \A i \in Calls : results[i] = Missing
    /\ pc \in Running =>
          \A i \in Calls : /\ results[i] = i <=> tool[i] = "joined"
                           /\ tool[i] = "none" => answer[i] = "none"
                           /\ tool[i] # "none" => answer[i] = "open"

Answered == Slots /\ CallsAnswered

IInv ==
    /\ TypeOK /\ Mail /\ Late /\ Cancelled
    /\ ExitHasCause /\ Answered /\ FirstMessageKept

-----------------------------------------------------------------------------
(* The channel                                                                 *)

\* A message is what it looks like.
LEMMA MessageForms ==
    /\ \A msg \in Messages : \/ msg = StartMsg /\ ~IsUser(msg)
                             \/ msg = StopMsg /\ ~IsUser(msg)
                             \/ /\ IsUser(msg) /\ msg[2] \in 1 .. MaxMessages
                                /\ msg = UserMsg(msg[2])
    /\ StartMsg # StopMsg
    /\ \A n : UserMsg(n) # StartMsg /\ UserMsg(n) # StopMsg /\ IsUser(UserMsg(n))
              /\ UserMsg(n)[2] = n
BY DEF Messages, StartMsg, StopMsg, UserMsg, IsUser

\* First(S) is the least element of a set of positions.
LEMMA FirstIsLeast ==
    ASSUME NEW S \in SUBSET Nat, S # {}
    PROVE  First(S) \in S /\ \A k \in S : First(S) <= k
<1> DEFINE Less == {ss \in Nat \X Nat : ss[1] < ss[2]}
<1>1. IsWellFoundedOn(Less, Nat)
  BY NatLessThanWellFounded DEF OpToRel
<1>2. PICK p \in S : \A q \in S : ~(<<q, p>> \in Less)
  <2> HIDE DEF Less
  <2> QED BY <1>1, WFMin, Zenon
<1>3. ASSUME NEW q \in S PROVE p <= q
  <2>1. p \in Nat /\ q \in Nat  OBVIOUS
  <2>2. q < p => <<q, p>> \in Less  BY <2>1
  <2> QED BY <1>2, <2>1, <2>2
<1>4. \E i \in S : \A k \in S : i <= k  BY <1>3
<1> QED BY <1>4 DEF First

\* What is left of the channel when its first d messages have been taken.
Dropped(d) ==
    /\ mailbox' \in Seq(Messages)
    /\ Len(mailbox') = Len(mailbox) - d
    /\ \A k \in 1 .. Len(mailbox') : mailbox'[k] = mailbox[k + d]

\* Taking the first message, all up to one, or all of them.
LEMMA DroppedForms ==
    ASSUME mailbox \in Seq(Messages)
    PROVE  /\ mailbox # <<>> /\ mailbox' = Tail(mailbox) => Dropped(1)
           /\ mailbox' = <<>> => Dropped(Len(mailbox))
           /\ \A i \in DOMAIN mailbox :
                mailbox' = SubSeq(mailbox, i + 1, Len(mailbox)) => Dropped(i)
<1>1. Len(mailbox) \in Nat /\ DOMAIN mailbox = 1 .. Len(mailbox)  OBVIOUS
<1>2. mailbox # <<>> /\ mailbox' = Tail(mailbox) => Dropped(1)
  BY <1>1 DEF Dropped
<1>3. mailbox' = <<>> => Dropped(Len(mailbox))
  BY <1>1 DEF Dropped
<1>4. ASSUME NEW i \in DOMAIN mailbox, mailbox' = SubSeq(mailbox, i + 1, Len(mailbox))
      PROVE  Dropped(i)
  <2>1. i \in Nat /\ i <= Len(mailbox)  BY <1>1
  <2>2. \A k \in (i + 1) .. Len(mailbox) : mailbox[k] \in Messages  BY <1>1, <2>1
  <2>3. /\ mailbox' \in Seq(Messages)
        /\ Len(mailbox') = Len(mailbox) - i
        /\ \A k \in 1 .. Len(mailbox') : mailbox'[k] = mailbox[k + i]
    BY <1>1, <1>4, <2>1, <2>2
  <2> QED BY <2>3 DEF Dropped
<1> QED BY <1>2, <1>3, <1>4

\* The parts of TypeOK: the channel, the worker and its limits, the tool calls.
MailType ==
    /\ mailbox \in Seq(Messages) /\ Len(mailbox) <= ChannelCapacity
    /\ sent \in 0 .. MaxMessages /\ injected \subseteq 1 .. MaxMessages

Control ==
    /\ pc \in LoopPC /\ result \in Results
    /\ iteration \in 0 .. MaxIterations
    /\ nudges \in 0 .. MaxNudges
    /\ rate_limits \in 0 .. MaxRateLimits
    /\ rate_limits = MaxRateLimits => pc = "done"
    /\ tokens \in Nat
    /\ plan \in 0 .. MaxPlan
    /\ lateCalls \in Nat

ToolType ==
    /\ job_state \in {"InProgress", "Cancelled"}
    /\ tool \in [Calls -> ToolPC]
    /\ snapshot \in [Calls -> {"InProgress", "Cancelled"}]
    /\ results \in [Calls -> 0 .. MaxBatch] /\ answer \in [Calls -> Answer]
    /\ stopped \in BOOLEAN /\ lateTools \in Nat

LEMMA TypeParts ==
    TypeOK <=> Control /\ MailType /\ ToolType
BY DEF TypeOK, MailType, Control, ToolType, Messages

LEMMA TypePartsNext ==
    TypeOK' <=> Control' /\ MailType' /\ ToolType'
BY TypeParts, PTL

LEMMA BoundTypes ==
    /\ MaxNudges \in Nat /\ MaxTokens \in Nat /\ MaxPlan \in Nat /\ MaxMessages \in Nat
    /\ MaxIterations \in Nat
    /\ ChannelCapacity \in Nat /\ ChannelCapacity > 0
    /\ MaxRateLimits \in Nat /\ MaxRateLimits > 0
    /\ MaxBatch \in Nat /\ MaxBatch > 0
    /\ Usage \subseteq Nat
BY BoundAssumption

\* A sent message goes behind the others.
LEMMA SendMail ==
    ASSUME MailType, Mail, NEW msg \in Messages, Send(msg), pc' = pc,
           \/ msg = UserMsg(sent + 1) /\ sent' = sent + 1 /\ stopped' = stopped
           \/ msg = StopMsg /\ sent' = sent /\ stopped' = TRUE
    PROVE  /\ mailbox' \in Seq(Messages) /\ Len(mailbox') <= ChannelCapacity
           /\ Mail'
           /\ \A m : Queued(m) => Queued(m)'
           /\ Queued(msg)'
<1>1. /\ Len(mailbox) \in Nat /\ DOMAIN mailbox = 1 .. Len(mailbox)
      /\ mailbox' \in Seq(Messages) /\ Len(mailbox') = Len(mailbox) + 1
      /\ DOMAIN mailbox' = 1 .. (Len(mailbox) + 1)
      /\ \A k \in 1 .. Len(mailbox) : mailbox'[k] = mailbox[k]
      /\ mailbox'[Len(mailbox) + 1] = msg
  BY AppendProperties DEF Send, MailType
<1>2. Len(mailbox') <= ChannelCapacity
  BY <1>1, BoundAssumption DEF Send
<1>3. /\ \A m : Queued(m) => Queued(m)'
      /\ \A m : Queued(m)' => Queued(m) \/ m = msg
      /\ Queued(msg)'
  BY <1>1 DEF Queued
<1>4. sent \in Nat /\ sent' >= sent  BY DEF MailType
<1>5. \A k \in DOMAIN mailbox : IsUser(mailbox[k]) =>
         mailbox[k][2] \in Nat /\ mailbox[k][2] <= sent
  BY <1>1, MessageForms DEF Mail, MailType
<1>6. ASSUME NEW k \in DOMAIN mailbox', IsUser(mailbox'[k]) PROVE mailbox'[k][2] <= sent'
  <2>1. CASE k \in 1 .. Len(mailbox)  BY <1>1, <1>4, <1>5, <1>6, <2>1
  <2>2. CASE k = Len(mailbox) + 1  BY <1>1, <1>4, <1>6, <2>2, MessageForms
  <2> QED BY <1>1, <2>1, <2>2
<1>7. ASSUME NEW j \in DOMAIN mailbox', NEW k \in DOMAIN mailbox',
             mailbox'[j] = UserMsg(1), IsUser(mailbox'[k])
      PROVE  j <= k
  <2>1. CASE j \in 1 .. Len(mailbox) /\ k \in 1 .. Len(mailbox)
    BY <1>1, <1>7, <2>1 DEF Mail
  <2>2. CASE j \in 1 .. Len(mailbox) /\ k = Len(mailbox) + 1
    BY <1>1, <2>2
  <2>3. CASE j = Len(mailbox) + 1 /\ k = Len(mailbox) + 1
    BY <1>1, <2>3
  <2>4. CASE j = Len(mailbox) + 1 /\ k \in 1 .. Len(mailbox)
    <3>1. msg = UserMsg(1)  BY <1>1, <1>7, <2>4
    <3>2. sent = 0  BY <1>4, <3>1, MessageForms
    <3>3. IsUser(mailbox[k]) /\ mailbox[k] \in Messages  BY <1>1, <1>7, <2>4 DEF MailType
    <3>4. mailbox[k][2] >= 1  BY <3>3, MessageForms
    <3> QED BY <1>1, <1>5, <2>4, <3>2, <3>3, <3>4
  <2> QED BY <1>1, <2>1, <2>2, <2>3, <2>4
<1>8. pc' = "start" => mailbox' # <<>> /\ mailbox'[1] = StartMsg
  BY <1>1 DEF Mail
<1>9. /\ Queued(StopMsg)' => stopped'
      /\ stopped' /\ pc' # "done" => Queued(StopMsg)'
  BY <1>3, MessageForms DEF Mail
<1> QED BY <1>1, <1>2, <1>3, <1>6, <1>7, <1>8, <1>9 DEF Mail

\* What remains when messages are taken is as it was.
LEMMA DropMail ==
    ASSUME MailType, Mail, NEW d \in 0 .. Len(mailbox), Dropped(d), sent' = sent,
           stopped' = stopped, pc' # "start",
           stopped /\ pc' # "done" => Queued(StopMsg)'
    PROVE  Len(mailbox') <= ChannelCapacity /\ Mail'
<1>0. mailbox \in Seq(Messages)  BY DEF MailType
<1>1. /\ Len(mailbox) \in Nat /\ DOMAIN mailbox = 1 .. Len(mailbox)
      /\ Len(mailbox') = Len(mailbox) - d
      /\ DOMAIN mailbox' = 1 .. (Len(mailbox) - d)
      /\ \A k \in DOMAIN mailbox' : mailbox'[k] = mailbox[k + d] /\ k + d \in DOMAIN mailbox
  BY <1>0 DEF Dropped
<1>2. Len(mailbox') <= ChannelCapacity  BY <1>1, BoundAssumption DEF MailType
<1>3. \A k \in DOMAIN mailbox' : IsUser(mailbox'[k]) => mailbox'[k][2] <= sent'
  BY <1>1 DEF Mail
<1>4. ASSUME NEW j \in DOMAIN mailbox', NEW k \in DOMAIN mailbox',
             mailbox'[j] = UserMsg(1), IsUser(mailbox'[k])
      PROVE  j <= k
  <2>1. j + d <= k + d  BY <1>1, <1>4 DEF Mail
  <2> QED BY <1>1, <2>1
<1>5. Queued(StopMsg)' => stopped'  BY <1>1 DEF Mail, Queued
<1> QED BY <1>2, <1>3, <1>4, <1>5 DEF Mail

\* A step that leaves the channel alone.
LEMMA MailFrame ==
    ASSUME Mail, UNCHANGED <<mailbox, sent, stopped>>, pc' = "start" => pc = "start",
           pc = "done" => pc' = "done"
    PROVE  Mail'
BY DEF Mail, Queued

\* The worker's first follow-up is kept by a step that takes nothing from the channel.
LEMMA FirstFrame ==
    ASSUME FirstMessageKept, UNCHANGED <<mailbox, sent>>, injected \subseteq injected',
           pc = "done" => pc' = "done"
    PROVE  FirstMessageKept'
BY DEF FirstMessageKept, Queued

-----------------------------------------------------------------------------
(* Calls that have not noticed a cancellation                                  *)

LEMMA UnawareFinite ==
    IsFiniteSet(Unaware) /\ Cardinality(Unaware) \in Nat /\ Cardinality(Unaware) <= MaxBatch
<1>1. MaxBatch \in Nat \ {0}  BY BoundAssumption
<1>2. IsFiniteSet(Calls) /\ Cardinality(Calls) = MaxBatch
  BY <1>1, FS_Interval DEF Calls
<1>3. Unaware \in SUBSET Calls  BY DEF Unaware
<1> QED BY <1>2, <1>3, FS_Subset, FS_CardinalityType

\* None is added.
LEMMA UnawareShrinks ==
    ASSUME Cancelled, Unaware' \subseteq Unaware, lateTools' = lateTools, lateTools \in Nat,
           job_state' = job_state
    PROVE  Cancelled'
<1>1. IsFiniteSet(Unaware) /\ Cardinality(Unaware) \in Nat  BY UnawareFinite
<1>2. Cardinality(Unaware') \in Nat /\ Cardinality(Unaware') <= Cardinality(Unaware)
  BY <1>1, FS_Subset, FS_CardinalityType
<1>3. Cardinality(Unaware)' = Cardinality(Unaware')  OBVIOUS
<1> QED BY <1>1, <1>2, <1>3, BoundAssumption DEF Cancelled

\* A new round: no call of it has read the job's state yet.
LEMMA RoundBegins ==
    ASSUME ToolType, Cancelled, NEW n,
           tool' = [i \in Calls |-> IF i <= n THEN "prepare" ELSE "none"],
           answer' = [i \in Calls |-> IF i <= n THEN "open" ELSE "none"],
           UNCHANGED <<snapshot, results, lateTools, job_state, stopped>>
    PROVE  ToolType' /\ Cancelled'
<1>1. tool' \in [Calls -> ToolPC] /\ answer' \in [Calls -> Answer]  BY DEF ToolPC, Answer
<1>2. Unaware' \subseteq Unaware  BY DEF Unaware
<1> QED BY <1>1, <1>2, UnawareShrinks DEF ToolType

\* The calls of the new batch are open, and the slots empty.
LEMMA RoundOpens ==
    ASSUME Answered, pc \notin Running \cup {"done"}, pc' \in Running, NEW n,
           tool' = [i \in Calls |-> IF i <= n THEN "prepare" ELSE "none"],
           answer' = [i \in Calls |-> IF i <= n THEN "open" ELSE "none"],
           UNCHANGED results
    PROVE  Answered'
<1>1. \A i \in Calls : i # Missing  BY BoundTypes DEF Calls, Missing
<1>2. Slots'  BY <1>1 DEF Answered, Slots
<1> QED BY <1>2 DEF Answered, CallsAnswered

\* A step of the loop outside the batches.
LEMMA AnswersFrame ==
    ASSUME Answered, UNCHANGED <<tool, results, answer>>,
           pc \notin Running \cup {"done"}, pc' \notin Running
    PROVE  Answered'
BY DEF Answered, Slots, CallsAnswered

\* The end of the worker: no call is left.
LEMMA WorkerGone ==
    ASSUME ToolType, Cancelled, Drop, pc' = "done", UNCHANGED <<job_state, stopped>>
    PROVE  ToolType' /\ Cancelled' /\ Answered'
<1>1. tool' \in [Calls -> ToolPC] /\ answer' \in [Calls -> Answer]
      /\ results' \in [Calls -> 0 .. MaxBatch]
  BY BoundTypes DEF Drop, ToolPC, Answer, Missing
<1>2. Unaware' \subseteq Unaware  BY DEF Drop, Unaware
<1>3. Slots'  BY DEF Drop, Slots, Running
<1>4. Answered'  BY <1>3 DEF Answered, CallsAnswered
<1>5. UNCHANGED <<snapshot, lateTools>>  BY DEF Drop
<1>6. lateTools \in Nat  BY DEF ToolType
<1>7. Cancelled'  BY <1>2, <1>5, <1>6, UnawareShrinks
<1> QED BY <1>1, <1>4, <1>5, <1>7 DEF ToolType

LEMMA ToolFrame ==
    ASSUME ToolType, Cancelled,
           UNCHANGED <<tool, snapshot, results, answer, lateTools, job_state, stopped>>
    PROVE  ToolType' /\ Cancelled'
<1>1. Unaware' \subseteq Unaware  BY DEF Unaware
<1> QED BY <1>1, UnawareShrinks DEF ToolType

-----------------------------------------------------------------------------
(* The invariant holds initially                                               *)

LEMMA InitIInv == Init => IInv
<1> SUFFICES ASSUME Init PROVE IInv  OBVIOUS
<1>1. Control  BY BoundTypes DEF Init, Control, LoopPC, Results
<1>2. mailbox = <<StartMsg>> /\ StartMsg \in Messages  BY DEF Init, Messages
<1>3. MailType  BY <1>2, BoundTypes DEF Init, MailType
<1>4. ToolType
  <2>1. tool \in [Calls -> ToolPC] /\ answer \in [Calls -> Answer]
    BY DEF Init, ToolPC, Answer
  <2>2. Missing \in 0 .. MaxBatch  BY BoundTypes DEF Missing
  <2>3. results \in [Calls -> 0 .. MaxBatch]  BY <2>2 DEF Init
  <2> QED BY <2>1, <2>3 DEF Init, ToolType
<1>5. TypeOK  BY <1>1, <1>3, <1>4, TypeParts
<1>6. Mail  BY <1>2, MessageForms DEF Mail, Init, Queued
<1>7. Late  BY DEF Init, Late, StopBoundsWork
<1>8. Unaware = {}  BY DEF Init, Unaware
<1>9. Cancelled  BY <1>8, FS_EmptySet, BoundTypes DEF Cancelled, Init
<1>10. ExitHasCause /\ FirstMessageKept
  BY DEF Init, ExitHasCause, FirstMessageKept
<1>11. Answered  BY DEF Init, Answered, Slots, CallsAnswered, Running
<1> QED BY <1>5, <1>6, <1>7, <1>9, <1>10, <1>11 DEF IInv

-----------------------------------------------------------------------------
(* Steps of the loop that take nothing from the channel and touch no tool call *)

LEMMA QuietStep ==
    ASSUME IInv, Control', Late', ExitHasCause',
           UNCHANGED <<mailbox, injected, tool, snapshot, results, answer, lateTools, job_state, sent, stopped>>,
           pc \notin Running, pc \notin {"start", "done"}, pc' \notin Running, pc' # "start"
    PROVE  IInv'
<1>1. Control /\ MailType /\ ToolType
  BY TypeParts DEF IInv
<1>2. Mail'  BY MailFrame DEF IInv
<1>3. FirstMessageKept'  BY FirstFrame DEF IInv
<1>4. ToolType' /\ Cancelled'  BY <1>1, ToolFrame DEF IInv
<1>5. Answered'  BY AnswersFrame DEF IInv
<1>6. MailType'  BY <1>1 DEF MailType
<1>7. TypeOK'  BY <1>4, <1>6, TypePartsNext
<1> QED BY <1>2, <1>3, <1>4, <1>5, <1>7 DEF IInv

\* A step from which a round of tool calls begins.
LEMMA RoundStep ==
    ASSUME IInv, Control', Late', ExitHasCause', NEW n,
           tool' = [i \in Calls |-> IF i <= n THEN "prepare" ELSE "none"],
           answer' = [i \in Calls |-> IF i <= n THEN "open" ELSE "none"],
           UNCHANGED <<mailbox, injected, snapshot, results, lateTools, job_state, sent, stopped>>,
           pc \notin Running \cup {"start", "done"}, pc' \in Running
    PROVE  IInv'
<1>1. Control /\ MailType /\ ToolType
  BY TypeParts DEF IInv
<1>0. pc' # "start"  BY DEF Running
<1>2. Mail'  BY <1>0, MailFrame DEF IInv
<1>3. FirstMessageKept'  BY FirstFrame DEF IInv
<1>4. ToolType' /\ Cancelled'  BY <1>1, RoundBegins DEF IInv
<1>5. Answered'  BY RoundOpens DEF IInv
<1>6. MailType'  BY <1>1 DEF MailType
<1>7. TypeOK'  BY <1>4, <1>6, TypePartsNext
<1> QED BY <1>2, <1>3, <1>4, <1>5, <1>7 DEF IInv

\* Planning and the checks of the job's state.
LEMMA PlanningSteps ==
    ASSUME IInv, GeneratePlan \/ PlanExecuted \/ ConfirmPlanCompletion \/ RecheckState
                 \/ IterationCap \/ CheckState \/ BeforeLlmCall
    PROVE  IInv'
<1>1. UNCHANGED <<mailbox, injected, tool, snapshot, results, answer, lateTools, job_state, sent, stopped>>
  BY DEF GeneratePlan, PlanExecuted, ConfirmPlanCompletion, RecheckState, IterationCap,
         CheckState, BeforeLlmCall, toolVars, msgVars, outside
<1>2. /\ pc \in {"plan", "drain", "confirm", "recheck", "signals", "state", "ready"}
      /\ pc' \in {"signals", "drain", "confirm", "done", "recheck", "ready", "select"}
  BY DEF GeneratePlan, PlanExecuted, ConfirmPlanCompletion, RecheckState, IterationCap,
         CheckState, BeforeLlmCall, GoTo, End, BeginCall
<1>3. Control /\ ToolType /\ Late /\ ExitHasCause  BY TypeParts DEF IInv
<1>4. UNCHANGED <<iteration, nudges, rate_limits, tokens>>
  BY DEF GeneratePlan, PlanExecuted, ConfirmPlanCompletion, RecheckState, IterationCap,
         CheckState, BeforeLlmCall, GoTo, End, BeginCall, replyVars
<1>5. plan' \in 0 .. MaxPlan
  BY <1>3 DEF GeneratePlan, PlanExecuted, ConfirmPlanCompletion, RecheckState, IterationCap,
         CheckState, BeforeLlmCall, Control
<1>6. lateCalls' \in Nat
  BY <1>3 DEF GeneratePlan, PlanExecuted, ConfirmPlanCompletion, RecheckState, IterationCap,
         CheckState, BeforeLlmCall, BeginCall, Control
<1>7. result' \in Results
  BY <1>3 DEF GeneratePlan, PlanExecuted, ConfirmPlanCompletion, RecheckState, IterationCap,
         CheckState, BeforeLlmCall, GoTo, End, BeginCall, Control, Results
<1>8. Control'
  BY <1>2, <1>3, <1>4, <1>5, <1>6, <1>7 DEF Control, LoopPC
<1>9. Late'
  <2>1. lateCalls \in Nat  BY <1>3 DEF Control
  <2>2. stopped' = stopped  BY <1>1
  <2>3. CASE GeneratePlan  BY <1>3, <2>1, <2>2, <2>3 DEF GeneratePlan, GoTo, Late, StopBoundsWork
  <2>4. CASE PlanExecuted
    BY <1>3, <2>1, <2>2, <2>4 DEF PlanExecuted, BeginCall, GoTo, Late, StopBoundsWork
  <2>5. CASE ConfirmPlanCompletion
    BY <1>3, <2>1, <2>2, <2>5 DEF ConfirmPlanCompletion, GoTo, End, Late, StopBoundsWork
  <2>6. CASE RecheckState
    BY <1>3, <2>1, <2>2, <2>6 DEF RecheckState, GoTo, End, Late, StopBoundsWork
  <2>7. CASE IterationCap
    BY <1>3, <2>1, <2>2, <2>7 DEF IterationCap, End, Late, StopBoundsWork
  <2>8. CASE CheckState
    BY <1>3, <2>1, <2>2, <2>8 DEF CheckState, GoTo, End, Late, StopBoundsWork
  <2>9. CASE BeforeLlmCall
    BY <1>3, <2>1, <2>2, <2>9 DEF BeforeLlmCall, BeginCall, GoTo, Late, StopBoundsWork
  <2> QED BY <2>3, <2>4, <2>5, <2>6, <2>7, <2>8, <2>9
<1>10. ExitHasCause'
  BY <1>1, <1>3 DEF GeneratePlan, PlanExecuted, ConfirmPlanCompletion, RecheckState,
         IterationCap, CheckState, BeforeLlmCall, GoTo, End, BeginCall, ExitHasCause
<1>11. pc \notin Running /\ pc \notin {"start", "done"} /\ pc' \notin Running /\ pc' # "start"
  BY <1>2 DEF Running
<1> QED BY <1>1, <1>8, <1>9, <1>10, <1>11, QuietStep

\* A rate limit fails the worker at the limit and nowhere else.
LEMMA RateLimitControl ==
    ASSUME Control, pc # "done", HandleRateLimit, UNCHANGED <<tokens, plan, lateCalls>>
    PROVE  /\ Control' /\ pc' \in {"done", "signals"}
           /\ result' # "Exited" \/ result' = result
BY BoundTypes DEF Control, HandleRateLimit, GoTo, End, LoopPC, Results

\* What a text does to the loop.
LEMMA TextControl ==
    ASSUME Control, NEW intent \in BOOLEAN, NEW completes \in BOOLEAN,
           NEW expected \in BOOLEAN, TextReply(intent, completes, expected),
           rate_limits' = 0, tokens' \in Nat, UNCHANGED <<plan, lateCalls>>
    PROVE  /\ Control' /\ pc' \in {"done", "signals"}
           /\ result' # "Exited" \/ result' = result
<1>1. CASE intent /\ expected /\ nudges < MaxNudges
  BY <1>1, BoundTypes DEF Control, TextReply, GoTo, LoopPC
<1>2. CASE ~(intent /\ expected /\ nudges < MaxNudges)
  <2>1. nudges' \in 0 .. MaxNudges
    BY <1>2, BoundTypes DEF Control, TextReply
  <2>2. End("Completed") \/ GoTo("signals")
    BY <1>2 DEF TextReply
  <2> QED BY <2>1, <2>2, BoundTypes DEF Control, GoTo, End, LoopPC, Results
<1> QED BY <1>1, <1>2

\* A reply that ends the iteration or the worker.
LEMMA TurnEnds ==
    ASSUME IInv, Control', pc' \in {"done", "signals"}, result' # "Exited" \/ result' = result,
           UNCHANGED <<mailbox, injected, tool, snapshot, results, answer, lateTools, job_state, sent, stopped>>,
           lateCalls' = lateCalls, pc \notin Running, pc \notin {"start", "done"}
    PROVE  IInv'
<1>1. Late'  BY DEF IInv, Late, StopBoundsWork
<1>2. ExitHasCause'  BY DEF IInv, ExitHasCause
<1>3. pc' \notin Running /\ pc' # "start"  BY DEF Running
<1> QED BY <1>1, <1>2, <1>3, QuietStep

\* A selection or a reply begins a round of tool calls or another model call, or
\* it ends the iteration.
LEMMA SelectStep ==
    ASSUME IInv, SelectTools
    PROVE  IInv'
<1>1. /\ pc = "select"
      /\ UNCHANGED <<mailbox, injected, job_state, sent, stopped, tokens, plan>>
  BY DEF SelectTools, msgVars, outside
<1>2. Control /\ ToolType /\ Late /\ ExitHasCause  BY TypeParts DEF IInv
<1>3. lateCalls \in Nat /\ lateCalls <= 1 /\ (~stopped => lateCalls = 0)
  BY <1>1, <1>2 DEF Control, Late
<1>4. pc \notin Running /\ pc \notin {"start", "done"}  BY <1>1 DEF Running
<1>5. CASE (\E n \in Calls : BeginTools("tools", n)) /\ rate_limits' = 0 /\ nudges' = 0
  <2>1. PICK n \in Calls : BeginTools("tools", n)  BY <1>5
  <2>2. /\ pc' = "tools" /\ UNCHANGED <<result, iteration, snapshot, results, lateTools>>
        /\ lateCalls' = IF stopped THEN lateCalls + 1 ELSE lateCalls
        /\ tool' = [i \in Calls |-> IF i <= n THEN "prepare" ELSE "none"]
        /\ answer' = [i \in Calls |-> IF i <= n THEN "open" ELSE "none"]
    BY <2>1 DEF BeginTools, BeginCall, GoTo
  <2>3. Control'  BY <1>1, <1>2, <1>3, <1>5, <2>2, BoundTypes DEF Control, LoopPC
  <2>4. Late'  BY <1>1, <1>3, <2>2 DEF Late, StopBoundsWork
  <2>5. ExitHasCause'  BY <1>1, <1>2, <2>2 DEF ExitHasCause
  <2>6. pc' \in Running  BY <2>2 DEF Running
  <2> QED BY <1>1, <1>4, <2>2, <2>3, <2>4, <2>5, <2>6, RoundStep
<1>6. CASE BeginCall("respond") /\ UNCHANGED <<rate_limits, nudges, toolVars>>
  <2>1. /\ pc' = "respond" /\ UNCHANGED <<result, iteration, rate_limits, nudges>>
        /\ UNCHANGED <<tool, snapshot, results, answer, lateTools>>
        /\ lateCalls' = IF stopped THEN lateCalls + 1 ELSE lateCalls
    BY <1>6 DEF BeginCall, GoTo, toolVars
  <2>2. Control'  BY <1>1, <1>2, <1>3, <2>1 DEF Control, LoopPC
  <2>3. Late'  BY <1>1, <1>3, <2>1 DEF Late, StopBoundsWork
  <2>4. ExitHasCause'  BY <1>1, <1>2, <2>1 DEF ExitHasCause
  <2>5. pc' \notin Running /\ pc' # "start"  BY <2>1 DEF Running
  <2> QED BY <1>1, <1>4, <2>1, <2>2, <2>3, <2>4, <2>5, QuietStep
<1>7. CASE HandleRateLimit /\ UNCHANGED <<toolVars, lateCalls>>
  <2>1. UNCHANGED <<tool, snapshot, results, answer, lateTools, lateCalls>>  BY <1>7 DEF toolVars
  <2>2. Control' /\ pc' \in {"done", "signals"} /\ (result' # "Exited" \/ result' = result)
    BY <1>1, <1>2, <1>4, <1>7, <2>1, RateLimitControl
  <2> QED BY <1>1, <1>4, <2>1, <2>2, TurnEnds
<1>8. CASE End("Failed") /\ UNCHANGED <<rate_limits, nudges, toolVars, lateCalls>>
  <2>1. UNCHANGED <<tool, snapshot, results, answer, lateTools, lateCalls, rate_limits, nudges, iteration>>
    BY <1>8 DEF toolVars, End
  <2>2. pc' = "done" /\ result' = "Failed"  BY <1>8 DEF End
  <2>3. Control'  BY <1>1, <1>2, <2>1, <2>2 DEF Control, LoopPC, Results
  <2> QED BY <1>1, <1>4, <2>1, <2>2, <2>3, TurnEnds
<1> QED BY <1>5, <1>6, <1>7, <1>8 DEF SelectTools

LEMMA RespondStep ==
    ASSUME IInv, RespondWithTools
    PROVE  IInv'
<1>1. /\ pc = "respond"
      /\ UNCHANGED <<mailbox, injected, job_state, sent, stopped, plan>>
  BY DEF RespondWithTools, msgVars, outside
<1>2. Control /\ ToolType /\ Late /\ ExitHasCause  BY TypeParts DEF IInv
<1>3. lateCalls \in Nat /\ lateCalls <= 2 /\ (~stopped => lateCalls = 0)
  BY <1>1, <1>2 DEF Control, Late
<1>4. pc \notin Running /\ pc \notin {"start", "done"}  BY <1>1 DEF Running
<1>5. CASE Replied
  <2>1. rate_limits' = 0  BY <1>5 DEF Replied
  <2>2. tokens' \in Nat  BY <1>2, <1>5, BoundTypes DEF Replied, Control
  <2>3. \/ End("Failed") /\ UNCHANGED <<nudges, toolVars, lateCalls>>
        \/ (\E k \in Calls : BeginTools("tools", k)) /\ nudges' = 0
        \/ /\ \E intent, completes, expected \in BOOLEAN :
                 TextReply(intent, completes, expected)
           /\ UNCHANGED <<toolVars, lateCalls>>
    BY <1>5 DEF Replied
  <2>4. CASE End("Failed") /\ UNCHANGED <<nudges, toolVars, lateCalls>>
    <3>1. UNCHANGED <<tool, snapshot, results, answer, lateTools, lateCalls, nudges, iteration>>
      BY <2>4 DEF toolVars, End
    <3>2. pc' = "done" /\ result' = "Failed"  BY <2>4 DEF End
    <3>3. Control'
      BY <1>1, <1>2, <2>1, <2>2, <3>1, <3>2, BoundTypes DEF Control, LoopPC, Results
    <3> QED BY <1>1, <1>4, <3>1, <3>2, <3>3, TurnEnds
  <2>5. CASE (\E k \in Calls : BeginTools("tools", k)) /\ nudges' = 0
    <3>1. PICK k \in Calls : BeginTools("tools", k)  BY <2>5
    <3>2. /\ pc' = "tools" /\ UNCHANGED <<result, iteration, snapshot, results, lateTools>>
          /\ lateCalls' = IF stopped THEN lateCalls + 1 ELSE lateCalls
          /\ tool' = [i \in Calls |-> IF i <= k THEN "prepare" ELSE "none"]
          /\ answer' = [i \in Calls |-> IF i <= k THEN "open" ELSE "none"]
      BY <3>1 DEF BeginTools, BeginCall, GoTo
    <3>3. Control'
      BY <1>1, <1>2, <1>3, <2>1, <2>2, <2>5, <3>2, BoundTypes DEF Control, LoopPC
    <3>4. Late'  BY <1>1, <1>3, <3>2 DEF Late, StopBoundsWork
    <3>5. ExitHasCause'  BY <1>1, <1>2, <3>2 DEF ExitHasCause
    <3>6. pc' \in Running  BY <3>2 DEF Running
    <3> QED BY <1>1, <1>4, <3>2, <3>3, <3>4, <3>5, <3>6, RoundStep
  <2>6. ASSUME NEW intent \in BOOLEAN, NEW completes \in BOOLEAN, NEW expected \in BOOLEAN,
               TextReply(intent, completes, expected), UNCHANGED <<toolVars, lateCalls>>
        PROVE  IInv'
    <3>1. UNCHANGED <<tool, snapshot, results, answer, lateTools, lateCalls>>  BY <2>6 DEF toolVars
    <3>2. Control' /\ pc' \in {"done", "signals"} /\ (result' # "Exited" \/ result' = result)
      BY <1>1, <1>2, <2>1, <2>2, <2>6, <3>1, TextControl
    <3> QED BY <1>1, <1>4, <3>1, <3>2, TurnEnds
  <2> QED BY <2>3, <2>4, <2>5, <2>6
<1>6. CASE HandleRateLimit /\ UNCHANGED <<tokens, toolVars, lateCalls>>
  <2>1. UNCHANGED <<tool, snapshot, results, answer, lateTools, lateCalls, tokens>>  BY <1>6 DEF toolVars
  <2>2. Control' /\ pc' \in {"done", "signals"} /\ (result' # "Exited" \/ result' = result)
    BY <1>1, <1>2, <1>4, <1>6, <2>1, RateLimitControl
  <2> QED BY <1>1, <1>4, <2>1, <2>2, TurnEnds
<1>7. CASE End("Failed") /\ UNCHANGED <<replyVars, toolVars, lateCalls>>
  <2>1. UNCHANGED <<tool, snapshot, results, answer, lateTools, lateCalls, rate_limits, nudges, tokens, iteration>>
    BY <1>7 DEF toolVars, replyVars, End
  <2>2. pc' = "done" /\ result' = "Failed"  BY <1>7 DEF End
  <2>3. Control'  BY <1>1, <1>2, <2>1, <2>2 DEF Control, LoopPC, Results
  <2> QED BY <1>1, <1>4, <2>1, <2>2, <2>3, TurnEnds
<1> QED BY <1>5, <1>6, <1>7 DEF RespondWithTools

-----------------------------------------------------------------------------
(* Steps that take messages from the channel                                   *)

\* What is behind the taken messages stays queued.
LEMMA StaysQueued ==
    ASSUME mailbox \in Seq(Messages), NEW d \in 0 .. Len(mailbox), Dropped(d),
           NEW k \in DOMAIN mailbox, k > d
    PROVE  \E j \in DOMAIN mailbox' : mailbox'[j] = mailbox[k]
<1>1. Len(mailbox) \in Nat /\ k \in 1 .. Len(mailbox)  OBVIOUS
<1>2. /\ DOMAIN mailbox' = 1 .. Len(mailbox')
      /\ Len(mailbox') = Len(mailbox) - d
      /\ \A j \in 1 .. Len(mailbox') : mailbox'[j] = mailbox[j + d]
  BY DEF Dropped
<1>3. k - d \in 1 .. Len(mailbox') /\ (k - d) + d = k  BY <1>1, <1>2
<1> QED BY <1>2, <1>3

\* A step that takes d messages and calls no tool.
LEMMA ReadStep ==
    ASSUME IInv, Control', Late', ExitHasCause', FirstMessageKept',
           NEW d \in 0 .. Len(mailbox), Dropped(d),
           stopped /\ pc' # "done" => Queued(StopMsg)',
           UNCHANGED <<tool, snapshot, results, answer, lateTools, job_state, sent, stopped>>,
           injected' \subseteq 1 .. MaxMessages,
           pc \notin Running \cup {"done"}, pc' \notin Running, pc' # "start"
    PROVE  IInv'
<1>1. MailType /\ ToolType  BY TypeParts DEF IInv
<1>2. Len(mailbox') <= ChannelCapacity /\ Mail'  BY <1>1, DropMail DEF IInv
<1>3. MailType'  BY <1>1, <1>2 DEF MailType, Dropped
<1>4. ToolType' /\ Cancelled'  BY <1>1, ToolFrame DEF IInv
<1>5. Answered'  BY AnswersFrame DEF IInv
<1>6. TypeOK'  BY <1>3, <1>4, TypePartsNext
<1> QED BY <1>2, <1>4, <1>5, <1>6 DEF IInv

\* Start is at the head of the channel when the worker waits for it.
LEMMA StartStep ==
    ASSUME IInv, WaitForStart
    PROVE  IInv'
<1>1. Control /\ MailType /\ ToolType /\ Mail /\ Late /\ ExitHasCause /\ FirstMessageKept
  BY TypeParts DEF IInv
<1>2. /\ pc = "start" /\ mailbox # <<>> /\ mailbox' = Tail(mailbox)
      /\ UNCHANGED <<tool, snapshot, results, answer, lateTools, job_state, sent, stopped, injected>>
      /\ UNCHANGED <<nudges, rate_limits, tokens, plan>>
  BY DEF WaitForStart, replyVars, toolVars, outside
<1>3. mailbox \in Seq(Messages) /\ mailbox[1] = StartMsg  BY <1>1, <1>2 DEF MailType, Mail
<1>4. Head(mailbox) # StopMsg  BY <1>2, <1>3, MessageForms
<1>5. BeginCall("plan") \/ (GoTo("signals") /\ UNCHANGED lateCalls)
  BY <1>4 DEF WaitForStart
<1>6. Dropped(1)  BY <1>2, <1>3, DroppedForms
<1>7. 1 \in 0 .. Len(mailbox)  BY <1>2, <1>3
<1>8. \A m : Queued(m) /\ m # StartMsg => Queued(m)'
  <2> SUFFICES ASSUME NEW m, Queued(m), m # StartMsg PROVE Queued(m)'  OBVIOUS
  <2>1. PICK k \in DOMAIN mailbox : mailbox[k] = m  BY DEF Queued
  <2>2. k > 1  BY <1>3, <2>1
  <2> QED BY <1>3, <1>6, <1>7, <2>1, <2>2, StaysQueued DEF Queued
<1>9. /\ pc' \in {"plan", "signals"} /\ UNCHANGED <<result, iteration>>
      /\ lateCalls' \in Nat /\ lateCalls' <= 1 /\ (~stopped => lateCalls' = 0)
  BY <1>1, <1>2, <1>5 DEF BeginCall, GoTo, Late, Control
<1>10. Control'  BY <1>1, <1>2, <1>9 DEF Control, LoopPC
<1>11. Late'  BY <1>2, <1>9 DEF Late, StopBoundsWork
<1>12. ExitHasCause'  BY <1>1, <1>2, <1>9 DEF ExitHasCause
<1>13. FirstMessageKept'
  <2>1. sent > 0 => 1 \in injected \/ Queued(UserMsg(1))
    BY <1>1, <1>2 DEF FirstMessageKept
  <2> QED BY <1>2, <1>8, <2>1, MessageForms DEF FirstMessageKept
<1>14. stopped /\ pc' # "done" => Queued(StopMsg)'
  BY <1>1, <1>2, <1>8, MessageForms DEF Mail
<1>15. injected' \subseteq 1 .. MaxMessages  BY <1>1, <1>2 DEF MailType
<1>16. pc \notin Running \cup {"done"} /\ pc' \notin Running /\ pc' # "start"  BY <1>2, <1>9 DEF Running
<1> QED BY <1>2, <1>6, <1>7, <1>10, <1>11, <1>12, <1>13, <1>14, <1>15, <1>16, ReadStep

\* The channel is empty of Stop only if none was sent.
LEMMA NoStop ==
    ASSUME Mail, Late, pc # "done", ~Queued(StopMsg)
    PROVE  ~stopped /\ lateCalls = 0
BY DEF Mail, Late

\* Before an action of the plan.
LEMMA DrainStep ==
    ASSUME IInv, DrainPlanSignals
    PROVE  IInv'
<1>1. Control /\ MailType /\ ToolType /\ Mail /\ Late /\ ExitHasCause /\ FirstMessageKept
      /\ Cancelled
  BY TypeParts DEF IInv
<1>2. /\ pc = "drain" /\ plan > 0
      /\ UNCHANGED <<job_state, sent, stopped, nudges, rate_limits, tokens>>
  BY DEF DrainPlanSignals, replyVars, outside
<1>3. mailbox \in Seq(Messages) /\ Len(mailbox) \in Nat /\ DOMAIN mailbox = 1 .. Len(mailbox)
  BY <1>1 DEF MailType
<1>4. \A k \in DOMAIN mailbox : mailbox[k] # StartMsg => k \in Interrupts
  BY DEF Interrupts
<1>5. CASE Interrupts = {}
  <2>1. /\ mailbox' = <<>> /\ plan' = plan - 1 /\ injected' = injected
        /\ pc' = "planned" /\ UNCHANGED <<result, iteration, snapshot, results, lateTools>>
        /\ lateCalls' = IF stopped THEN lateCalls + 1 ELSE lateCalls
        /\ tool' = [i \in Calls |-> IF i <= 1 THEN "prepare" ELSE "none"]
        /\ answer' = [i \in Calls |-> IF i <= 1 THEN "open" ELSE "none"]
    BY <1>5 DEF DrainPlanSignals, BeginTools, BeginCall, GoTo
  <2>2. ~Queued(StopMsg) /\ ~Queued(UserMsg(1))
    BY <1>4, <1>5, MessageForms DEF Queued
  <2>3. ~stopped /\ lateCalls = 0  BY <1>1, <1>2, <2>2, NoStop
  <2>4. Dropped(Len(mailbox)) /\ Len(mailbox) \in 0 .. Len(mailbox)
    BY <1>3, <2>1, DroppedForms
  <2>5. Len(mailbox') <= ChannelCapacity /\ Mail'
    BY <1>1, <1>2, <2>1, <2>3, <2>4, DropMail
  <2>6. MailType'  BY <1>1, <1>2, <2>1, <2>4, <2>5 DEF MailType, Dropped
  <2>7. Control'  BY <1>1, <1>2, <2>1, <2>3, BoundTypes DEF Control, LoopPC
  <2>8. ToolType' /\ Cancelled'  BY <1>1, <1>2, <2>1, RoundBegins
  <2>9. TypeOK'  BY <2>6, <2>7, <2>8, TypePartsNext
  <2>10. Late'  BY <1>2, <2>1, <2>3 DEF Late, StopBoundsWork
  <2>11. ExitHasCause'  BY <1>1, <1>2, <2>1 DEF ExitHasCause
  <2>12. Answered'
    <3>1. pc \notin Running \cup {"done"} /\ pc' \in Running  BY <1>2, <2>1 DEF Running
    <3> QED BY <2>1, <3>1, RoundOpens DEF IInv
  <2>13. FirstMessageKept'  BY <1>1, <1>2, <2>1, <2>2 DEF FirstMessageKept
  <2> QED BY <2>5, <2>8, <2>9, <2>10, <2>11, <2>12, <2>13 DEF IInv
<1>6. CASE Interrupts # {}
  <2> DEFINE i == First(Interrupts)
  <2>1. /\ mailbox' = SubSeq(mailbox, i + 1, Len(mailbox))
        /\ InterruptPlan(mailbox[i])
        /\ UNCHANGED <<plan, tool, snapshot, results, answer, lateTools, lateCalls>>
    BY <1>6 DEF DrainPlanSignals, toolVars
  <2>2. Interrupts \in SUBSET Nat  BY <1>3 DEF Interrupts
  <2>3. i \in Interrupts /\ \A k \in Interrupts : i <= k
    BY <1>6, <2>2, FirstIsLeast
  <2>4. i \in DOMAIN mailbox /\ mailbox[i] # StartMsg /\ mailbox[i] \in Messages
    BY <1>3, <2>3 DEF Interrupts
  <2> HIDE DEF i
  <2>5. Dropped(i) /\ i \in 0 .. Len(mailbox)
    <3>1. Dropped(i)  BY <1>3, <2>1, <2>4, DroppedForms, Zenon
    <3> QED BY <1>3, <2>4, <3>1
  <2>6. \A m : Queued(m) /\ m # StartMsg => Queued(m)' \/ mailbox[i] = m
    <3> SUFFICES ASSUME NEW m, Queued(m), m # StartMsg, mailbox[i] # m PROVE Queued(m)'
      OBVIOUS
    <3>1. PICK k \in DOMAIN mailbox : mailbox[k] = m  BY DEF Queued
    <3>2. i <= k /\ i # k  BY <1>4, <2>3, <3>1
    <3>3. k > i  BY <1>3, <2>4, <3>2
    <3> QED BY <1>3, <2>5, <3>1, <3>3, StaysQueued DEF Queued
  <2>7. pc \notin Running \cup {"done"}  BY <1>2 DEF Running
  <2>8. CASE mailbox[i] = StopMsg
    <3>1. pc' = "done" /\ result' = "Exited" /\ UNCHANGED <<iteration, injected>>
      BY <2>1, <2>8 DEF InterruptPlan, End
    <3>2. Queued(StopMsg)  BY <2>4, <2>8 DEF Queued
    <3>3. stopped  BY <1>1, <3>2 DEF Mail
    <3>4. Control'  BY <1>1, <1>2, <2>1, <3>1 DEF Control, LoopPC, Results
    <3>5. Late'  BY <1>1, <1>2, <2>1, <3>1 DEF Late, StopBoundsWork
    <3>6. ExitHasCause' /\ FirstMessageKept'
      BY <1>2, <3>1, <3>3 DEF ExitHasCause, FirstMessageKept
    <3>7. injected' \subseteq 1 .. MaxMessages  BY <1>1, <3>1 DEF MailType
    <3>8. pc' \notin Running /\ pc' # "start"  BY <3>1 DEF Running
    <3>9. stopped /\ pc' # "done" => Queued(StopMsg)'  BY <3>1
    <3> QED BY <1>2, <2>1, <2>5, <2>7, <3>4, <3>5, <3>6, <3>7, <3>8, <3>9, ReadStep
  <2>9. CASE mailbox[i] # StopMsg
    <3>1. /\ pc' = "recheck" /\ UNCHANGED <<iteration, result>>
          /\ injected' = injected \cup {mailbox[i][2]}
      BY <2>1, <2>9 DEF InterruptPlan, GoTo
    <3>2. IsUser(mailbox[i]) /\ mailbox[i][2] \in 1 .. MaxMessages
      BY <2>4, <2>9, MessageForms
    <3>3. Control'  BY <1>1, <1>2, <2>1, <3>1 DEF Control, LoopPC
    <3>4. Late'  BY <1>1, <1>2, <2>1, <3>1 DEF Late, StopBoundsWork, Control
    <3>5. ExitHasCause'  BY <1>1, <1>2, <3>1 DEF ExitHasCause
    <3>6. FirstMessageKept'
      <4>1. sent > 0 => 1 \in injected \/ Queued(UserMsg(1))
        BY <1>1, <1>2 DEF FirstMessageKept
      <4>2. mailbox[i] = UserMsg(1) => mailbox[i][2] = 1  BY MessageForms
      <4> QED BY <1>2, <2>6, <3>1, <4>1, <4>2, MessageForms DEF FirstMessageKept
    <3>7. injected' \subseteq 1 .. MaxMessages  BY <1>1, <3>1, <3>2 DEF MailType
    <3>8. pc' \notin Running /\ pc' # "start"  BY <3>1 DEF Running
    <3>9. stopped /\ pc' # "done" => Queued(StopMsg)'
      BY <1>1, <1>2, <2>6, <2>9, MessageForms DEF Mail
    <3> QED BY <1>2, <2>1, <2>5, <2>7, <3>3, <3>4, <3>5, <3>6, <3>7, <3>8, <3>9, ReadStep
  <2> QED BY <2>8, <2>9
<1> QED BY <1>5, <1>6

\* The check at the top of an iteration.
LEMMA SignalsStep ==
    ASSUME IInv, CheckSignals
    PROVE  IInv'
<1>1. Control /\ MailType /\ ToolType /\ Mail /\ Late /\ ExitHasCause /\ FirstMessageKept
  BY TypeParts DEF IInv
<1>2. /\ pc = "signals" /\ iteration < MaxIterations /\ mailbox' = <<>>
      /\ UNCHANGED <<tool, snapshot, results, answer, lateTools, job_state, sent, stopped>>
      /\ UNCHANGED <<nudges, rate_limits, tokens, plan, lateCalls>>
  BY DEF CheckSignals, replyVars, toolVars, outside
<1>3. mailbox \in Seq(Messages) /\ Len(mailbox) \in Nat /\ DOMAIN mailbox = 1 .. Len(mailbox)
  BY <1>1 DEF MailType
<1>4. Dropped(Len(mailbox)) /\ Len(mailbox) \in 0 .. Len(mailbox)
  BY <1>2, <1>3, DroppedForms
<1>5. pc \notin Running \cup {"done"}  BY <1>2 DEF Running
<1>6. StopRequested <=> Queued(StopMsg)  BY DEF StopRequested, Queued
<1>7. iteration + 1 \in 0 .. MaxIterations  BY <1>1, <1>2, BoundTypes DEF Control
<1>8. UserMessages = {k \in DOMAIN mailbox : IsUser(mailbox[k])}
  BY DEF UserMessages, IsUser
<1>9. CASE StopRequested
  <2>1. pc' = "done" /\ result' = "Exited" /\ UNCHANGED <<iteration, injected>>
    BY <1>9 DEF CheckSignals, End
  <2>2. stopped  BY <1>1, <1>6, <1>9 DEF Mail
  <2>3. Control'  BY <1>1, <1>2, <2>1 DEF Control, LoopPC, Results
  <2>4. Late'  BY <1>1, <1>2, <2>1 DEF Late, StopBoundsWork
  <2>5. ExitHasCause' /\ FirstMessageKept'
    BY <1>2, <2>1, <2>2 DEF ExitHasCause, FirstMessageKept
  <2>6. injected' \subseteq 1 .. MaxMessages  BY <1>1, <2>1 DEF MailType
  <2>7. pc' \notin Running /\ pc' # "start"  BY <2>1 DEF Running
  <2>8. stopped /\ pc' # "done" => Queued(StopMsg)'  BY <2>1
  <2> QED BY <1>2, <1>4, <1>5, <2>3, <2>4, <2>5, <2>6, <2>7, <2>8, ReadStep
<1>10. CASE ~StopRequested
  <2>1. ~stopped /\ lateCalls = 0  BY <1>1, <1>2, <1>6, <1>10, NoStop
  <2>2. /\ pc' \in {"ready", "state"} /\ iteration' = iteration + 1 /\ UNCHANGED result
    BY <1>10 DEF CheckSignals
  <2>3. Control'  BY <1>1, <1>2, <1>7, <2>2 DEF Control, LoopPC
  <2>4. Late'  BY <1>2, <2>1, <2>2 DEF Late, StopBoundsWork
  <2>5. ExitHasCause'  BY <1>1, <1>2, <2>2 DEF ExitHasCause
  <2>6. pc' \notin Running /\ pc' # "start"  BY <2>2 DEF Running
  <2>7. sent > 0 => 1 \in injected \/ Queued(UserMsg(1))
    BY <1>1, <1>2 DEF FirstMessageKept
  <2>8. FirstMessageKept' /\ injected' \subseteq 1 .. MaxMessages
    <3>1. CASE UserMessages = {}
      <4>1. injected' = injected  BY <1>10, <3>1 DEF CheckSignals
      <4>2. ~Queued(UserMsg(1))  BY <1>8, <3>1, MessageForms DEF Queued
      <4> QED BY <1>1, <1>2, <2>7, <4>1, <4>2 DEF FirstMessageKept, MailType
    <3>2. CASE UserMessages # {}
      <4> DEFINE f == First(UserMessages)
      <4>1. injected' = injected \cup {mailbox[f][2]}  BY <1>10, <3>2 DEF CheckSignals
      <4>2. UserMessages \in SUBSET Nat  BY <1>3, <1>8
      <4>3. f \in UserMessages /\ \A k \in UserMessages : f <= k
        BY <3>2, <4>2, FirstIsLeast
      <4> HIDE DEF f
      <4>4. f \in DOMAIN mailbox /\ IsUser(mailbox[f]) /\ mailbox[f] \in Messages
        BY <1>3, <1>8, <4>3
      <4>5. mailbox[f][2] \in 1 .. MaxMessages  BY <4>4, MessageForms
      <4>6. ASSUME Queued(UserMsg(1)) PROVE mailbox[f][2] = 1
        <5>1. PICK k \in DOMAIN mailbox : mailbox[k] = UserMsg(1)  BY <4>6 DEF Queued
        <5>2. k <= f  BY <1>1, <4>4, <5>1 DEF Mail
        <5>3. f <= k  BY <1>8, <4>3, <5>1, MessageForms
        <5>4. f = k  BY <1>3, <4>4, <5>1, <5>2, <5>3
        <5> QED BY <5>1, <5>4, MessageForms
      <4>7. injected' \subseteq 1 .. MaxMessages  BY <1>1, <4>1, <4>5 DEF MailType
      <4> QED BY <1>2, <2>7, <4>1, <4>6, <4>7 DEF FirstMessageKept
    <3> QED BY <3>1, <3>2
  <2> QED BY <1>2, <1>4, <1>5, <2>1, <2>3, <2>4, <2>5, <2>6, <2>8, ReadStep
<1> QED BY <1>9, <1>10

-----------------------------------------------------------------------------
(* Callers                                                                     *)

LEMMA SendSteps ==
    ASSUME IInv, SendMessage \/ SendStop
    PROVE  IInv'
<1>1. Control /\ MailType /\ ToolType /\ Mail /\ Late /\ ExitHasCause /\ FirstMessageKept
      /\ Answered /\ Cancelled
  BY TypeParts DEF IInv
<1>2. /\ UNCHANGED <<pc, result, iteration, nudges, rate_limits, tokens, plan, lateCalls>>
      /\ UNCHANGED <<tool, snapshot, results, answer, lateTools, injected, job_state>>
  BY DEF SendMessage, SendStop, loopVars, replyVars, toolVars
<1>3. Control'  BY <1>1, <1>2 DEF Control
<1>4. Answered'  BY <1>1, <1>2 DEF Answered, Slots, CallsAnswered
<1>5. Unaware' \subseteq Unaware  BY <1>2 DEF Unaware
<1>6. Cancelled'  BY <1>1, <1>2, <1>5, UnawareShrinks DEF ToolType
<1>7. stopped' \in BOOLEAN /\ (stopped => stopped')
  BY <1>1 DEF SendMessage, SendStop, ToolType
<1>8. ToolType'  BY <1>1, <1>2, <1>7 DEF ToolType
<1>9. Late'  BY <1>1, <1>2, <1>7 DEF Late, StopBoundsWork
<1>10. ExitHasCause'  BY <1>1, <1>2, <1>7 DEF ExitHasCause
<1>11. MailType' /\ Mail' /\ FirstMessageKept'
  <2>1. CASE SendMessage
    <3>1. sent < MaxMessages /\ sent' = sent + 1 /\ stopped' = stopped /\ Send(UserMsg(sent + 1))
      BY <2>1 DEF SendMessage
    <3>2. sent \in Nat /\ sent + 1 \in 1 .. MaxMessages
      BY <1>1, <3>1, BoundTypes DEF MailType
    <3>3. UserMsg(sent + 1) \in Messages  BY <3>2 DEF Messages
    <3>4. /\ mailbox' \in Seq(Messages) /\ Len(mailbox') <= ChannelCapacity /\ Mail'
          /\ \A m : Queued(m) => Queued(m)'
      BY <1>1, <1>2, <3>1, <3>3, SendMail
    <3>5. MailType'  BY <1>1, <1>2, <3>1, <3>2, <3>4 DEF MailType
    <3>6. FirstMessageKept'
      <4>1. CASE sent = 0
        <5>1. UserMsg(sent + 1) = UserMsg(1)  BY <4>1
        <5>2. \E k \in DOMAIN mailbox' : mailbox'[k] = UserMsg(sent + 1)
          BY <3>1, <1>1, AppendProperties, <3>3 DEF Send, MailType
        <5> QED BY <5>1, <5>2 DEF FirstMessageKept, Queued
      <4>2. CASE sent > 0
        BY <1>1, <1>2, <3>4, <4>2 DEF FirstMessageKept
      <4> QED BY <3>2, <4>1, <4>2
    <3> QED BY <3>4, <3>5, <3>6
  <2>2. CASE SendStop
    <3>1. sent' = sent /\ stopped' = TRUE /\ Send(StopMsg)  BY <2>2 DEF SendStop
    <3>2. StopMsg \in Messages  BY DEF Messages
    <3>3. /\ mailbox' \in Seq(Messages) /\ Len(mailbox') <= ChannelCapacity /\ Mail'
          /\ \A m : Queued(m) => Queued(m)'
      BY <1>1, <1>2, <3>1, <3>2, SendMail
    <3>4. MailType'  BY <1>1, <1>2, <3>1, <3>3 DEF MailType
    <3>5. FirstMessageKept'  BY <1>1, <1>2, <3>1, <3>3 DEF FirstMessageKept
    <3> QED BY <3>3, <3>4, <3>5
  <2> QED BY <2>1, <2>2
<1>12. TypeOK'  BY <1>3, <1>8, <1>11, TypePartsNext
<1> QED BY <1>4, <1>6, <1>9, <1>10, <1>11, <1>12 DEF IInv

\* At the moment of a cancellation nothing has started late.
LEMMA CancelStep ==
    ASSUME IInv, CancelJob
    PROVE  IInv'
<1>1. Control /\ MailType /\ ToolType /\ Mail /\ Late /\ ExitHasCause /\ FirstMessageKept
      /\ Answered /\ Cancelled
  BY TypeParts DEF IInv
<1>2. /\ UNCHANGED <<pc, result, iteration, nudges, rate_limits, tokens, plan, lateCalls>>
      /\ UNCHANGED <<tool, snapshot, results, answer, lateTools, injected, mailbox, sent, stopped>>
      /\ job_state = "InProgress" /\ job_state' = "Cancelled"
  BY DEF CancelJob, loopVars, replyVars, toolVars, msgVars
<1>3. Control' /\ MailType' /\ ToolType'  BY <1>1, <1>2 DEF Control, MailType, ToolType
<1>4. Mail' /\ FirstMessageKept'  BY <1>1, <1>2, MailFrame, FirstFrame
<1>5. Late' /\ ExitHasCause' /\ Answered'
  BY <1>1, <1>2 DEF Late, StopBoundsWork, ExitHasCause, Answered, Slots, CallsAnswered
<1>6. Unaware' = Unaware  BY <1>2 DEF Unaware
<1>7. lateTools = 0  BY <1>1, <1>2 DEF Cancelled
<1>8. Cancelled'  BY <1>2, <1>6, <1>7, UnawareFinite DEF Cancelled
<1>9. TypeOK'  BY <1>3, TypePartsNext
<1> QED BY <1>4, <1>5, <1>8, <1>9 DEF IInv

-----------------------------------------------------------------------------
(* Tool calls                                                                  *)

\* A step of one call leaves the loop, the channel and the callers alone.
LEMMA ToolCallStep ==
    ASSUME IInv, Cancelled', NEW i \in Calls, NEW from \in ToolPC \ {"none", "joined"},
           NEW to \in ToolPC \ {"none"},
           ToolGoes(i, from, to), snapshot' \in [Calls -> {"InProgress", "Cancelled"}],
           lateTools' \in Nat,
           \/ to # "joined" /\ results' = results
           \/ to = "joined" /\ results' = [results EXCEPT ![i] = i]
    PROVE  IInv'
<1>1. Control /\ MailType /\ ToolType /\ Mail /\ Late /\ ExitHasCause /\ FirstMessageKept
  BY TypeParts DEF IInv
<1>2. /\ UNCHANGED <<pc, result, iteration, nudges, rate_limits, tokens, plan, lateCalls>>
      /\ UNCHANGED <<job_state, injected, mailbox, sent, stopped>>
      /\ pc \in Running /\ tool[i] = from /\ tool' = [tool EXCEPT ![i] = to]
      /\ UNCHANGED answer
  BY DEF ToolGoes, loopVars, replyVars, msgVars, outside
<1>3. Control' /\ MailType'  BY <1>1, <1>2 DEF Control, MailType
<1>4. ToolType'
  <2>1. i \in 0 .. MaxBatch  BY BoundTypes DEF Calls
  <2> QED BY <1>1, <1>2, <2>1 DEF ToolType
<1>5. Mail' /\ FirstMessageKept'  BY <1>1, <1>2, MailFrame, FirstFrame
<1>6. Late' /\ ExitHasCause'
  BY <1>1, <1>2 DEF Late, StopBoundsWork, ExitHasCause
<1>7. TypeOK'  BY <1>3, <1>4, TypePartsNext
<1>8. Answered'
  <2>1. Slots  BY DEF IInv, Answered
  <2>2. i # Missing  BY BoundTypes DEF Calls, Missing
  <2>3. /\ tool \in [Calls -> ToolPC] /\ results \in [Calls -> 0 .. MaxBatch]
        /\ results[i] = Missing /\ answer[i] = "open"
    BY <1>1, <1>2, <2>1, <2>2 DEF ToolType, Slots
  <2>4. Slots'
    <3> SUFFICES ASSUME NEW k \in Calls
                 PROVE  /\ results'[k] \in {Missing, k}
                        /\ results'[k] = k <=> tool'[k] = "joined"
                        /\ tool'[k] = "none" => answer'[k] = "none"
                        /\ tool'[k] # "none" => answer'[k] = "open"
      BY <1>2 DEF Slots, Running
    <3>1. CASE k # i  BY <1>2, <2>1, <2>3, <3>1 DEF Slots
    <3>2. CASE k = i  BY <1>2, <2>2, <2>3, <3>2
    <3> QED BY <3>1, <3>2
  <2> QED BY <1>2, <2>4 DEF Answered, CallsAnswered
<1> QED BY <1>5, <1>6, <1>7, <1>8 DEF IInv

\* A call that ends, one way or the other, is no longer about to start.
LEMMA CallEnds ==
    ASSUME IInv, NEW i \in Calls, NEW from \in ToolPC \ {"none", "joined"},
           NEW to \in ToolPC \ {"none", "hook"},
           ToolGoes(i, from, to), UNCHANGED <<snapshot, lateTools>>,
           \/ to # "joined" /\ results' = results
           \/ to = "joined" /\ results' = [results EXCEPT ![i] = i]
    PROVE  IInv'
<1>1. ToolType /\ Cancelled  BY TypeParts DEF IInv
<1>2. tool' = [tool EXCEPT ![i] = to] /\ UNCHANGED job_state  BY DEF ToolGoes, outside
<1>3. Unaware' \subseteq Unaware  BY <1>1, <1>2 DEF Unaware, ToolType
<1>4. Cancelled'  BY <1>1, <1>2, <1>3, UnawareShrinks DEF ToolType
<1> QED BY <1>1, <1>4, ToolCallStep DEF ToolType

\* A call reads the job's state: it is unaware only of a cancellation to come.
LEMMA CallReads ==
    ASSUME IInv, NEW i \in Calls, ToolGoes(i, "prepare", "hook"),
           snapshot' = [snapshot EXCEPT ![i] = job_state], UNCHANGED <<results, lateTools>>
    PROVE  IInv'
<1>1. ToolType /\ Cancelled  BY TypeParts DEF IInv
<1>2. tool' = [tool EXCEPT ![i] = "hook"] /\ UNCHANGED job_state  BY DEF ToolGoes, outside
<1>3. Cancelled'
  <2>1. CASE job_state = "Cancelled"
    <3>1. Unaware' \subseteq Unaware  BY <1>1, <1>2, <2>1 DEF Unaware, ToolType
    <3> QED BY <1>1, <1>2, <3>1, UnawareShrinks DEF ToolType
  <2>2. CASE job_state # "Cancelled"
    <3>1. lateTools' = 0  BY <1>1, <2>2 DEF Cancelled
    <3>2. Unaware' \in SUBSET Calls  BY DEF Unaware
    <3>3. IsFiniteSet(Calls) /\ Cardinality(Calls) = MaxBatch
      BY BoundTypes, FS_Interval DEF Calls
    <3>4. Cardinality(Unaware') \in Nat /\ Cardinality(Unaware') <= MaxBatch
      BY <3>2, <3>3, FS_Subset, FS_CardinalityType
    <3>5. Cardinality(Unaware)' = Cardinality(Unaware')  OBVIOUS
    <3> QED BY <1>2, <2>2, <3>1, <3>4, <3>5 DEF Cancelled
  <2> QED BY <2>1, <2>2
<1>4. /\ snapshot' \in [Calls -> {"InProgress", "Cancelled"}]
      /\ "hook" \in ToolPC \ {"none"} /\ "prepare" \in ToolPC \ {"none", "joined"}
  BY <1>1 DEF ToolType, ToolPC
<1> QED BY <1>1, <1>3, <1>4, ToolCallStep DEF ToolType

\* A call that starts was unaware, and counts once.
LEMMA CallStarts ==
    ASSUME IInv, NEW i \in Calls, StartTool(i)
    PROVE  IInv'
<1>1. ToolType /\ Cancelled  BY TypeParts DEF IInv
<1>2. /\ tool[i] = "hook" /\ snapshot[i] # "Cancelled" /\ UNCHANGED <<job_state, snapshot, results>>
      /\ tool' = [tool EXCEPT ![i] = "executing"]
      /\ lateTools' = IF job_state = "Cancelled" THEN lateTools + 1 ELSE lateTools
      /\ ToolGoes(i, "hook", "executing")
  BY DEF StartTool, ToolGoes, outside
<1>3. i \in Unaware  BY <1>2 DEF Unaware
<1>4. Unaware' = Unaware \ {i}  BY <1>1, <1>2 DEF Unaware, ToolType
<1>5. Cardinality(Unaware') = Cardinality(Unaware) - 1
  BY <1>3, <1>4, UnawareFinite, FS_RemoveElement
<1>6. Cardinality(Unaware) \in Nat  BY UnawareFinite
<1>7. Cardinality(Unaware)' = Cardinality(Unaware')  OBVIOUS
<1>8. lateTools \in Nat /\ lateTools + Cardinality(Unaware) <= MaxBatch
  BY <1>1 DEF ToolType, Cancelled
<1>9. Cancelled'
  <2>1. lateTools' + Cardinality(Unaware') <= MaxBatch
    BY <1>2, <1>5, <1>6, <1>8, BoundTypes
  <2> QED BY <1>1, <1>2, <1>7, <2>1 DEF Cancelled
<1>10. /\ lateTools' \in Nat /\ "executing" \in ToolPC \ {"none"}
       /\ "hook" \in ToolPC \ {"none", "joined"}
  BY <1>2, <1>8 DEF ToolPC
<1>11. snapshot' \in [Calls -> {"InProgress", "Cancelled"}]  BY <1>1, <1>2 DEF ToolType
<1> QED BY <1>2, <1>9, <1>10, <1>11, ToolCallStep

\* A step that leaves the channel alone.
LEMMA CalmStep ==
    ASSUME IInv, pc \notin {"start", "done"}, pc' # "start", Control', Late', ExitHasCause',
           ToolType', Cancelled', Answered', UNCHANGED <<sent, stopped, mailbox, injected>>
    PROVE  IInv'
<1>1. MailType /\ Mail /\ FirstMessageKept  BY TypeParts DEF IInv
<1>2. Mail' /\ FirstMessageKept'  BY <1>1, MailFrame, FirstFrame
<1>3. MailType'  BY <1>1 DEF MailType
<1>4. TypeOK'  BY <1>3, TypePartsNext
<1> QED BY <1>2, <1>4 DEF IInv

\* The worker's task panics or is dropped by the timeout.
LEMMA WorkerEnds ==
    ASSUME IInv, Drop, pc \notin {"start", "done"}, pc' = "done",
           result' \in {"Panicked", "Timeout"},
           UNCHANGED <<iteration, nudges, rate_limits, tokens, plan, lateCalls>>,
           UNCHANGED <<job_state, sent, stopped, mailbox, injected>>
    PROVE  IInv'
<1>1. Control /\ ToolType /\ Late /\ Cancelled  BY TypeParts DEF IInv
<1>2. Control'  BY <1>1 DEF Control, LoopPC, Results
<1>3. Late'  BY <1>1 DEF Late, StopBoundsWork
<1>4. ExitHasCause'  BY DEF ExitHasCause
<1>5. ToolType' /\ Cancelled' /\ Answered'  BY <1>1, WorkerGone
<1> QED BY <1>2, <1>3, <1>4, <1>5, CalmStep

LEMMA ToolSteps ==
    ASSUME IInv, NEW i \in Calls, ToolStep(i) \/ JoinNext(i)
    PROVE  IInv'
<1>1. /\ {"answered", "panicked", "joined", "lost"} \subseteq ToolPC \ {"none", "hook"}
      /\ {"prepare", "hook", "executing", "answered", "panicked"}
             \subseteq ToolPC \ {"none", "joined"}
  BY DEF ToolPC
<1>2. CASE PrepareTool(i)
  BY <1>1, <1>2, CallEnds, CallReads DEF PrepareTool
<1>3. CASE StartTool(i)  BY <1>3, CallStarts
<1>4. CASE RejectTool(i) \/ ToolReturns(i) \/ ToolPanics(i)
  BY <1>1, <1>4, CallEnds DEF RejectTool, ToolReturns, ToolPanics
<1>5. CASE WorkerPanics(i)
  <2>1. /\ pc \in Running /\ pc' = "done" /\ result' = "Panicked" /\ Drop
        /\ UNCHANGED <<iteration, nudges, rate_limits, tokens, plan, lateCalls>>
        /\ UNCHANGED <<job_state, sent, stopped, mailbox, injected>>
    BY <1>5 DEF WorkerPanics, End, replyVars, msgVars, outside
  <2>2. pc \notin {"start", "done"}  BY <2>1 DEF Running
  <2> QED BY <2>1, <2>2, WorkerEnds
<1>6. CASE JoinNext(i)  BY <1>1, <1>6, CallEnds DEF JoinNext
<1> QED BY <1>2, <1>3, <1>4, <1>5, <1>6 DEF ToolStep

\* Every open call has its slot filled, by its own result or by the stand-in.
LEMMA BatchAnswered ==
    ASSUME ToolType, Answered, CollectResults
    PROVE  answer' \in [Calls -> Answer] /\ Answered'
<1>1. /\ pc \in Running /\ pc' \in {"drain", "signals"} /\ UNCHANGED tool
      /\ \A i \in Calls : tool[i] \in {"none", "joined", "lost"}
      /\ results' = [i \in Calls |-> Missing]
      /\ answer' = [i \in Calls |-> IF answer[i] = "open" THEN OrderedResult(i) ELSE answer[i]]
  BY DEF CollectResults, GoTo
<1>2. \A i \in Calls : i # Missing  BY BoundTypes DEF Calls, Missing
<1>3. ASSUME NEW i \in Calls
      PROVE  \/ answer'[i] = "none"
             \/ answer'[i] = "own" /\ tool'[i] = "joined"
             \/ answer'[i] = "error" /\ tool'[i] = "lost"
  <2>1. /\ results[i] \in {Missing, i} /\ (results[i] = i <=> tool[i] = "joined")
        /\ (tool[i] = "none" => answer[i] = "none") /\ (tool[i] # "none" => answer[i] = "open")
    BY <1>1 DEF Answered, Slots
  <2>2. answer'[i] = IF answer[i] = "open" THEN OrderedResult(i) ELSE answer[i]  BY <1>1
  <2>3. tool'[i] = tool[i] /\ tool[i] \in {"none", "joined", "lost"}  BY <1>1
  <2> QED BY <1>2, <2>1, <2>2, <2>3 DEF OrderedResult
<1>4. answer' \in [Calls -> Answer]
  <2>1. \A i \in Calls : answer'[i] \in Answer  BY <1>3 DEF Answer
  <2> QED BY <1>1, <2>1
<1>5. Slots'  BY <1>1 DEF Slots, Running
<1>6. CallsAnswered'  BY <1>3 DEF CallsAnswered
<1> QED BY <1>4, <1>5, <1>6 DEF Answered

LEMMA CollectStep ==
    ASSUME IInv, CollectResults
    PROVE  IInv'
<1>1. Control /\ ToolType /\ Late /\ ExitHasCause /\ Cancelled /\ Answered
  BY TypeParts DEF IInv
<1>2. /\ UNCHANGED <<iteration, nudges, rate_limits, tokens, plan, lateCalls>>
      /\ UNCHANGED <<tool, snapshot, lateTools, job_state, sent, stopped, mailbox, injected>>
      /\ results' = [i \in Calls |-> Missing]
  BY DEF CollectResults, GoTo, replyVars, msgVars, outside
<1>3. \/ pc = "planned" /\ pc' = "drain" /\ result' = result
      \/ pc = "tools" /\ pc' = "signals" /\ result' = result
  BY DEF CollectResults, GoTo, Running
<1>4. Control'  BY <1>1, <1>2, <1>3 DEF Control, LoopPC
<1>5. Late'  BY <1>1, <1>2, <1>3 DEF Late, StopBoundsWork, Control
<1>6. ExitHasCause'  BY <1>1, <1>2, <1>3 DEF ExitHasCause
<1>7. pc \notin {"start", "done"} /\ pc' # "start"  BY <1>3
<1>8. answer' \in [Calls -> Answer] /\ Answered'  BY <1>1, BatchAnswered
<1>9. ToolType'  BY <1>1, <1>2, <1>8, BoundTypes DEF ToolType, Missing
<1>10. Unaware' \subseteq Unaware  BY <1>2 DEF Unaware
<1>11. Cancelled'  BY <1>1, <1>2, <1>10, UnawareShrinks DEF ToolType
<1> QED BY <1>2, <1>4, <1>5, <1>6, <1>7, <1>8, <1>9, <1>11, CalmStep

LEMMA TimeoutStep ==
    ASSUME IInv, Timeout
    PROVE  IInv'
<1>1. /\ pc \notin {"start", "done"} /\ pc' = "done" /\ result' = "Timeout" /\ Drop
      /\ UNCHANGED <<iteration, nudges, rate_limits, tokens, plan, lateCalls>>
      /\ UNCHANGED <<job_state, sent, stopped, mailbox, injected>>
  BY DEF Timeout, End, replyVars, msgVars, outside
<1> QED BY <1>1, WorkerEnds

-----------------------------------------------------------------------------
(* The theorems                                                                *)

LEMMA NextIInv == IInv /\ [Next]_vars => IInv'
<1> SUFFICES ASSUME IInv, [Next]_vars PROVE IInv'  OBVIOUS
<1>1. CASE Next
  <2>1. CASE \E i \in Calls : ToolStep(i) \/ JoinNext(i)  BY <2>1, ToolSteps
  <2> QED BY <1>1, <2>1, SendSteps, CancelStep, StartStep, PlanningSteps, DrainStep,
             SignalsStep, SelectStep, RespondStep, CollectStep, TimeoutStep DEF Next, LoopStep
<1>2. CASE UNCHANGED vars
  <2>1. /\ UNCHANGED <<pc, result, iteration, nudges, rate_limits, tokens, plan, lateCalls>>
        /\ UNCHANGED <<tool, snapshot, results, answer, lateTools, job_state, sent, stopped, mailbox, injected>>
    BY <1>2 DEF vars, loopVars, replyVars, toolVars, msgVars, outside
  <2>2. Control /\ MailType /\ ToolType /\ Cancelled  BY TypeParts DEF IInv
  <2>3. Control' /\ MailType'  BY <2>1, <2>2 DEF Control, MailType
  <2>4. ToolType' /\ Cancelled'  BY <2>1, <2>2, ToolFrame
  <2>5. TypeOK'  BY <2>3, <2>4, TypePartsNext
  <2>6. Mail' /\ FirstMessageKept'  BY <2>1, MailFrame, FirstFrame DEF IInv
  <2>7. Late' /\ ExitHasCause' /\ Answered'
    BY <2>1 DEF IInv, Late, StopBoundsWork, ExitHasCause, Answered, Slots, CallsAnswered
  <2> QED BY <2>4, <2>5, <2>6, <2>7 DEF IInv
<1> QED BY <1>1, <1>2

LEMMA Inductive == Spec => []IInv
BY InitIInv, NextIInv, PTL DEF Spec

\* Every variable keeps its type, and the loop its limits: iterations, nudges and
\* consecutive rate limits never exceed the configuration, whatever the model
\* replies (agentic_loop.rs, handle_rate_limit in worker/job/delegate.rs).
THEOREM TypeCorrect == Spec => []TypeOK
BY Inductive, PTL DEF IInv

\* Once Stop is in the channel the worker begins at most three more model calls
\* or rounds of tools, wherever it is: check_signals and drain_plan_signals find
\* the message whatever is queued around it.
THEOREM StopIsBounded == Spec => []StopBoundsWork
BY Inductive, PTL DEF IInv, Late

\* At most one batch of tools starts on a cancelled job: the check in
\* execute_tool_inner sees every cancellation made before the call was prepared.
THEOREM CancelIsBounded == Spec => []CancelBoundsTools
<1>1. IInv => CancelBoundsTools
  <2> SUFFICES ASSUME IInv PROVE CancelBoundsTools  OBVIOUS
  <2>1. lateTools \in Nat /\ lateTools + Cardinality(Unaware) <= MaxBatch
    BY TypeParts DEF IInv, ToolType, Cancelled
  <2>2. Cardinality(Unaware) \in Nat  BY UnawareFinite
  <2> QED BY <2>1, <2>2, BoundTypes DEF CancelBoundsTools
<1> QED BY <1>1, Inductive, PTL

\* execution_loop returns without an outcome only after Stop or a cancellation,
\* which is the guard of JobLifecycle's RunExits.
THEOREM ExitsOnlyOnRequest == Spec => []ExitHasCause
BY Inductive, PTL DEF IInv

\* In whatever order the calls of a batch end, and whichever of their tasks panic,
\* at the next model call each of them has its own result behind it in the context,
\* or the stand-in error if its task panicked (collect_ordered_results).
THEOREM EveryCallAnswered == Spec => []CallsAnswered
BY Inductive, PTL DEF IInv, Answered

\* A user's first follow-up message is in the channel or in the context until the
\* worker ends: neither check_signals, which keeps one message of all it drains,
\* nor drain_plan_signals can lose it.
THEOREM FirstMessageSafe == Spec => []FirstMessageKept
BY Inductive, PTL DEF IInv
=============================================================================
