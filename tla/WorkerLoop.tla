----------------------------- MODULE WorkerLoop -----------------------------
(* What one worker does between its Start message and the result that Worker:: *)
(* run settles: worker/job/{run_loop,planning,delegate,tool_exec,tool_pipeline} *)
(* and the shared loop of agent/agentic_loop.rs.  JobLifecycle has this as the *)
(* single state "running", left by RunEnds or RunExits.                        *)
(*                                                                             *)
(* Each action is what the worker, one of its tool tasks or a caller does      *)
(* between two awaits.  What the model says is a free choice among the replies *)
(* the code tells apart; the texts are left out.                               *)
EXTENDS Integers, Sequences

CONSTANTS
    ChannelCapacity,    \* mpsc::channel(16)
    MaxIterations,      \* max_iterations, at most MAX_WORKER_ITERATIONS
    MaxNudges,          \* max_tool_intent_nudges
    MaxRateLimits,      \* MAX_CONSECUTIVE_RATE_LIMITS
    MaxTokens,          \* JobContext.max_tokens; 0 is unlimited
    Usage,              \* the token counts a reply may be charged with
    MaxPlan,            \* bound: actions of a plan
    MaxBatch,           \* bound: tool calls of one reply
    MaxMessages         \* bound: follow-up messages users send

ASSUME BoundAssumption ==
    /\ {MaxNudges, MaxTokens, MaxPlan, MaxMessages, MaxIterations} \subseteq Nat
    /\ {ChannelCapacity, MaxRateLimits, MaxBatch} \subseteq Nat \ {0}
    /\ Usage \subseteq Nat

VARIABLES
    pc,             \* where the worker is
    result,         \* what execution_loop returned, "none" before
    mailbox,        \* the channel, oldest first: <<kind, message number>>
    job_state,      \* the job's state as the callers set it
    iteration,      \* iteration of run_agentic_loop
    nudges,         \* consecutive_tool_intent_nudges
    rate_limits,    \* consecutive_rate_limits
    tokens,         \* total_tokens_used
    plan,           \* planned actions still to execute
    tool,           \* the calls of the current batch
    snapshot,       \* the job state each call read when it was prepared
    results,        \* the slots of collect_ordered_results: whose output is in each
    answer,         \* what follows each call of the last batch in the context
    sent,           \* messages accepted by send_message
    injected,       \* those pushed into the reasoning context
    stopped,        \* history: a Stop message is or was in the channel
    lateCalls,      \* history: model calls and tool rounds begun after that
    lateTools       \* history: tools that began to execute on a cancelled job

loopVars == <<pc, result, iteration>>
replyVars == <<nudges, rate_limits, tokens>>
toolVars == <<tool, snapshot, results, answer, lateTools>>
msgVars == <<mailbox, injected>>
outside == <<job_state, sent, stopped>>
vars == <<loopVars, replyVars, plan, toolVars, msgVars, outside, lateCalls>>

Calls == 1 .. MaxBatch
ToolPC ==
    {"none", "prepare", "hook", "executing", "answered", "panicked", "joined", "lost"}
\* A call that is not there, one without an answer, and what it can be answered
\* with: its own result, the stand-in error, another call's result.
Answer == {"none", "open", "own", "error", "other"}
Missing == 0
LoopPC ==
    {"start", "plan", "drain", "planned", "confirm", "recheck", "signals",
     "state", "ready", "select", "respond", "tools", "done"}
Results == {"none", "Completed", "Exited", "Failed", "Timeout", "Panicked"}

StartMsg == <<"Start", 0>>
StopMsg == <<"Stop", 0>>
UserMsg(n) == <<"User", n>>

Init ==
    /\ pc = "start" /\ result = "none"
    /\ mailbox = <<StartMsg>>
    /\ job_state = "InProgress"
    /\ iteration = 0 /\ nudges = 0 /\ rate_limits = 0 /\ tokens = 0 /\ plan = 0
    /\ tool = [i \in Calls |-> "none"]
    /\ snapshot = [i \in Calls |-> "InProgress"]
    /\ results = [i \in Calls |-> Missing]
    /\ answer = [i \in Calls |-> "none"]
    /\ sent = 0 /\ injected = {}
    /\ stopped = FALSE /\ lateCalls = 0 /\ lateTools = 0

-----------------------------------------------------------------------------
(* Moving on                                                                   *)

GoTo(where) == pc' = where /\ UNCHANGED <<result, iteration>>

End(r) == pc' = "done" /\ result' = r /\ UNCHANGED iteration

\* Begin a model call or a round of tool calls.
BeginCall(where) ==
    /\ GoTo(where)
    /\ lateCalls' = IF stopped THEN lateCalls + 1 ELSE lateCalls

\* The assistant's message with n calls goes into the context, and they begin.
BeginTools(where, n) ==
    /\ BeginCall(where)
    /\ tool' = [i \in Calls |-> IF i <= n THEN "prepare" ELSE "none"]
    /\ answer' = [i \in Calls |-> IF i <= n THEN "open" ELSE "none"]
    /\ UNCHANGED <<snapshot, results, lateTools>>

\* The worker's task ends: its context and its tasks are dropped.
Drop ==
    /\ tool' = [i \in Calls |-> "none"]
    /\ answer' = [i \in Calls |-> "none"]
    /\ results' = [i \in Calls |-> Missing]
    /\ UNCHANGED <<snapshot, lateTools>>

-----------------------------------------------------------------------------
(* Scheduler::send_message, send_stop_signal, and whoever cancels the job      *)

\* A send waits while the channel is full, and fails once the worker is gone.
Send(msg) ==
    /\ pc # "done"
    /\ Len(mailbox) < ChannelCapacity
    /\ mailbox' = Append(mailbox, msg)

SendMessage ==
    /\ sent < MaxMessages
    /\ sent' = sent + 1
    /\ Send(UserMsg(sent + 1))
    /\ UNCHANGED <<loopVars, replyVars, plan, toolVars, injected, job_state,
                   stopped, lateCalls>>

SendStop ==
    /\ Send(StopMsg)
    /\ stopped' = TRUE
    /\ UNCHANGED <<loopVars, replyVars, plan, toolVars, injected, job_state, sent,
                   lateCalls>>

CancelJob ==
    /\ pc # "done" /\ job_state = "InProgress"
    /\ job_state' = "Cancelled"
    /\ UNCHANGED <<loopVars, replyVars, plan, toolVars, msgVars, sent, stopped,
                   lateCalls>>

-----------------------------------------------------------------------------
(* Worker::run up to the loop: wait_for_start, generate_plan                   *)

\* The first message starts the worker, unless it is Stop.  use_planning is a
\* setting: either value is a behaviour.
WaitForStart ==
    /\ pc = "start" /\ mailbox # <<>>
    /\ mailbox' = Tail(mailbox)
    /\ \/ Head(mailbox) = StopMsg /\ End("Exited") /\ UNCHANGED lateCalls
       \/ Head(mailbox) # StopMsg /\ BeginCall("plan")
       \/ Head(mailbox) # StopMsg /\ GoTo("signals") /\ UNCHANGED lateCalls
    /\ UNCHANGED <<replyVars, plan, toolVars, injected, outside>>

\* A failed plan falls back to direct selection.
GeneratePlan ==
    /\ pc = "plan"
    /\ \/ GoTo("signals") /\ UNCHANGED plan
       \/ GoTo("drain") /\ plan' \in 0 .. MaxPlan
    /\ UNCHANGED <<replyVars, toolVars, msgVars, outside, lateCalls>>

-----------------------------------------------------------------------------
(* execute_plan                                                                *)

\* The positions of the messages that interrupt a plan.
Interrupts == {i \in DOMAIN mailbox : mailbox[i] # StartMsg}

First(S) == CHOOSE i \in S : \A k \in S : i <= k

\* Mutant: a stop signal does not interrupt the plan.
DrainPlanSignals_IgnoresStop ==
    /\ pc = "drain" /\ plan > 0
    /\ mailbox' = <<>>
    /\ plan' = plan - 1
    /\ BeginTools("planned", 1)
    /\ UNCHANGED <<replyVars, injected, outside>>

\* Mutant: a user message abandons the plan and is then forgotten.
InterruptPlan_DropsMessage(msg) ==
    /\ IF msg = StopMsg THEN End("Exited") ELSE GoTo("recheck")
    /\ UNCHANGED injected

InterruptPlan(msg) ==
    IF msg = StopMsg
    THEN End("Exited") /\ UNCHANGED injected
    ELSE GoTo("recheck") /\ injected' = injected \cup {msg[2]}

\* drain_plan_signals before an action: stop at the first message that
\* interrupts, and leave what is behind it in the channel.
DrainPlanSignals ==
    /\ pc = "drain" /\ plan > 0
    /\ IF Interrupts = {}
       THEN /\ mailbox' = <<>>
            /\ plan' = plan - 1
            /\ BeginTools("planned", 1)
            /\ UNCHANGED injected
       ELSE LET i == First(Interrupts) IN
            /\ mailbox' = SubSeq(mailbox, i + 1, Len(mailbox))
            /\ InterruptPlan(mailbox[i])
            /\ UNCHANGED <<plan, toolVars, lateCalls>>
    /\ UNCHANGED <<replyVars, outside>>

PlanExecuted ==
    /\ pc = "drain" /\ plan = 0
    /\ BeginCall("confirm")
    /\ UNCHANGED <<replyVars, plan, toolVars, msgVars, outside>>

\* confirm_plan_completion: an error, a completion, or more work to do.
ConfirmPlanCompletion ==
    /\ pc = "confirm"
    /\ End("Failed") \/ End("Completed") \/ GoTo("recheck")
    /\ UNCHANGED <<replyVars, plan, toolVars, msgVars, outside, lateCalls>>

\* Mutant: a plan that leaves work to do ends the worker.
RecheckState_Exits ==
    /\ pc = "recheck"
    /\ End("Exited")
    /\ UNCHANGED <<replyVars, plan, toolVars, msgVars, outside, lateCalls>>

\* maybe_plan_and_execute looks at the state once before the loop.
RecheckState ==
    /\ pc = "recheck"
    /\ IF job_state = "Cancelled" THEN End("Exited") ELSE GoTo("signals")
    /\ UNCHANGED <<replyVars, plan, toolVars, msgVars, outside, lateCalls>>

-----------------------------------------------------------------------------
(* One iteration of run_agentic_loop                                           *)

UserMessages == {i \in DOMAIN mailbox : mailbox[i][1] = "User"}
StopRequested == \E i \in DOMAIN mailbox : mailbox[i] = StopMsg

\* check_signals empties the channel.  Stop wins; otherwise the first user
\* message goes into the context; otherwise the job's state is looked at.
CheckSignals ==
    /\ pc = "signals" /\ iteration < MaxIterations
    /\ mailbox' = <<>>
    /\ \/ /\ StopRequested
          /\ End("Exited") /\ UNCHANGED injected
       \/ /\ ~StopRequested /\ UserMessages # {}
          /\ pc' = "ready" /\ iteration' = iteration + 1 /\ UNCHANGED result
          /\ injected' = injected \cup {mailbox[First(UserMessages)][2]}
       \/ /\ ~StopRequested /\ UserMessages = {}
          /\ pc' = "state" /\ iteration' = iteration + 1
          /\ UNCHANGED <<result, injected>>
    /\ UNCHANGED <<replyVars, plan, toolVars, outside, lateCalls>>

\* The iteration cap: an error, settled by mark_failed.
IterationCap ==
    /\ pc = "signals" /\ iteration >= MaxIterations
    /\ End("Failed")
    /\ UNCHANGED <<replyVars, plan, toolVars, msgVars, outside, lateCalls>>

CheckState ==
    /\ pc = "state"
    /\ IF job_state = "Cancelled" THEN End("Exited") ELSE GoTo("ready")
    /\ UNCHANGED <<replyVars, plan, toolVars, msgVars, outside, lateCalls>>

\* before_llm_call refreshes the tool definitions; select_tools begins.
BeforeLlmCall ==
    /\ pc = "ready"
    /\ BeginCall("select")
    /\ UNCHANGED <<replyVars, plan, toolVars, msgVars, outside>>

\* Mutant: a rate-limited call is repeated within the iteration, uncounted.
HandleRateLimit_Retries ==
    GoTo("select") /\ UNCHANGED <<nudges, rate_limits>>

\* Mutant: the limit is only noticed one attempt late.
HandleRateLimit_OffByOne ==
    /\ rate_limits' = rate_limits + 1
    /\ nudges' = 0
    /\ IF rate_limits + 1 > MaxRateLimits THEN End("Failed") ELSE GoTo("signals")

\* handle_rate_limit: fail at the limit; otherwise wait and hand the loop an
\* empty text, which is no tool intent and so resets the nudge counter.
HandleRateLimit ==
    /\ rate_limits' = rate_limits + 1
    /\ IF rate_limits + 1 >= MaxRateLimits
       THEN End("Failed") /\ UNCHANGED nudges
       ELSE GoTo("signals") /\ nudges' = 0

\* try_select_tools: calls, nothing (fall back to respond_with_tools, the
\* counter untouched), a rate limit, another error.
SelectTools ==
    /\ pc = "select"
    /\ \/ /\ \E n \in Calls : BeginTools("tools", n)
          /\ rate_limits' = 0 /\ nudges' = 0
       \/ BeginCall("respond") /\ UNCHANGED <<rate_limits, nudges, toolVars>>
       \/ HandleRateLimit /\ UNCHANGED <<toolVars, lateCalls>>
       \/ End("Failed") /\ UNCHANGED <<rate_limits, nudges, toolVars, lateCalls>>
    /\ UNCHANGED <<tokens, plan, msgVars, outside>>

OverBudget(used) == MaxTokens > 0 /\ used > MaxTokens

\* The loop's treatment of a text: nudge, take it as completion, or go on.
\* `expected` is that tools are available and text is not forced.
TextReply(intent, completes, expected) ==
    IF intent /\ expected /\ nudges < MaxNudges
    THEN GoTo("signals") /\ nudges' = nudges + 1
    ELSE /\ nudges' = IF intent THEN nudges ELSE 0
         /\ IF completes THEN End("Completed") ELSE GoTo("signals")

\* A reply of respond_with_tools: the budget is charged first.
Replied ==
    /\ rate_limits' = 0
    /\ \E n \in Usage :
          /\ tokens' = tokens + n
          /\ \/ /\ OverBudget(tokens + n) /\ n > 0
                /\ End("Failed") /\ UNCHANGED <<nudges, toolVars, lateCalls>>
             \/ /\ ~OverBudget(tokens + n) \/ n = 0
                /\ \/ /\ \E k \in Calls : BeginTools("tools", k)
                      /\ nudges' = 0
                   \/ /\ \E intent, completes, expected \in BOOLEAN :
                            TextReply(intent, completes, expected)
                      /\ UNCHANGED <<toolVars, lateCalls>>

RespondWithTools ==
    /\ pc = "respond"
    /\ \/ Replied
       \/ HandleRateLimit /\ UNCHANGED <<tokens, toolVars, lateCalls>>
       \/ End("Failed") /\ UNCHANGED <<replyVars, toolVars, lateCalls>>
    /\ UNCHANGED <<plan, msgVars, outside>>

-----------------------------------------------------------------------------
(* Tool calls: execute_tool_inner, one task each when there are several        *)

Running == {"planned", "tools"}

ToolGoes(i, from, to) ==
    /\ pc \in Running
    /\ tool[i] = from
    /\ tool' = [tool EXCEPT ![i] = to]
    /\ UNCHANGED <<loopVars, replyVars, plan, answer, msgVars, outside, lateCalls>>

\* resolve_approved_tool, the job context, check_tool_rate_limit: an error is
\* the answer, or the call goes on with the context it has read.
PrepareTool(i) ==
    \/ ToolGoes(i, "prepare", "answered") /\ UNCHANGED <<snapshot, results, lateTools>>
    \/ /\ ToolGoes(i, "prepare", "hook")
       /\ snapshot' = [snapshot EXCEPT ![i] = job_state]
       /\ UNCHANGED <<results, lateTools>>

\* Mutant: the cancellation check is missing.
StartTool_Unchecked(i) ==
    /\ ToolGoes(i, "hook", "executing")
    /\ lateTools' = IF job_state = "Cancelled" THEN lateTools + 1 ELSE lateTools
    /\ UNCHANGED <<snapshot, results>>

\* The hook has run and not rejected the call; the state that is tested is the
\* one read before the hook; the parameters are valid.
StartTool(i) ==
    /\ snapshot[i] # "Cancelled"
    /\ ToolGoes(i, "hook", "executing")
    /\ lateTools' = IF job_state = "Cancelled" THEN lateTools + 1 ELSE lateTools
    /\ UNCHANGED <<snapshot, results>>

\* Rejected by the hook, by the cancellation check or by the validator.
RejectTool(i) == ToolGoes(i, "hook", "answered") /\ UNCHANGED <<snapshot, results, lateTools>>

\* The tool returns, fails or times out; the action is recorded.
ToolReturns(i) ==
    ToolGoes(i, "executing", "answered") /\ UNCHANGED <<snapshot, results, lateTools>>

Alone(i) == \A k \in Calls \ {i} : tool[k] = "none"

\* A panic ends the task of a call that runs beside others.
ToolPanics(i) ==
    /\ ~Alone(i)
    /\ ToolGoes(i, "executing", "panicked")
    /\ UNCHANGED <<snapshot, results, lateTools>>

\* A call on its own runs in the worker's task and takes the worker down.
WorkerPanics(i) ==
    /\ pc \in Running /\ tool[i] = "executing" /\ Alone(i)
    /\ Drop
    /\ End("Panicked")
    /\ UNCHANGED <<replyVars, plan, msgVars, outside, lateCalls>>

ToolStep(i) ==
    \/ PrepareTool(i) \/ StartTool(i) \/ RejectTool(i)
    \/ ToolReturns(i) \/ ToolPanics(i) \/ WorkerPanics(i)

\* join_next, in the order in which the tasks end: a result goes into the slot of
\* its index, a panicked task leaves its slot empty.  A call on its own is awaited.
JoinNext(i) ==
    \/ /\ ToolGoes(i, "answered", "joined")
       /\ results' = [results EXCEPT ![i] = i]
       /\ UNCHANGED <<snapshot, lateTools>>
    \/ /\ ToolGoes(i, "panicked", "lost")
       /\ UNCHANGED <<snapshot, results, lateTools>>

\* Mutant: an empty slot is skipped.
OrderedResult_Unfilled(i) ==
    IF results[i] = Missing THEN "open" ELSE IF results[i] = i THEN "own" ELSE "other"

\* The results in the order of the calls, an error in the place of an empty slot.
OrderedResult(i) ==
    IF results[i] = Missing THEN "error" ELSE IF results[i] = i THEN "own" ELSE "other"

\* collect_ordered_results has drained the JoinSet; process_tool_result_job puts
\* the result of every selection behind its call.
CollectResults ==
    /\ pc \in Running
    /\ \A i \in Calls : tool[i] \in {"none", "joined", "lost"}
    /\ answer' = [i \in Calls |-> IF answer[i] = "open" THEN OrderedResult(i) ELSE answer[i]]
    /\ results' = [i \in Calls |-> Missing]
    /\ GoTo(IF pc = "planned" THEN "drain" ELSE "signals")
    /\ UNCHANGED <<replyVars, plan, tool, snapshot, lateTools, msgVars, outside, lateCalls>>

\* The timeout around execution_loop drops whatever is running.
Timeout ==
    /\ pc \notin {"start", "done"}
    /\ End("Timeout")
    /\ Drop
    /\ UNCHANGED <<replyVars, plan, msgVars, outside, lateCalls>>

-----------------------------------------------------------------------------
LoopStep ==
    \/ WaitForStart \/ GeneratePlan
    \/ DrainPlanSignals \/ PlanExecuted \/ ConfirmPlanCompletion \/ RecheckState
    \/ CheckSignals \/ IterationCap \/ CheckState \/ BeforeLlmCall
    \/ SelectTools \/ RespondWithTools \/ CollectResults
    \/ \E i \in Calls : JoinNext(i)

Next ==
    \/ SendMessage \/ SendStop \/ CancelJob
    \/ LoopStep \/ Timeout
    \/ \E i \in Calls : ToolStep(i)

Spec == Init /\ [][Next]_vars

\* The runtime polls the worker and its tool tasks; model calls return and every
\* tool has an execution timeout.  The job timeout is not needed for progress.
FairSpec ==
    /\ Spec
    /\ WF_vars(LoopStep)
    /\ \A i \in Calls : WF_vars(ToolStep(i))

-----------------------------------------------------------------------------
(* Properties                                                                  *)

\* Types, and the limits of the loop: nudges, rate limits and iterations stay
\* within what the configuration allows.
TypeOK ==
    /\ pc \in LoopPC /\ result \in Results
    /\ mailbox \in Seq({StartMsg, StopMsg} \cup {UserMsg(n) : n \in 1 .. MaxMessages})
    /\ Len(mailbox) <= ChannelCapacity
    /\ job_state \in {"InProgress", "Cancelled"}
    /\ iteration \in 0 .. MaxIterations
    /\ nudges \in 0 .. MaxNudges
    /\ rate_limits \in 0 .. MaxRateLimits
    /\ rate_limits = MaxRateLimits => pc = "done"
    /\ tokens \in Nat
    /\ plan \in 0 .. MaxPlan
    /\ tool \in [Calls -> ToolPC]
    /\ snapshot \in [Calls -> {"InProgress", "Cancelled"}]
    /\ results \in [Calls -> 0 .. MaxBatch] /\ answer \in [Calls -> Answer]
    /\ sent \in 0 .. MaxMessages /\ injected \subseteq 1 .. MaxMessages
    /\ stopped \in BOOLEAN /\ lateCalls \in Nat /\ lateTools \in Nat

\* Wherever the worker is when Stop enters its channel, and whatever is queued
\* before it, it begins at most three more model calls or tool rounds: the
\* selection, the fallback and the tools of the iteration that was starting.
StopBoundsWork == lateCalls <= 3

\* Tools that begin to execute after the job was cancelled are only calls of one
\* batch that read the job's state before: the check in execute_tool_inner stops
\* every later one, in a plan and in the loop.
CancelBoundsTools == lateTools <= MaxBatch

\* The loop is left without an outcome to settle only because Stop was sent or
\* the job was cancelled: the guard of JobLifecycle's RunExits.
ExitHasCause == result = "Exited" => stopped \/ job_state = "Cancelled"

\* Whenever the worker is about to call the model, every tool call of its context
\* has an answer behind it, and the right one: the output of that very call, in
\* whatever order the tasks ended, or the stand-in error where, and only where,
\* the task panicked.
CallsAnswered ==
    pc \notin Running \cup {"done"} =>
        \A i \in Calls : \/ answer[i] = "none"
                         \/ answer[i] = "own" /\ tool[i] = "joined"
                         \/ answer[i] = "error" /\ tool[i] = "lost"

Queued(msg) == \E i \in DOMAIN mailbox : mailbox[i] = msg

\* The first follow-up message a user sends reaches the model unless the worker
\* ends first.
FirstMessageKept ==
    sent > 0 /\ pc # "done" => 1 \in injected \/ Queued(UserMsg(1))

\* The worker's loop ends by its own limits, without the job timeout, whatever
\* the model replies and however often it is rate limited.
LoopEnds == <>(pc = "done")

=============================================================================
