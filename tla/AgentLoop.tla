------------------------------- MODULE AgentLoop -------------------------------
(***************************************************************************)
(* The readonly agent loop of one run: AgentLoop.run around                *)
(* StepPipeline.advance, AgentStepExecutor.execute_step, the model gateway *)
(* behind it and the tool executor with its adapter threads.               *)
(*                                                                         *)
(* The model behind the gateway may propose anything, an adapter may       *)
(* answer, raise, answer late or never, the deadline may pass at any       *)
(* moment, and a handler of the API may cancel a run that was resumed      *)
(* before the loop's first checkpoint.                                     *)
(***************************************************************************)
EXTENDS Integers, Sequences, FiniteSets, SequencesExt

CONSTANTS
    Tools,          \* names a decision may give
    Resolvable,     \* registered, model visible, in workflow, step and scopes
    ReadOnly,       \* tools whose risk is READ_ONLY
    Allowed,        \* ROUTE_TOOLS of the locked route
    Bound,          \* tools whose argument is a resource with an owner
    Evidence,       \* evidence ids a decision may cite
    Proposals,      \* the decisions the model may produce
    MaxSteps,       \* 6 in the code
    RetryAttempts,  \* posts per model request
    MaxAttempts,    \* calls per execution of a readonly tool
    TokenBudget,    \* three times the conservative charge in the code
    Conservative,   \* charge of a step whose usage is unknown
    Reported,       \* token usage a provider may report
    Starts          \* what the loop is started on: subset of Start

ToolTypes == {"call_tool"}
EndTypes == {"respond", "finish", "ask_user", "handoff"}

\* What the validators can tell apart of a decision's arguments: "foreign" names
\* a resource of another actor, "tracking" has a tracking_id where the order_id
\* belongs, "mistyped" has a type only the executor's schema check looks at.
Arguments == {"none", "valid", "foreign", "tracking", "malformed", "mistyped",
              "system"}

Decision == [type : ToolTypes \cup EndTypes, tool : Tools \cup {"none"},
             args : Arguments, route : {"locked", "other"},
             cites : SUBSET Evidence]

\* The loop starts on a run that was just routed, on one that waited for its user
\* (its row says so until the first checkpoint), or on one that startup submits
\* again: with the steps, observed tools and evidence its context brings along.
Start == [row : {"running_readonly", "waiting_user"}, steps : 0 .. MaxSteps,
          tools : SUBSET Tools, evidence : SUBSET Evidence]

ASSUME LoopAssumption ==
    /\ Resolvable \subseteq Tools /\ ReadOnly \subseteq Tools
    /\ Allowed \subseteq Tools /\ Bound \subseteq Tools
    /\ "none" \notin Tools
    /\ Proposals \subseteq Decision
    /\ MaxSteps \in Nat \ {0}
    /\ RetryAttempts \in Nat \ {0}
    /\ MaxAttempts \in Nat \ {0}
    /\ TokenBudget \in Nat
    /\ Conservative \in Nat \ {0}
    /\ Reported \subseteq Nat
    /\ Starts \subseteq Start

VARIABLES
    status,     \* agent_runs.status
    version,    \* agent_runs.row_version
    events,     \* event types of the newest checkpoint
    ctx,        \* the loop's RunContext
    pc,         \* where the loop is
    request,    \* the model request under way: repair, post, second decision
    decision,   \* the decision the step works on
    usage,      \* tokens of that decision, or Unknown
    outcome,    \* LoopResult of the step: status and reason
    call,       \* the tool execution of the step: attempts, result, its maker
    threads,    \* adapter threads that have not come back: <<step, attempt>>
    journal,    \* PipelineJournal of the step
    previous,   \* previous_signature
    budget,     \* remaining_budget
    late,       \* deadline_at has passed
    signal,     \* the caller's cancellation callable answers True
    given,      \* trusted_evidence_ids of the decision boundary
    answer,     \* evidence cited by the response that ended the run
    retrieved   \* every evidence id a checkpointed observation has held

rowVars == <<status, version, events>>
modelVars == <<request, decision, usage>>
vars == <<status, version, events, ctx, pc, request, decision, usage, outcome,
          call, threads, journal, previous, budget, late, signal, answer,
          retrieved, given>>

NoDecision == [type |-> "none", tool |-> "none", args |-> "none",
               route |-> "locked", cites |-> {}]
Unknown == -1    \* usage_tokens is None
NoRequest == [repair |-> FALSE, post |-> 0, second |-> FALSE]
NoOutcome == [status |-> "none", reason |-> "none"]
NoResult == [code |-> "none", data |-> {}, retryable |-> FALSE, maker |-> <<>>]
NoCall == [attempts |-> 0, started |-> 0, result |-> NoResult]

PIPELINE_ORDER == <<"build_prompt", "request_decision", "validate", "execute",
                    "observe", "reduce", "checkpoint", "terminate">>

\* Reasons of a failed step that hand the run to a person.
Exhausted == {"max_steps_exceeded", "token_budget_exhausted", "deadline_exceeded"}

\* execute_readonly_run composes the loop over the context of a routed run.  The
\* executor has set its status; the row's version is the context's.
Init ==
    /\ version = 1 /\ events = {}
    /\ \E start \in Starts :
           /\ status = start.row
           /\ ctx = [status |-> "running_readonly", version |-> 1,
                     steps |-> start.steps, tools |-> start.tools,
                     evidence |-> start.evidence, reason |-> "none"]
           /\ given = start.evidence /\ retrieved = start.evidence
    /\ pc = "step"
    /\ request = NoRequest /\ decision = NoDecision /\ usage = Unknown
    /\ outcome = NoOutcome /\ call = NoCall /\ threads = {}
    /\ journal = <<>> /\ previous = NoDecision
    /\ budget = TokenBudget /\ late = FALSE /\ signal = FALSE
    /\ answer = {}

-------------------------------------------------------------------------------
(***************************************************************************)
(* One step up to the model's answer                                       *)
(***************************************************************************)

\* PipelineJournal.record, for the stages a path records one after the other.
Record(stages) == journal' = journal \o stages

Skipped == <<"validate", "execute", "observe">>

\* The step ends with a LoopResult.
Finish(verdict, reason) ==
    /\ outcome' = [status |-> verdict, reason |-> reason]
    /\ pc' = "reduce"

\* Mutant: the step that uses the budget up is followed by one more.
MutGate ==
    IF signal THEN "cancelled"
    ELSE IF ctx.steps > MaxSteps THEN "max_steps_exceeded"
    ELSE IF budget <= 0 THEN "token_budget_exhausted"
    ELSE IF late THEN "deadline_exceeded"
    ELSE "none"

\* What execute_step tests before it asks the model, in its order.
Gate ==
    IF signal THEN "cancelled"
    ELSE IF ctx.steps >= MaxSteps THEN "max_steps_exceeded"
    ELSE IF budget <= 0 THEN "token_budget_exhausted"
    ELSE IF late THEN "deadline_exceeded"
    ELSE "none"

\* validate_step_inputs: the prompt and the tool context are built from the
\* context they are compared with, so the run's status is what is left to test.
InputsValid == ctx.status \in {"running_readonly", "running_workflow"}

\* advance builds the prompt; execute_step stops at a gate or asks the model.
BeginStep ==
    /\ pc = "step" /\ InputsValid
    /\ IF Gate = "none"
       THEN /\ journal' = <<"build_prompt">>
            /\ pc' = "post"
            /\ request' = [NoRequest EXCEPT !.post = 1]
            /\ UNCHANGED outcome
       ELSE /\ journal' = <<"build_prompt", "request_decision">> \o Skipped
            /\ Finish("fail", Gate)
            /\ UNCHANGED request
    /\ UNCHANGED <<rowVars, ctx, decision, usage, call, threads, previous, budget,
                   late, signal, answer, retrieved, given>>

\* The prompt needs the messages of the conversation; a failure leaves the loop.
BuildFails ==
    /\ pc = "step"
    /\ pc' = "raised"
    /\ journal' = PIPELINE_ORDER
    /\ UNCHANGED <<rowVars, modelVars, ctx, outcome, call, threads, previous,
                   budget, late, signal, answer, retrieved, given>>

\* _post_to: a timeout, a transport error or a 5xx is posted again while
\* attempts are left.
PostAgain ==
    /\ pc = "post"
    /\ request.post < RetryAttempts
    /\ request' = [request EXCEPT !.post = @ + 1]
    /\ UNCHANGED <<rowVars, ctx, pc, decision, usage, outcome, call, threads,
                   journal, previous, budget, late, signal, answer, retrieved, given>>

\* Mutant: a repair that is no decision is repaired again.
MutRepair ==
    /\ pc = "post"
    /\ request' = [request EXCEPT !.repair = TRUE, !.post = 1]
    /\ UNCHANGED <<rowVars, ctx, pc, decision, usage, outcome, call, threads,
                   journal, previous, budget, late, signal, answer, retrieved, given>>

\* decide: a body that is no decision is asked for once more, as a repair; one
\* without choices is not (ModelRaises).
Repair ==
    /\ pc = "post"
    /\ ~request.repair
    /\ request' = [request EXCEPT !.repair = TRUE, !.post = 1]
    /\ UNCHANGED <<rowVars, ctx, pc, decision, usage, outcome, call, threads,
                   journal, previous, budget, late, signal, answer, retrieved, given>>

\* The audit row of a model call is one more insert that may fail.
Audited(reason) == {reason, "model_audit_failed"}

\* The last attempt failed, the provider refused, or the repair is no decision
\* either: ModelGatewayError.  The audit row of the failure may fail too; the
\* second decision of a step has none, and its failure is a rejection.
ModelFails ==
    /\ pc = "post"
    /\ IF request.second
       THEN Finish("fail", "decision_rejected") /\ Record(Skipped)
       ELSE /\ \E reason \in Audited("model_unavailable") : Finish("fail", reason)
            /\ Record(<<"request_decision">> \o Skipped)
    /\ UNCHANGED <<rowVars, modelVars, ctx, call, threads, previous, budget, late,
                   signal, answer, retrieved, given>>

\* The locals of execute_step go with its frame.
Forget ==
    /\ request' = NoRequest /\ decision' = NoDecision /\ usage' = Unknown
    /\ outcome' = NoOutcome /\ call' = NoCall

\* A body whose list of choices is empty raises IndexError, which neither decide
\* nor execute_step catches, at the first or the second decision: advance skips
\* the remaining stages and the failure leaves the loop.
ModelRaises ==
    /\ pc = "post"
    /\ pc' = "raised"
    /\ journal' = PIPELINE_ORDER
    /\ Forget
    /\ UNCHANGED <<rowVars, ctx, threads, previous, budget, late, signal, answer,
                   retrieved, given>>

\* _bind_compound_delivery_order: an order the loop has observed replaces the
\* tracking number.
Bind(d) ==
    IF d.args # "tracking" THEN d
    ELSE [d EXCEPT !.args = IF "order" \in ctx.tools THEN "valid" ELSE "malformed"]

\* _normalize_token_usage: a total, or nothing that can be counted.
Usage == Reported \cup {Unknown}

\* A decision arrives and its audit row is written, or the row fails.  Only the
\* first decision of a step is rebound.
ModelDecides ==
    /\ pc = "post"
    /\ \E d \in Proposals, tokens \in Usage :
           /\ decision' = IF request.second THEN d ELSE Bind(d)
           /\ usage' = tokens
    /\ \/ /\ pc' = "decided"
          /\ journal' = IF request.second THEN journal
                        ELSE Append(journal, "request_decision")
          /\ UNCHANGED outcome
       \/ /\ Finish("fail", "model_audit_failed")
          /\ Record((IF request.second THEN <<>> ELSE <<"request_decision">>)
                    \o Skipped)
    /\ UNCHANGED <<rowVars, ctx, request, call, threads, previous, budget, late,
                   signal, answer, retrieved, given>>

-------------------------------------------------------------------------------
(***************************************************************************)
(* Validation                                                              *)
(***************************************************************************)

\* The boundary's evidence is what the loop's first context held; advance adds what
\* the current one holds.
Trusted == given \cup ctx.evidence

\* DecisionValidator.validate, without its tool branch, in its order.
Refusal(d) ==
    IF d.route = "other" THEN "route"
    ELSE IF ~(d.cites \subseteq Trusted) THEN "evidence"
    ELSE IF d.args = "system" THEN "argument"
    ELSE "none"

\* The whole of validate for a decision that names a tool.
ValidCall(d) ==
    /\ Refusal(d) = "none"
    /\ d.tool \in Allowed
    /\ d.args # "malformed"

\* Mutant: the second decision is not validated.
MutValidEnd(d) ==
    /\ request.second \/ Refusal(d) = "none"
    /\ d.type \in EndTypes
    /\ d.tool = "none" /\ d.args = "none"

\* A decision that ends the step must carry no tool data; as a second decision a
\* tool call is refused, for it is validated without its specification.
ValidEnd(d) ==
    /\ Refusal(d) = "none"
    /\ d.type \in EndTypes
    /\ d.tool = "none" /\ d.args = "none"

Verdict(type) ==
    CASE type = "ask_user" -> "wait_user"
      [] type = "handoff" -> "wait_human"
      [] OTHER -> "complete"

\* A cancellation seen after the model's first answer.
Interrupted ==
    /\ pc = "decided" /\ signal /\ ~request.second
    /\ Finish("fail", "cancelled") /\ Record(Skipped)
    /\ UNCHANGED <<rowVars, modelVars, ctx, call, threads, previous, budget, late,
                   signal, answer, retrieved, given>>

Going == pc = "decided" /\ ~(signal /\ ~request.second)

\* ToolRegistry.resolve: registered, model visible, allowed in this workflow and
\* step, and its scopes granted.
Resolves(d) == d.tool \in Resolvable

\* A tool decision is resolved, must be readonly and must pass the validator.
ChooseTool ==
    /\ Going /\ decision.type = "call_tool" /\ ~request.second
    /\ IF ~Resolves(decision)
       THEN Finish("fail", "decision_rejected") /\ Record(Skipped)
       ELSE IF decision.tool \notin ReadOnly
       THEN Finish("wait_human", "readonly_write_tool_forbidden") /\ Record(Skipped)
       ELSE IF ~ValidCall(decision)
       THEN Finish("fail", "decision_rejected") /\ Record(Skipped)
       ELSE pc' = "attempt" /\ Record(<<"validate">>) /\ UNCHANGED outcome
    /\ UNCHANGED <<rowVars, modelVars, ctx, call, threads, previous, budget, late,
                   signal, answer, retrieved, given>>

\* Mutant: the first validation is journalled before the second decision.
MutAskAgain ==
    /\ Going /\ decision.type \in EndTypes /\ ~request.second
    /\ Refusal(decision) = "evidence"
    /\ request' = [repair |-> FALSE, post |-> 1, second |-> TRUE]
    /\ pc' = "post"
    /\ journal' = Append(journal, "validate")
    /\ UNCHANGED <<rowVars, ctx, decision, usage, outcome, call, threads, previous,
                   budget, late, signal, answer, retrieved, given>>

\* The one semantic retry: an answer that cites untrusted evidence is asked for
\* once more, with the same prompt.
AskAgain ==
    /\ Going /\ decision.type \in EndTypes /\ ~request.second
    /\ Refusal(decision) = "evidence"
    /\ request' = [repair |-> FALSE, post |-> 1, second |-> TRUE]
    /\ pc' = "post"
    /\ UNCHANGED <<rowVars, ctx, decision, usage, outcome, call, threads, journal,
                   previous, budget, late, signal, answer, retrieved, given>>

\* Everything else that needs no tool.
Conclude ==
    /\ Going /\ (decision.type \in EndTypes \/ request.second)
    /\ request.second \/ Refusal(decision) # "evidence"
    /\ Record(Skipped)
    /\ IF ValidEnd(decision)
       THEN Finish(Verdict(decision.type), "none")
       ELSE Finish("fail", "decision_rejected")
    /\ UNCHANGED <<rowVars, modelVars, ctx, call, threads, previous, budget, late,
                   signal, answer, retrieved, given>>

-------------------------------------------------------------------------------
(***************************************************************************)
(* ToolExecutor.execute                                                    *)
(***************************************************************************)

Error(code) == [code |-> code, data |-> {}, retryable |-> FALSE, maker |-> <<>>]
TimedOut == [Error("UPSTREAM_TIMEOUT") EXCEPT !.retryable = TRUE]

\* _valid_object, over the tool's input schema.
SchemaValid(d) == d.args \notin {"malformed", "mistyped", "tracking"}

\* ResourceAuthorizer.authorize: the resource is the actor's own.
Authorized(d) == d.tool \in Bound => d.args = "valid"

\* What execute refuses before the first attempt, in its order.  Scopes and
\* bindings were resolved already; the policy allows every registered tool.
Denied(d) ==
    IF ~SchemaValid(d) \/ d.args = "system" THEN "INVALID_ARGUMENT"
    ELSE IF late THEN "UPSTREAM_TIMEOUT"
    ELSE IF ~Authorized(d) THEN "RESOURCE_NOT_FOUND"
    ELSE "none"

\* The execution ends with a result: the step continues, whatever it is.
Return(result) ==
    /\ call' = [call EXCEPT !.result = result]
    /\ Finish("continue", "none")
    /\ Record(<<"execute", "observe">>)

\* Refused, or out of time before an attempt.
Deny ==
    /\ pc = "attempt"
    /\ \/ /\ call.attempts = 0 /\ Denied(decision) # "none"
          /\ Return(Error(Denied(decision)))
       \/ call.attempts > 0 /\ late /\ Return(Error("UPSTREAM_TIMEOUT"))
    /\ UNCHANGED <<rowVars, modelVars, ctx, threads, previous, budget, late, signal,
                   answer, retrieved, given>>

\* One attempt: a daemon thread with a queue of its own calls the adapter, unless
\* the deadline passes in between, which counts as an attempt that timed out.
Attempt ==
    /\ pc = "attempt" /\ ~late
    /\ call.attempts = 0 => Denied(decision) = "none"
    /\ call.attempts < MaxAttempts
    /\ call' = [attempts |-> call.attempts + 1, started |-> call.started + 1,
                result |-> NoResult]
    /\ threads' = threads \cup {<<ctx.steps, call.attempts + 1>>}
    /\ pc' = "wait"
    /\ UNCHANGED <<rowVars, modelVars, ctx, outcome, journal, previous, budget, late,
                   signal, answer, retrieved, given>>

NoTimeLeft ==
    /\ pc = "attempt" /\ ~late
    /\ call.attempts = 0 => Denied(decision) = "none"
    /\ call.attempts < MaxAttempts
    /\ late' = TRUE
    /\ call' = [call EXCEPT !.attempts = @ + 1, !.result = TimedOut]
    /\ pc' = "wait"
    /\ UNCHANGED <<rowVars, modelVars, ctx, outcome, threads, journal, previous,
                   budget, signal, answer, retrieved, given>>

\* execute itself raises: the store of the owners fails before the first attempt,
\* or no thread can be started for this one.  The attempts before it were made.
ExecutorRaises ==
    /\ pc = "attempt" /\ ~late
    /\ call.attempts = 0 => Denied(decision) = "none"
    /\ Finish("fail", "tool_execution_failed")
    /\ Record(<<"execute", "observe">>)
    /\ UNCHANGED <<rowVars, modelVars, ctx, call, threads, previous, budget, late, signal,
                   answer, retrieved, given>>

\* The evidence ids a result may hold: only the knowledge tool returns any.
Citable(tool) ==
    {{}} \cup (IF tool = "knowledge" THEN {{e} : e \in Evidence} ELSE {})

\* What an adapter gives back: data, an error of its own, or an exception or a
\* result of the wrong shape.
Answers(t) ==
    {r \in [code : {"ok", "RESOURCE_NOT_FOUND", "INTERNAL_ERROR"},
            data : Citable(decision.tool), retryable : BOOLEAN, maker : {t}] :
        /\ r.data # {} => r.code = "ok"
        /\ r.retryable => r.code = "RESOURCE_NOT_FOUND"}

\* Mutant: all attempts share one queue.
MutThreadReturns(t) ==
    /\ t \in threads
    /\ threads' = threads \ {t}
    /\ IF pc = "wait" /\ call.result = NoResult
       THEN \E r \in Answers(t) : call' = [call EXCEPT !.result = r]
       ELSE UNCHANGED call
    /\ UNCHANGED <<rowVars, modelVars, ctx, pc, outcome, journal, previous, budget,
                   late, signal, answer, retrieved, given>>

\* A thread comes back.  Its answer is read only from the queue of the attempt
\* that still waits; the queue of an attempt given up has no reader.
ThreadReturns(t) ==
    /\ t \in threads
    /\ threads' = threads \ {t}
    /\ IF pc = "wait" /\ t = <<ctx.steps, call.attempts>> /\ call.result = NoResult
       THEN \E r \in Answers(t) : call' = [call EXCEPT !.result = r]
       ELSE UNCHANGED call
    /\ UNCHANGED <<rowVars, modelVars, ctx, pc, outcome, journal, previous, budget,
                   late, signal, answer, retrieved, given>>

\* The wait ends with the answer, or with a timeout: nothing came, or it came
\* after timeout_ms.  A timeout and a retryable error are tried again.
Collect(result) ==
    IF result.retryable /\ call.attempts < MaxAttempts
    THEN /\ pc' = "attempt"
         /\ UNCHANGED <<outcome, journal, call>>
    ELSE Return(result)

AwaitAnswer ==
    /\ pc = "wait"
    /\ \/ call.result # NoResult /\ Collect(call.result)
       \/ Collect(TimedOut)
    /\ UNCHANGED <<rowVars, modelVars, ctx, threads, previous, budget, late, signal,
                   answer, retrieved, given>>

-------------------------------------------------------------------------------
(***************************************************************************)
(* Reduction and checkpoint                                                *)
(***************************************************************************)

\* _target_status
Target ==
    IF outcome.reason = "cancelled" THEN "cancelled"
    ELSE CASE outcome.status = "continue" -> ctx.status
           [] outcome.status = "wait_user" -> "waiting_user"
           [] outcome.status = "wait_human" -> "waiting_human"
           [] outcome.status = "complete" -> "completed"
           [] OTHER -> IF outcome.reason \in Exhausted THEN "waiting_human"
                                                      ELSE "failed"

Executed == outcome.status = "continue"
Succeeded == Executed /\ call.result.code = "ok"

\* _events_for: a call that was refused before its first attempt is no call.
EventsFor ==
    IF Executed
    THEN {"tool_observed", "step_completed"} \cup
         (IF call.attempts > 0 THEN {"tool_called"} ELSE {})
    ELSE IF outcome.status = "wait_user" THEN {"waiting_for_user"}
    ELSE IF outcome.status = "fail" THEN {"failed"}
    ELSE {"step_completed"}

\* reduce_step: data of a successful call joins what the loop has observed; a
\* result of the knowledge tool replaces the evidence ids.
Reduced ==
    [status |-> Target, version |-> ctx.version + 1, steps |-> ctx.steps + 1,
     tools |-> IF Succeeded THEN ctx.tools \cup {decision.tool} ELSE ctx.tools,
     evidence |-> IF Succeeded /\ decision.tool = "knowledge"
                  THEN call.result.data ELSE ctx.evidence,
     reason |-> outcome.reason]

\* A failed step reports no usage and is charged the conservative amount.
Charge == IF usage = Unknown \/ outcome.status = "fail" THEN Conservative ELSE usage
Spent == IF Charge >= budget THEN 0 ELSE budget - Charge

\* _decision_signature of a step that continues.
Signature ==
    IF Executed
    THEN [NoDecision EXCEPT !.type = decision.type, !.tool = decision.tool,
                            !.args = decision.args]
    ELSE NoDecision

\* commit_step compares the version; the store may fail as well.
Fresh == version = ctx.version

\* The step is persisted, and run decides whether to go on: the loop stops when
\* the run left running_readonly or the same call came twice in a row.
Checkpoint ==
    /\ pc = "reduce" /\ Fresh
    /\ status' = Target /\ version' = version + 1 /\ events' = EventsFor
    /\ ctx' = Reduced
    /\ journal' = journal \o <<"reduce", "checkpoint", "terminate">>
    /\ retrieved' = retrieved \cup Reduced.evidence
    /\ answer' = IF Target = "completed" THEN decision.cites ELSE answer
    /\ budget' = Spent
    /\ previous' = Signature
    /\ pc' = IF Target # "running_readonly" THEN "done"
             ELSE IF Signature # NoDecision /\ Signature = previous THEN "stuck"
             ELSE "step"
    /\ Forget
    /\ UNCHANGED <<threads, late, signal, given>>

CheckpointFails ==
    /\ pc \in {"reduce", "stuck"}
    /\ pc' = "raised"
    /\ journal' = PIPELINE_ORDER
    /\ Forget
    /\ UNCHANGED <<rowVars, ctx, threads, previous, budget, late, signal, answer,
                   retrieved, given>>

\* handoff: no progress.
HandOff ==
    /\ pc = "stuck" /\ Fresh
    /\ status' = "waiting_human" /\ version' = version + 1 /\ events' = {"failed"}
    /\ ctx' = [ctx EXCEPT !.status = "waiting_human", !.version = @ + 1,
                          !.steps = @ + 1, !.reason = "readonly_loop_no_progress"]
    /\ pc' = "done"
    /\ UNCHANGED <<modelVars, outcome, call, threads, journal, previous, budget,
                   late, signal, answer, retrieved, given>>

-------------------------------------------------------------------------------
(***************************************************************************)
(* Environment                                                             *)
(***************************************************************************)

\* cancel_run of the API loads a checkpoint that waits for the user and writes the
\* row at its version: under the loop's feet as long as the loop has not stored a
\* checkpoint of its own, and again once it waits for the user.  The stamp and the
\* response that follow are the subject of RunControl.
CancelRun ==
    /\ status = "waiting_user"
    /\ status' = "cancelled" /\ version' = version + 1 /\ events' = {"failed"}
    /\ UNCHANGED <<modelVars, ctx, pc, outcome, call, threads, journal, previous,
                   budget, late, signal, answer, retrieved, given>>

\* The caller's callable, which the offline runners pass, begins to say True.
Signal ==
    /\ ~signal /\ signal' = TRUE
    /\ UNCHANGED <<rowVars, modelVars, ctx, pc, outcome, call, threads, journal,
                   previous, budget, late, answer, retrieved, given>>

Elapse ==
    /\ ~late /\ late' = TRUE
    /\ UNCHANGED <<rowVars, modelVars, ctx, pc, outcome, call, threads, journal,
                   previous, budget, signal, answer, retrieved, given>>

AskModel ==
    \/ BeginStep \/ BuildFails
    \/ PostAgain \/ Repair \/ ModelFails \/ ModelRaises \/ ModelDecides

Validate == Interrupted \/ ChooseTool \/ AskAgain \/ Conclude

ExecuteTool == Deny \/ Attempt \/ NoTimeLeft \/ ExecutorRaises \/ AwaitAnswer

Commit == Checkpoint \/ CheckpointFails \/ HandOff

Loop == AskModel \/ Validate \/ ExecuteTool \/ Commit

Next ==
    \/ Loop
    \/ \E t \in threads : ThreadReturns(t)
    \/ CancelRun
    \/ Signal
    \/ Elapse

Spec == Init /\ [][Next]_vars

\* The worker thread keeps running; adapters need not come back, and time need
\* not pass as far as the loop is concerned.
FairSpec == Spec /\ WF_vars(Loop)

-------------------------------------------------------------------------------
(***************************************************************************)
(* Properties                                                              *)
(***************************************************************************)

\* Whichever path a step takes, it records the eight stages in their fixed order
\* (PipelineJournal raises otherwise, and the run would fail): the paths with a
\* second decision, a failed audit or a refused call included.
JournalInOrder ==
    /\ IsPrefix(journal, PIPELINE_ORDER)
    /\ pc = "reduce" => Len(journal) = 5
    /\ pc \in {"step", "done"} => Len(journal) \in {0, Len(PIPELINE_ORDER)}

\* An answer that ends the run cites only evidence that a knowledge call of this
\* run returned and a checkpoint recorded.
CitesOnlyRetrieved == answer \subseteq retrieved

\* A timed-out attempt goes on in its thread; what it returns in the end is never
\* taken for the answer of the attempt that replaced it.
AnswerOfItsAttempt ==
    call.result.maker # <<>> => call.result.maker = <<ctx.steps, call.attempts>>

\* A step whose adapter was called is checkpointed with the event that says so,
\* whatever became of the call, or it is the last one: when an attempt reached the
\* adapter and the executor then raised, the execution object is lost with its
\* count of attempts, and the run fails with that reason.
CallsArePublished ==
    [][ctx'.steps # ctx.steps /\ pc = "reduce" /\ call.started > 0
          => \/ "tool_called" \in events'
             \/ status' = "failed" /\ ctx'.reason = "tool_execution_failed"]_vars

\* Once started the loop comes to an end: the run pauses or ends, or the failure
\* is raised to the executor, however often the provider or a tool times out.
LoopEnds == <>(pc \in {"done", "raised"})
===============================================================================
