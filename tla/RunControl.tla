------------------------------ MODULE RunControl ------------------------------
(***************************************************************************)
(* The life of the runs of one conversation: the message that creates a    *)
(* run or answers one, the single background worker that routes and        *)
(* executes it, the requests that retry, cancel, review and resolve it,    *)
(* and the startup hook that picks up what a dead process left behind.     *)
(*                                                                         *)
(* The atomic steps are the PostgreSQL transactions.  Handlers run in      *)
(* FastAPI's thread pool and interleave with each other and with the       *)
(* worker; run_executor has one thread, so jobs are executed one at a time *)
(* in the order they were submitted.                                       *)
(*                                                                         *)
(* A run is named after the request that creates it.  What the classifier, *)
(* the model, the tools and the business system answer is a free choice.   *)
(* A request refused by its first read changes nothing and is not started. *)
(* The confirmation of a prepared mutation is the subject of               *)
(* MutationCommit; here a run waiting for it is only cancelled.            *)
(***************************************************************************)
EXTENDS Naturals, Sequences

CONSTANTS
    Requests,    \* HTTP requests of the conversation's actor, each served once
    Kinds,       \* the endpoints called: subset of Endpoints
    Keys,        \* client_message_id values
    Texts,       \* message contents
    Unsafe,      \* contents SafetyRouter hands to a human
    Routes,      \* router outcomes explored: subset of RouteOutcome
    StepLimit,   \* step budget of a run, and the largest step_count a
                 \* RunContext accepts (both 6 in the code)
    MaxFaults,   \* bound: exceptions raised in the worker by its environment
    MaxCrashes   \* bound: process crashes explored

Endpoints == {"send", "retry", "cancel", "resolve", "review"}
RouteOutcome == {"handoff", "ask_user", "chat", "readonly", "workflow"}

ASSUME KindsKnown == Kinds \subseteq Endpoints
ASSUME RoutesKnown == Routes \subseteq RouteOutcome
ASSUME UnsafeIsText == Unsafe \subseteq Texts
ASSUME LimitPositive == StepLimit \in Nat \ {0}
ASSUME BoundsAreNat == MaxFaults \in Nat /\ MaxCrashes \in Nat
ASSUME NoneIsNoValue == "none" \notin Requests \cup Keys \cup Texts

VARIABLES
    status,      \* agent_runs.status
    mode,        \* agent_runs.execution_mode
    version,     \* agent_runs.row_version
    checkpoint,  \* the RunContext in the newest run_checkpoints row
    messages,    \* the user messages of the conversation, oldest first
    open,        \* open handoff tickets of each run
    record,      \* the idempotency record of a low-risk write
    effects,     \* what the business system has done for each run
    reply,       \* status announced by the terminal assistant message
    queue,       \* jobs submitted to run_executor
    job,         \* the job its thread executes
    pc,          \* the next step of each request
    ask,         \* what each request asks for, and the context it loaded
    abandoned,   \* runs whose failure could not be recorded either
    faults,
    crashes

runVars == <<status, mode, version, checkpoint>>
sideVars == <<open, record, effects>>
workerVars == <<queue, job, abandoned, faults>>
requestVars == <<pc, ask>>
vars == <<status, mode, version, checkpoint, messages, open, record, effects,
          reply, queue, job, pc, ask, abandoned, faults, crashes>>

Runs == Requests
Terminal == {"completed", "failed", "cancelled", "expired"}
Waiting == {"waiting_user", "waiting_confirmation", "waiting_human"}
Executing == {"created", "running_readonly", "running_workflow"}
RunStatus == Terminal \cup Waiting \cup Executing

\* The fields of RunContext the executor and the handlers read back.  `flow' is
\* execution_mode and workflow_id, which are set together; `reason' tells
\* whether the state carries a last_step_reason.
Context == [status : RunStatus, version : Nat, steps : Nat,
            flow : {"none", "readonly", "workflow"}, reason : {"none", "stop"}]

\* A run without a checkpoint is executed from a context in status created.
NoCheckpoint == [status |-> "created", version |-> 0, steps |-> 0,
                 flow |-> "none", reason |-> "none"]

\* recover_active_runs stands in a content of its own for an empty history.
Contents == Texts \cup {"none"}
Message == [key : Keys, run : Runs, text : Contents]
QueuedJob == [run : Runs, text : Contents]

JobPoint == {"route", "handoff", "park", "ask", "chat", "loop", "again",
             "no_progress", "workflow", "claim", "call", "observe", "ticket",
             "repark", "reason", "prompt", "publish", "stamp", "failing",
             "apology", "last"}
Job == [run : Runs, text : Contents, at : JobPoint, ctx : Context]
NoJob == [run |-> "none", text |-> "none", at |-> "idle", ctx |-> NoCheckpoint]

Serving == {"active", "answer", "create", "append", "release", "submit",
            "withdraw", "reason", "decide", "settle", "review", "publish", "stamp"}
Ask == [kind : Endpoints, key : Keys \cup {"none"}, text : Contents,
        run : Runs \cup {"none"}, goal : Terminal \cup {"none"}, ctx : Context]
NoAsk == [kind |-> "none", key |-> "none", text |-> "none", run |-> "none",
          goal |-> "none", ctx |-> NoCheckpoint]

TypeOK ==
    /\ status \in [Runs -> RunStatus \cup {"absent"}]
    /\ mode \in [Runs -> {"none", "readonly", "workflow"}]
    /\ version \in [Runs -> Nat]
    /\ checkpoint \in [Runs -> Context]
    /\ messages \in Seq(Message)
    /\ open \in [Runs -> Nat]
    /\ record \in [Runs -> {"none", "in_progress", "succeeded", "failed", "unknown"}]
    /\ effects \in [Runs -> Nat]
    /\ reply \in [Runs -> Terminal \cup {"none"}]
    /\ queue \in Seq(QueuedJob)
    /\ job \in Job \cup {NoJob}
    /\ pc \in [Requests -> Serving \cup {"idle", "over"}]
    /\ ask \in [Requests -> Ask \cup {NoAsk}]
    /\ abandoned \subseteq Runs
    /\ faults \in 0 .. MaxFaults
    /\ crashes \in 0 .. MaxCrashes

Init ==
    /\ status = [run \in Runs |-> "absent"]
    /\ mode = [run \in Runs |-> "none"]
    /\ version = [run \in Runs |-> 0]
    /\ checkpoint = [run \in Runs |-> NoCheckpoint]
    /\ messages = <<>>
    /\ open = [run \in Runs |-> 0]
    /\ record = [run \in Runs |-> "none"]
    /\ effects = [run \in Runs |-> 0]
    /\ reply = [run \in Runs |-> "none"]
    /\ queue = <<>>
    /\ job = NoJob
    /\ pc = [q \in Requests |-> "idle"]
    /\ ask = [q \in Requests |-> NoAsk]
    /\ abandoned = {}
    /\ faults = 0
    /\ crashes = 0

-------------------------------------------------------------------------------
(***************************************************************************)
(* Shared transactions                                                     *)
(***************************************************************************)

Active(run) == status[run] \in Executing \cup Waiting

\* The checkpoint cannot be rebuilt as a RunContext.
Overrun(run) == checkpoint[run].steps > StepLimit

\* _checkpoint_context answers 409 or 500.
Unreadable(run) == checkpoint[run] = NoCheckpoint \/ Overrun(run)

MutFresh(run, loaded) == TRUE

\* commit_step compares row_version with the version the context was loaded at.
Fresh(run, loaded) == version[run] = loaded

\* uq_agent_runs_active_conversation: one run that has not ended.
Admissible(run, next) ==
    next \in Terminal \/ \A other \in Runs \ {run} : ~Active(other)

Committable(run, ctx, next) == Fresh(run, ctx.version) /\ Admissible(run, next)

\* The context a checkpoint stores: the caller's, one step and one version on.
Advanced(ctx, next, reason) ==
    [status |-> next, version |-> ctx.version + 1, steps |-> ctx.steps + 1,
     flow |-> ctx.flow, reason |-> reason]

CommitStep(run, ctx) ==
    /\ status' = [status EXCEPT ![run] = ctx.status]
    /\ version' = [version EXCEPT ![run] = @ + 1]
    /\ checkpoint' = [checkpoint EXCEPT ![run] = ctx]
    /\ UNCHANGED mode

\* set_terminal_reason bumps row_version whatever the status of the run.
BumpVersion(run) ==
    /\ version' = [version EXCEPT ![run] = @ + 1]
    /\ UNCHANGED <<status, mode, checkpoint>>

\* append_assistant_once_for_run keeps the first terminal message of a run.
Announce(run, outcome) ==
    reply' = [reply EXCEPT ![run] = IF @ = "none" THEN outcome ELSE @]

OpenTicket(run) == open' = [open EXCEPT ![run] = @ + 1]

-------------------------------------------------------------------------------
(***************************************************************************)
(* Requests: messages                                                      *)
(***************************************************************************)

\* The request goes on with what it knows; nothing is kept of one that is over.
Proceed(q, request, step) ==
    /\ pc' = [pc EXCEPT ![q] = step]
    /\ ask' = [ask EXCEPT ![q] = IF step = "over" THEN NoAsk ELSE request]

Goto(q, step) == Proceed(q, ask[q], step)

Start(q, request, step) ==
    /\ pc[q] = "idle"
    /\ request.kind \in Kinds
    /\ Proceed(q, request, step)

WithKey(key) == {i \in DOMAIN messages : messages[i].key = key}
OfRun(run) == {i \in DOMAIN messages : messages[i].run = run}

\* send_message answers a known client_message_id with the run it belongs to.
Send(q, key, text) ==
    /\ Start(q, [NoAsk EXCEPT !.kind = "send", !.key = key, !.text = text],
             IF WithKey(key) = {} THEN "active" ELSE "over")
    /\ UNCHANGED <<runVars, messages, sideVars, reply, workerVars, crashes>>

\* The message is an answer when the active run waits for its user.
FindActive(q) ==
    /\ pc[q] = "active"
    /\ \/ \E run \in Runs :
              /\ status[run] = "waiting_user"
              /\ Proceed(q, [ask[q] EXCEPT !.run = run], "answer")
       \/ /\ \A run \in Runs : status[run] # "waiting_user"
          /\ Goto(q, "create")
    /\ UNCHANGED <<runVars, messages, sideVars, reply, workerVars, crashes>>

\* append_user: a known key returns the stored message when the content is the
\* same and raises MessageConflictError otherwise.
AppendUser(q, known, conflicting) ==
    LET same == {i \in WithKey(ask[q].key) : messages[i].text = ask[q].text} IN
    IF WithKey(ask[q].key) = {}
    THEN /\ messages' = Append(messages, [key |-> ask[q].key, run |-> ask[q].run,
                                          text |-> ask[q].text])
         /\ Goto(q, "submit")
    ELSE /\ UNCHANGED messages
         /\ Goto(q, IF same # {} THEN known ELSE conflicting)

\* An answer is submitted even when the message was stored by another request.
AppendAnswer(q) ==
    /\ pc[q] = "answer"
    /\ AppendUser(q, "submit", "over")
    /\ UNCHANGED <<runVars, sideVars, reply, workerVars, crashes>>

\* create_run, for a message or for the child of a retried run.
CreateRun(q) ==
    /\ pc[q] = "create"
    /\ IF Admissible(q, "created")
       THEN /\ status' = [status EXCEPT ![q] = "created"]
            /\ Proceed(q, [ask[q] EXCEPT !.run = q], "append")
       ELSE Goto(q, "over") /\ UNCHANGED status
    /\ UNCHANGED <<mode, version, checkpoint, messages, sideVars, reply,
                   workerVars, crashes>>

\* send_message returns the other request's run when the key is taken; retry_run
\* does not look at what append_user returned.
AppendFirst(q) ==
    /\ pc[q] = "append"
    /\ AppendUser(q, IF ask[q].kind = "send" THEN "over" ELSE "submit", "release")
    /\ UNCHANGED <<runVars, sideVars, reply, workerVars, crashes>>

\* cancel_unstarted_run
ReleaseRun(q) ==
    /\ pc[q] = "release"
    /\ status' = [status EXCEPT ![q] = IF @ = "created" THEN "cancelled" ELSE @]
    /\ Goto(q, "over")
    /\ UNCHANGED <<mode, version, checkpoint, messages, sideVars, reply,
                   workerVars, crashes>>

Submit(q) ==
    /\ pc[q] = "submit"
    /\ queue' = Append(queue, [run |-> ask[q].run, text |-> ask[q].text])
    /\ Goto(q, "over")
    /\ UNCHANGED <<runVars, messages, sideVars, reply, job, abandoned, faults,
                   crashes>>

\* retry_run repeats the latest message of a failed or expired run.
Retry(q, run, key) ==
    /\ status[run] \in {"failed", "expired"}
    /\ \E i \in OfRun(run) :
           /\ \A j \in OfRun(run) : j <= i
           /\ Start(q, [NoAsk EXCEPT !.kind = "retry", !.key = key,
                                     !.text = messages[i].text], "create")
    /\ UNCHANGED <<runVars, messages, sideVars, reply, workerVars, crashes>>

-------------------------------------------------------------------------------
(***************************************************************************)
(* Requests: cancel, review, resolve                                       *)
(***************************************************************************)

LoadContext(q, kind, run, goal, step) ==
    /\ ~Unreadable(run)
    /\ Start(q, [NoAsk EXCEPT !.kind = kind, !.run = run, !.goal = goal,
                              !.ctx = checkpoint[run]], step)
    /\ UNCHANGED <<runVars, messages, sideVars, reply, workerVars, crashes>>

Cancel(q, run) ==
    /\ checkpoint[run].status \in {"waiting_confirmation", "waiting_user"}
    /\ LoadContext(q, "cancel", run, "cancelled", "withdraw")

Resolve(q, run, goal) ==
    /\ open[run] > 0
    /\ checkpoint[run].status = "waiting_human"
    /\ LoadContext(q, "resolve", run, goal, "decide")

\* The checkpoint of cancel_run and of resolve_handoff; a conflict is a 500.
EndRun(q, step, next) ==
    LET run == ask[q].run IN
    /\ pc[q] = step
    /\ IF Committable(run, ask[q].ctx, ask[q].goal)
       THEN /\ CommitStep(run, Advanced(ask[q].ctx, ask[q].goal, ask[q].ctx.reason))
            /\ Goto(q, next)
       ELSE Goto(q, "over") /\ UNCHANGED runVars
    /\ UNCHANGED <<messages, sideVars, reply, workerVars, crashes>>

Withdraw(q) == EndRun(q, "withdraw", "reason")
Decide(q) == EndRun(q, "decide", "settle")

\* cancel_run stamps CANCELLED_BY_USER before it publishes.
StampCancel(q) ==
    /\ pc[q] = "reason"
    /\ BumpVersion(ask[q].run)
    /\ Goto(q, "publish")
    /\ UNCHANGED <<messages, sideVars, reply, workerVars, crashes>>

SettleTicket(q) ==
    LET run == ask[q].run IN
    /\ pc[q] = "settle"
    /\ IF open[run] > 0
       THEN open' = [open EXCEPT ![run] = @ - 1] /\ Goto(q, "publish")
       ELSE Goto(q, "over") /\ UNCHANGED open
    /\ UNCHANGED <<runVars, messages, record, effects, reply, workerVars, crashes>>

\* publish_terminal_response: the message first, then the reason if there is one.
PublishEnd(q) ==
    /\ pc[q] = "publish"
    /\ Announce(ask[q].run, ask[q].goal)
    /\ Goto(q, IF ask[q].goal = "completed" /\ ask[q].ctx.reason = "none"
               THEN "over" ELSE "stamp")
    /\ UNCHANGED <<runVars, messages, sideVars, workerVars, crashes>>

StampEnd(q) ==
    /\ pc[q] = "stamp"
    /\ BumpVersion(ask[q].run)
    /\ Goto(q, "over")
    /\ UNCHANGED <<messages, sideVars, reply, workerVars, crashes>>

\* get_human_review finds a waiting run without a ticket ...
Review(q, run) ==
    /\ status[run] = "waiting_human"
    /\ open[run] = 0
    /\ Start(q, [NoAsk EXCEPT !.kind = "review", !.run = run], "review")
    /\ UNCHANGED <<runVars, messages, sideVars, reply, workerVars, crashes>>

\* ... and get_or_create_open_for_run opens one, whatever the run is by then.
OpenReview(q) ==
    /\ pc[q] = "review"
    /\ IF open[ask[q].run] = 0 THEN OpenTicket(ask[q].run) ELSE UNCHANGED open
    /\ Goto(q, "over")
    /\ UNCHANGED <<runVars, messages, record, effects, reply, workerVars, crashes>>

-------------------------------------------------------------------------------
(***************************************************************************)
(* The worker: routing                                                     *)
(***************************************************************************)

At(point) == job.at = point
Move(point) == job' = [job EXCEPT !.at = point]

\* The job advances to `point' with its checkpoint, or raises.
Checkpoint(next, reason, point) ==
    LET ctx == Advanced(job.ctx, next, reason) IN
    IF Committable(job.run, job.ctx, next)
    THEN CommitStep(job.run, ctx) /\ job' = [job EXCEPT !.ctx = ctx, !.at = point]
    ELSE Move("failing") /\ UNCHANGED runVars

\* A run that waited for its user goes on in RUNNING_WORKFLOW.
Resumed(ctx) ==
    IF ctx.status = "waiting_user" THEN [ctx EXCEPT !.status = "running_workflow"] ELSE ctx

TakeJob ==
    /\ job = NoJob
    /\ queue # <<>>
    /\ LET item == Head(queue) IN
       job' = [run |-> item.run, text |-> item.text,
               at |-> IF Overrun(item.run) THEN "failing" ELSE "route",
               ctx |-> Resumed(checkpoint[item.run])]
    /\ queue' = Tail(queue)
    /\ UNCHANGED <<runVars, messages, sideVars, reply, requestVars, abandoned,
                   faults, crashes>>

Continues == job.ctx.status \in {"running_readonly", "running_workflow"}
             /\ job.ctx.flow # "none"

\* The first decision: a handoff is not recorded with select_route.
RouteUnsafe ==
    /\ At("route")
    /\ job.text \in Unsafe
    /\ Move("handoff")
    /\ UNCHANGED <<runVars, messages, sideVars, reply, queue, requestVars,
                   abandoned, faults, crashes>>

MutRouteContinuation ==
    /\ At("route")
    /\ job.text \notin Unsafe
    /\ Continues
    /\ Move(IF job.ctx.status = "running_readonly" THEN "loop" ELSE "workflow")
    /\ UNCHANGED <<runVars, messages, sideVars, reply, queue, requestVars,
                   abandoned, faults, crashes>>

\* A run that is resumed keeps its executor.
RouteContinuation ==
    /\ At("route")
    /\ job.text \notin Unsafe
    /\ Continues
    /\ Move(IF job.ctx.flow = "readonly" THEN "loop" ELSE "workflow")
    /\ UNCHANGED <<runVars, messages, sideVars, reply, queue, requestVars,
                   abandoned, faults, crashes>>

MutCanSelect(run) == TRUE

\* select_route: the executor of a run is chosen once.
CanSelect(run) == status[run] \in {"created", "routing"} /\ mode[run] = "none"

RoutedStatus == [handoff |-> "waiting_human", ask_user |-> "waiting_user",
                 chat |-> "running_readonly", readonly |-> "running_readonly",
                 workflow |-> "running_workflow"]
RoutedFlow == [handoff |-> "none", ask_user |-> "none", chat |-> "readonly",
               readonly |-> "readonly", workflow |-> "workflow"]
RoutedPoint == [handoff |-> "handoff", ask_user |-> "ask", chat |-> "chat",
                readonly |-> "loop", workflow |-> "workflow"]

\* A classifier that is unavailable is routed as a handoff.
RouteClassified(route) ==
    LET run == job.run
        flow == RoutedFlow[route] IN
    /\ At("route")
    /\ job.text \notin Unsafe
    /\ ~Continues
    /\ IF CanSelect(run)
       THEN /\ status' = [status EXCEPT ![run] = RoutedStatus[route]]
            /\ mode' = [mode EXCEPT ![run] = flow]
            /\ job' = [job EXCEPT !.at = RoutedPoint[route],
                          !.ctx.flow = IF flow = "none" THEN @ ELSE flow]
       ELSE Move("failing") /\ UNCHANGED <<status, mode>>
    /\ UNCHANGED <<version, checkpoint, messages, sideVars, reply, queue,
                   requestVars, abandoned, faults, crashes>>

-------------------------------------------------------------------------------
(***************************************************************************)
(* The worker: handoff, clarification, small talk, readonly loop           *)
(***************************************************************************)

\* HandoffRepository.create, for a routed handoff and for an unknown outcome.
CreateTicket ==
    /\ job.at \in {"handoff", "ticket"}
    /\ OpenTicket(job.run)
    /\ Move(IF At("handoff") THEN "park" ELSE "repark")
    /\ UNCHANGED <<runVars, messages, record, effects, reply, queue, requestVars,
                   abandoned, faults, crashes>>

CheckpointAt(point, next, reason, after) ==
    /\ At(point)
    /\ Checkpoint(next, reason, after)
    /\ UNCHANGED <<messages, sideVars, reply, queue, requestVars, abandoned,
                   faults, crashes>>

Park == CheckpointAt("park", "waiting_human", job.ctx.reason, "prompt")
AskUser == CheckpointAt("ask", "waiting_user", job.ctx.reason, "prompt")
Converse == CheckpointAt("chat", "completed", job.ctx.reason, "publish")

WithinBudget == job.ctx.steps < StepLimit

LoopPoint == {"loop", "again"}

\* One turn of the readonly loop that is followed by another.
LoopContinues(point) ==
    /\ point \in LoopPoint
    /\ WithinBudget
    /\ CheckpointAt(point, "running_readonly", "none", "again")

\* The same decision twice in a row: the turn is stored, then the stop.
LoopRepeats ==
    /\ WithinBudget
    /\ CheckpointAt("again", "running_readonly", "none", "no_progress")

NoProgress == CheckpointAt("no_progress", "waiting_human", "stop", "reason")

\* The model asks the user, asks for a human, or answers.
LoopDecides(point, next) ==
    /\ point \in LoopPoint
    /\ next \in {"waiting_user", "waiting_human", "completed"}
    /\ WithinBudget
    /\ CheckpointAt(point, next, "none",
                    IF next = "completed" THEN "publish" ELSE "prompt")

\* A rejected decision or failed tool; an exhausted step, token or time budget.
LoopStops(point, next) ==
    /\ point \in LoopPoint
    /\ next = "waiting_human" \/ (next = "failed" /\ WithinBudget)
    /\ CheckpointAt(point, next, "stop", "reason")

\* set_terminal_reason after the loop, also for a run that only waits.
StampReason ==
    /\ At("reason")
    /\ BumpVersion(job.run)
    /\ Move(IF job.ctx.status \in Terminal THEN "publish" ELSE "prompt")
    /\ UNCHANGED <<messages, sideVars, reply, queue, requestVars, abandoned,
                   faults, crashes>>

-------------------------------------------------------------------------------
(***************************************************************************)
(* The worker: workflows                                                   *)
(***************************************************************************)

Prepare == CheckpointAt("workflow", "waiting_confirmation", job.ctx.reason, "prompt")

\* A MutationWorkflowError: a denial opens a ticket, a missing slot does not;
\* the handler then reads handoff_id, which no branch taken has bound.
WorkflowRefuses(denied) ==
    /\ At("workflow")
    /\ IF denied THEN OpenTicket(job.run) ELSE UNCHANGED open
    /\ Move("failing")
    /\ UNCHANGED <<runVars, messages, record, effects, reply, queue, requestVars,
                   abandoned, faults, crashes>>

BeginLowRisk ==
    /\ At("workflow")
    /\ Move("claim")
    /\ UNCHANGED <<runVars, messages, sideVars, reply, queue, requestVars,
                   abandoned, faults, crashes>>

MutClaimRecord ==
    /\ At("claim")
    /\ Move("call")
    /\ UNCHANGED <<runVars, messages, sideVars, reply, queue, requestVars,
                   abandoned, faults, crashes>>

\* reserve and claim: the record is in_progress before the system is called.
\* One left in progress counts as unknown, and the checkpoint of its ticket is
\* then the first of the step; select_route keeps a run with a finished one from
\* coming here.
ClaimRecord ==
    /\ At("claim")
    /\ IF record[job.run] = "none"
       THEN record' = [record EXCEPT ![job.run] = "in_progress"] /\ Move("call")
       ELSE UNCHANGED record /\ job' = [job EXCEPT !.at = "ticket", !.ctx.steps = @ + 1]
    /\ UNCHANGED <<runVars, messages, open, effects, reply, queue, requestVars,
                   abandoned, faults, crashes>>

\* The business system acts or does not; an exception leaves it unknown.
CallSystem(acts) ==
    /\ At("call")
    /\ effects' = [effects EXCEPT ![job.run] = IF acts THEN @ + 1 ELSE @]
    /\ Move("observe")
    /\ UNCHANGED <<runVars, messages, open, record, reply, queue, requestVars,
                   abandoned, faults, crashes>>

LowRiskStatus == [succeeded |-> "completed", failed |-> "failed",
                  unknown |-> "waiting_human"]

\* checkpoint_mutation stores the outcome of the record with the checkpoint.
ObserveOutcome(outcome) ==
    LET next == LowRiskStatus[outcome] IN
    /\ At("observe")
    /\ outcome = "succeeded" => effects[job.run] > 0
    /\ outcome = "failed" => effects[job.run] = 0
    /\ Checkpoint(next, job.ctx.reason,
                  IF outcome = "unknown" THEN "ticket" ELSE "publish")
    /\ record' = IF Committable(job.run, job.ctx, next)
                 THEN [record EXCEPT ![job.run] = outcome] ELSE record
    /\ UNCHANGED <<messages, open, effects, reply, queue, requestVars, abandoned,
                   faults, crashes>>

\* The second checkpoint of an unknown outcome, counted as the same step.
ParkUnknown ==
    /\ At("repark")
    /\ IF Committable(job.run, job.ctx, "waiting_human")
       THEN LET ctx == [Advanced(job.ctx, "waiting_human", job.ctx.reason)
                           EXCEPT !.steps = job.ctx.steps] IN
            CommitStep(job.run, ctx) /\ job' = [job EXCEPT !.ctx = ctx, !.at = "prompt"]
       ELSE Move("failing") /\ UNCHANGED runVars
    /\ UNCHANGED <<messages, sideVars, reply, queue, requestVars, abandoned,
                   faults, crashes>>

-------------------------------------------------------------------------------
(***************************************************************************)
(* The worker: responses and failures                                      *)
(***************************************************************************)

\* A prompt of a waiting run is not its terminal response.
PublishPrompt ==
    /\ At("prompt")
    /\ job' = NoJob
    /\ UNCHANGED <<runVars, messages, sideVars, reply, queue, requestVars,
                   abandoned, faults, crashes>>

PublishResponse ==
    /\ At("publish")
    /\ Announce(job.run, job.ctx.status)
    /\ job' = IF job.ctx.reason = "none" THEN NoJob ELSE [job EXCEPT !.at = "stamp"]
    /\ UNCHANGED <<runVars, messages, sideVars, queue, requestVars, abandoned,
                   faults, crashes>>

\* _mark_failed: no version is compared, only runs that have ended are spared.
MarkFailed ==
    /\ At("failing")
    /\ IF status[job.run] \in Terminal
       THEN UNCHANGED <<status, version>>
       ELSE /\ status' = [status EXCEPT ![job.run] = "failed"]
            /\ version' = [version EXCEPT ![job.run] = @ + 1]
    /\ Move("apology")
    /\ UNCHANGED <<mode, checkpoint, messages, sideVars, reply, queue,
                   requestVars, abandoned, faults, crashes>>

PublishFailure ==
    /\ At("apology")
    /\ Announce(job.run, "failed")
    /\ Move("last")
    /\ UNCHANGED <<runVars, messages, sideVars, queue, requestVars, abandoned,
                   faults, crashes>>

StampResponse ==
    /\ job.at \in {"stamp", "last"}
    /\ BumpVersion(job.run)
    /\ job' = NoJob
    /\ UNCHANGED <<messages, sideVars, reply, queue, requestVars, abandoned,
                   faults, crashes>>

\* A transaction of the worker raises.  _mark_failed is tried again by the
\* handlers around it, so a run is left as it is only when they fail too; the
\* response of _mark_failed is given up silently.  An exception of the business
\* system is an unknown outcome, not a fault.
WorkerRaises ==
    /\ faults < MaxFaults
    /\ faults' = faults + 1
    /\ job.at \notin {"idle", "call"}
    /\ job' = IF job.at \in {"failing", "apology", "last"} THEN NoJob
              ELSE [job EXCEPT !.at = "failing"]
    /\ abandoned' = IF At("failing") THEN abandoned \cup {job.run} ELSE abandoned
    /\ UNCHANGED <<runVars, messages, sideVars, reply, queue, requestVars, crashes>>

-------------------------------------------------------------------------------
(***************************************************************************)
(* Crash and startup                                                       *)
(***************************************************************************)

MutRecoverable == {run \in Runs : status[run] \in {"created", "running_workflow"}}

Recoverable == {run \in Runs : status[run] \in Executing}

\* recover_active_runs: runs past their deadline expire, ended runs without a
\* response get one, the others are executed again with the newest message of
\* the conversation.  The index admits one such run.
Restart(late) ==
    LET ended == [run \in Runs |-> IF run \in late THEN "expired" ELSE status[run]]
        silent == {run \in Runs : /\ ended[run] \in Terminal
                                  /\ reply[run] = "none"
                                  /\ ~Overrun(run)}
        text == IF messages = <<>> THEN "none" ELSE messages[Len(messages)].text
        left == Recoverable \ late IN
    /\ crashes < MaxCrashes
    /\ crashes' = crashes + 1
    /\ late \subseteq Recoverable
    /\ status' = ended
    /\ version' = [run \in Runs |->
           version[run] + (IF run \in late THEN 1 ELSE 0)
             + (IF run \in silent /\ checkpoint[run].reason = "stop" THEN 1 ELSE 0)]
    /\ reply' = [run \in Runs |-> IF run \in silent THEN ended[run] ELSE reply[run]]
    /\ queue' = IF left = {} THEN <<>>
                ELSE <<[run |-> CHOOSE run \in left : TRUE, text |-> text]>>
    /\ job' = NoJob
    /\ pc' = [q \in Requests |-> IF pc[q] \in Serving THEN "over" ELSE pc[q]]
    /\ ask' = [q \in Requests |-> NoAsk]
    /\ UNCHANGED <<mode, checkpoint, messages, sideVars, abandoned, faults>>

-------------------------------------------------------------------------------
RequestArrives(q) ==
    \/ \E key \in Keys, text \in Texts : Send(q, key, text)
    \/ \E run \in Runs, key \in Keys : Retry(q, run, key)
    \/ \E run \in Runs : Cancel(q, run)
    \/ \E run \in Runs, goal \in {"completed", "failed"} : Resolve(q, run, goal)
    \/ \E run \in Runs : Review(q, run)

RequestStep(q) ==
    \/ FindActive(q) \/ AppendAnswer(q) \/ CreateRun(q) \/ AppendFirst(q)
    \/ ReleaseRun(q) \/ Submit(q)
    \/ Withdraw(q) \/ Decide(q) \/ StampCancel(q) \/ SettleTicket(q)
    \/ OpenReview(q) \/ PublishEnd(q) \/ StampEnd(q)

WorkerStep ==
    \/ TakeJob \/ RouteUnsafe \/ RouteContinuation
    \/ \E route \in Routes : RouteClassified(route)
    \/ CreateTicket \/ Park \/ AskUser \/ Converse
    \/ \E point \in LoopPoint :
           \/ LoopContinues(point)
           \/ \E next \in RunStatus : LoopDecides(point, next) \/ LoopStops(point, next)
    \/ LoopRepeats \/ NoProgress \/ StampReason
    \/ Prepare \/ BeginLowRisk \/ ClaimRecord \/ ParkUnknown
    \/ \E denied \in BOOLEAN : WorkflowRefuses(denied)
    \/ \E acts \in BOOLEAN : CallSystem(acts)
    \/ \E outcome \in DOMAIN LowRiskStatus : ObserveOutcome(outcome)
    \/ PublishPrompt \/ PublishResponse
    \/ MarkFailed \/ PublishFailure \/ StampResponse

Next ==
    \/ \E q \in Requests : RequestArrives(q) \/ RequestStep(q)
    \/ WorkerStep
    \/ WorkerRaises
    \/ \E late \in SUBSET Runs : Restart(late)

\* Handlers and the executor's thread are scheduled by the operating system.
Fairness == WF_vars(WorkerStep) /\ \A q \in Requests : WF_vars(RequestStep(q))

Spec == Init /\ [][Next]_vars /\ Fairness

-------------------------------------------------------------------------------
(***************************************************************************)
(* Properties                                                              *)
(***************************************************************************)

\* Whoever still has to act for a run: the request that attaches or submits it,
\* the queue, or the worker.
Owned(run) ==
    \/ job.run = run
    \/ \E i \in DOMAIN queue : queue[i].run = run
    \/ \E q \in Requests : ask[q].run = run /\ pc[q] \in {"append", "release", "submit"}

\* send_message, recover_active_runs: a run that carries a user message and has
\* neither ended nor paused is queued, being executed or about to be submitted,
\* through every crash; only a failure that _mark_failed could not record
\* leaves it behind.
AcceptedIsOwned ==
    \A run \in Runs :
        status[run] \in Executing /\ OfRun(run) # {} => Owned(run) \/ run \in abandoned

\* select_route: whatever the answers, restarts and repeated jobs, the worker
\* executes a run only with the executor the row has locked.
ExecutesLockedMode ==
    /\ job.at \in LoopPoint \cup {"chat", "no_progress"} => mode[job.run] = "readonly"
    /\ job.at \in {"workflow", "claim", "call", "observe", "ticket", "repark"} =>
           mode[job.run] = "workflow"

\* select_route: no later job, answer or restart replaces the executor.
RoutedOnce ==
    [][\A run \in Runs : mode[run] # "none" => mode'[run] = mode[run]]_vars

\* execute_low_risk: the business system is asked at most once for a run, and
\* behind a record that says so, whatever happens to the job in between.
EffectBehindRecord ==
    \A run \in Runs :
        /\ effects[run] <= 1
        /\ effects[run] = 1 => record[run] \in {"in_progress", "succeeded", "unknown"}

\* commit_step, _mark_failed, recover_active_runs: a run that has ended is not
\* executed again.  The one way back is the checkpoint of a safety handoff for
\* an answer that was still queued when the run ended.
EndedStaysEnded ==
    [][\A run \in Runs :
           status[run] \in Terminal /\ status'[run] # status[run] =>
               /\ status'[run] = "waiting_human"
               /\ job.run = run /\ At("park") /\ job.text \in Unsafe]_vars

\* execute_message_run, recover_active_runs: a run with a user message ends or
\* pauses, unless its failure could not be recorded either.
AcceptedSettles ==
    \A run \in Runs :
        (status[run] \in Executing /\ OfRun(run) # {}) ~>
            (status[run] \notin Executing \/ run \in abandoned)
===============================================================================
