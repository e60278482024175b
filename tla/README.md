# A TLA+ verification project for CommerceAgent

CommerceAgent is a customer-service agent for a shop. A user's message becomes
a *run*: it is routed, answered by a read-only agent loop, or turned into a
*mutation* (refund, return, exchange, cancellation, change of address) that the
user must confirm before the business system is asked for it. Runs, checkpoints,
tokens, tickets and messages live in PostgreSQL; a FastAPI process serves the
handlers in a thread pool and executes runs on one background thread. Beside the
runtime there is a control plane: skills learnt from failures and releases that
are delivered progressively.

All paths below are relative to the repository root.

## 1. Inventory

| Component | State it keeps | Operations | Hard behaviour | What makes it correct |
|---|---|---|---|---|
| Confirmed-mutation path: `src/orchestration/mutation_workflow.py`, `mutation_execution.py`, `src/repositories/mutations.py`, `src/mutation_safety.py` | confirmation tokens, idempotency records | prepare, confirm, reject, refresh, claim, observe, verify | concurrent confirmations, cancellation races, unknown outcome of an external call, crash between two transactions | the change is asked for at most once, never after a withdrawal; a result is announced only when it is known |
| Run row and checkpoints: `src/repositories/runs.py`, `src/orchestration/persistence.py` | `agent_runs` with `row_version`, `run_checkpoints`, events | `commit_step`, resume, `set_terminal_reason` | optimistic concurrency, a read after the transaction, writers that compare nothing | a stale writer changes nothing; a terminal status is final |
| Executor: `src/orchestration/demo_run_executor.py` | the job of each run | route, execute, hand off, mark failed | exceptions half-way, resubmission at startup | each accepted run ends or waits for someone who can end it |
| Handoff tickets: `src/repositories/handoffs.py` | tickets | create, resolve | two transactions for a ticket and its run | a run that waits for a person has an open ticket |
| Terminal responses: `src/orchestration/terminal_response.py`, `src/repositories/messages.py` | the terminal message of a run | publish once, replay at startup | several parties end one run | at most one reply, and it is true |
| Admission: `apps/api/main.py` (`send_message`, `retry_run`), `src/repositories/run_lifecycle.py`, `src/orchestration/engine.py` | one active run per conversation, client message ids | create, answer, retry, cancel | double clicks, lost idempotency races | no orphaned active run, no run executed twice |
| Read-only loop and tools: `src/agent/loop.py`, `src/orchestration/pipeline.py`, `src/tools/executor.py` | step journal, step budget, tool results | decide, validate, call, reduce, hand off | timeouts whose calls go on, resume from a journal | the loop ends, late results are not mistaken, answers cite what was retrieved |
| Progressive delivery: `src/repositories/releases.py`, `src/release/*` | releases, assignments, runtime registrations | create, stop, measure, advance, assign | metrics read in one transaction and applied in another, two schedulers | stages in order, each on its own evidence; a closed release stays closed |
| Skills and failures: `src/repositories/skills.py`, `failures.py`, `src/evolution/*` | failure cases, attributions, skill versions, evaluations, kill switch, matches | project, attribute, review, propose, approve, canary, roll back, match | concurrent projections and reviews, expiry between approval and use | independent evidence, nothing matched that was not vetted, decisions survive |
| Outbox: `src/repositories/outbox.py` | leased rows | lease, publish, retry, dead-letter | a publisher that outlives its lease | a settled row is not delivered again |
| Decisions: `src/models/gateway.py`, `src/orchestration/router.py`, `confidence.py`, `src/safety/*`, `src/workflows/mutations.py` | none | parse, calibrate, route, plan | an untrusted answer, boundary values | nothing starts on the provider's word alone |
| Control plane: `apps/api/main.py` (internal POSTs), `src/repositories/control_plane.py`, `audit.py` | idempotency records, audit events | claim, change, audit, complete, abandon | faults between the transactions of one request, replays | one change per key, a 200 only for a change that was made |
| Offline evaluation: `apps/api/main.py` (`/v1/evals`), `src/harness/*` | `report.json`, `eval_runs`, a subprocess | create, run, judge, report, cancel | three writers of one file, a harness that hangs or is killed | the report is honest and does not stay queued |

`PROJECT.json` lists every component, also the ones that stay outside: data
synthesis, migrations, the web client and the scripts are sequential batch
programs, DDL or presentation.

**How they interact.** A handler of the API loads the newest checkpoint of a run
(`_checkpoint_context`), works on that context and writes it back through
`commit_step`, which compares `row_version`. The executor thread does the same,
except for `_mark_failed`, which overwrites the row without a compare. Ending a
run is followed by `publish_terminal_response`, which again bumps `row_version`.
Handlers share nothing but the tables, so every interleaving of their
transactions is possible. A crash loses all handlers and jobs; the startup hook
`recover_active_runs` runs before the next request is served. Releases touch
runs through `_record_release_assignment`, which the executor calls while it
routes a run, and read them back through `canary_metrics`.

## 2. Modules

| Module | What | State |
|---|---|---|
| `MutationContract`, `MutationCommit` | the mutation path and its abstract promise | checked, proved |
| `RunControl` | admission, routing state, the executor with its error paths, the low-risk workflow, human review, startup recovery for every kind of run | checked, proved |
| `Admission` | what one message may start: safety, classification, calibration, route, mutation planner | checked, proved |
| `AgentLoop` | the inside of the readonly loop: gateway, validation, tool executor, journal, checkpoints | checked, proved |
| `LoopExits` | `AgentLoop` read as the readonly loop of `RunControl` | checked, proved |
| `ProgressiveDelivery` | releases, schedulers, assignments | checked, proved |
| `SkillEvolution` | failure pool, skill registry, kill switch, matching | checked, proved |
| `ControlPlane` | idempotency of the internal POST handlers | checked, proved |
| `EvaluationJob` | one offline evaluation | checked, proved |
| `Outbox` | leases of published rows | checked, proved |
| `MCMutationCommit`, `MCRunControl`, `MCAgentLoop`, `MCProgressiveDelivery`, `MCSkillEvolution`, `MCComponents` | instances for TLC | |
| `MutationTokenProofs`, `MutationEndProofs`, `MutationContractProofs`, `RunControlProofs`, `AgentLoopProofs`, `ProgressiveDeliveryProofs`, `SkillEvolutionProofs`, `ComponentProofs` | theorems (section 10) | |

`RunControl` sees the readonly loop as a handful of exits and the router as a
free choice; `AgentLoop` and `Admission` are the insides of these two, and
`MutationCommit` continues a run that `RunControl` leaves waiting for a
confirmation. `LoopExits` composes the first pair: it instantiates `RunControl`
with what the executor can see of `AgentLoop`. `MCComponents` puts the four small modules side by side: they share
no state, so a behaviour moves one of them, chosen at the start.

"Proved" in the table means the safety properties; liveness is checked only.

`Admission` and `RunControl` are not related by a theorem: one action of
`Admission` (a turn of its conversation) stands for several of the worker's, and
it keeps neither rows nor checkpoints, so a mapping would have to invent them.

## 3. `MutationCommit`: the confirmed-mutation path

### State

| Variable | In the code |
|---|---|
| `status`, `version` | `agent_runs.status`, `row_version` |
| `checkpoint` | the newest `run_checkpoints` row: status, version and step count of the stored `RunContext` |
| `token`, `newest`, `lapsed`, `disclosed` | `confirmation_tokens.status`, the row created last, `expires_at` passed, plaintext handed to a client |
| `record` | `idempotency_records.status` |
| `calls`, `applied` | invocations of the business system and what took effect there (not a table: the environment) |
| `ticket`, `reply` | `handoff_tickets.status`, the terminal assistant message |
| `worker`, `pc`, `job`, `ctx`, `seen` | program counters and locals of the executor job and of each request |

Identifiers drawn at random are named after the request that draws them, so no
counter is needed: request `r` issues token `r`, reserves record `r` and opens
ticket `r`. Only the worker's token is named after its run; the worker drops its
plaintext, so a client always refreshes before it can confirm, as in the code.

### Actions

One action per transaction or external call, in the order of the code:

- worker: `IssueToken`, `PrepareMutation`, `PublishPrompt`, and on an exception
  `WorkerRaises`, `MarkFailed`, `PublishFailure`, `StampFailure`;
- confirm: `LoadContext`, `LoadToken`, `LookupKey`, `ConsumeAndReserve`,
  `StartCommit`, `RereadVersion`, `Claim`, `CallAdapter`, `ObserveCommit`,
  `Verdict`, `Verify`, `OpenTicket`, `Finish`, `Publish`, `SetReason`;
- reject and cancel: `RejectToken` or `InvalidateTokens`, then `Withdraw`;
- refresh: `LoadNewest`, `Rotate`, `Reissue`;
- resolve: `ResolveCheckpoint`, `ResolveTicket`;
- environment: `Lapse` (a token expires), `CrashRestart` (a crash with the
  startup hook that follows it).

A compare on `row_version` is `Fresh`; `commit_step` is `CommitStep` for its
transaction and, where the code uses the row it re-reads afterwards,
`RereadVersion` or `Verdict` as a second step. `expire_waiting` and
`DurableMutationBoundary.recover` have no caller and are no actions.
The answers of the business system (`Answers`) are what the adapter contract
allows; the demo adapter always succeeds.

### Abstract specification

`MutationContract` knows five sets of runs: invoked, effect, escalated,
withdrawn, declared. A run is invoked at most once and not after a withdrawal,
withdrawn only before the call, declared completed only when the effect is there
or a person has been given the case. `Contract` in `MutationCommit` reads these
sets off the tables; `ContractHolds` says the path implements it.

### Runs

| Run | Bounds | Shows |
|---|---|---|
| `commit_one_run` | 1 run, 4 requests of any kind (at most two of a kind), 2 keys, worker failure, 1 crash; 1.0 M states | `AtMostOneCall`, `CancelledMeansUntouched`, `CancelledStays`, `CompletedMeansApplied`, `WaitingHumanHasTicket`, `OneLiveToken`, `ReservationNotAbandoned`, `ReplyHonest`, `ContractHolds` |
| `commit_two_runs` | 2 runs, 4 requests that refresh or confirm, 1 key; 0.3 M states | `SpentMeansReserved` |
| `commit_progress` | 1 run, 3 requests, no fault, fairness; 48 k states | `Settles`, `TerminalAnswered` |
| `crash_mid_commit` | 1 crash, fairness | violates `Settles` |

*Bounds.* A confirmation needs a refresh first, so four requests are two
refresh/confirm pairs, or one pair raced by a cancellation and followed by a
resolution: every pair of handlers meets, in every order, and a third may
interfere. `StepLimit` stands for the 6 of `RunContext.step_count`; 4 lets a
confirmation complete and lets repeated refreshes run into the limit. One crash
is enough because the startup hook leaves no request behind. Requests, keys and
runs are symmetric; the run with liveness uses no symmetry.

*Fairness.* A request being served and a worker's job keep running while the
process lives (`WF` of `Advance` and `Work`). Clients need not call, tokens need
not expire, nothing need crash. `CHECK_DEADLOCK FALSE` is right for all runs:
each request is served once, and a system nobody calls stands still.

*Limits of liveness.* `Settles` is checked without worker failures as well as
without crashes: when the failure handler of the executor bumps `row_version`
between the observation and the last checkpoint of a confirmation, that
checkpoint is refused and the run stays in `verifying`.

### Findings

**`crash_mid_commit`**: after a crash during a commit the run stays in
`committing` or `verifying`; the recovery query (`apps/api/main.py:941`) does
not select these statuses and nothing calls `recover`.

Three observations have no run of their own. `cancel_run` ignores a failed
invalidation of tokens (`apps/api/main.py:2864`); with `"invalidate"` in `Faults`
a confirmation that had passed its status test takes the cancelled run to
`committing` and `CancelledMeansUntouched`, `CancelledStays` and `ReplyHonest`
are violated; `AtMostOneCall` and `CompletedMeansApplied` hold all the same
(section 10). A token that has expired cannot
be refreshed (`rotate_waiting` asks for `expires_at > now()`), although
`docs/runbooks/failure-recovery.md:9` names refreshing as the only way on. And
`_mark_failed` between the transaction of `commit_step` and the read that follows
it lets a confirmation carry a failed run on to `verifying`; `ReplyHonest`
speaks of `completed` and `cancelled` replies only.

## 4. `ProgressiveDelivery`: releases, schedulers and assignments

`status`, `stage`, `window`, `since`, `rollback` are the columns of
`release.releases` and `older` the order of its `updated_at`; `registered` is `runtime_registrations`; `assigned` is
`release_assignments`. Times are abstracted to what is compared with them: a
window is open, elapsed or NULL, and an assignment carries the window in which
it was created. `served` is the release whose candidate route a run executes
(`routed = shadow_routed`). Actors: the scheduler of each process (`StartRound`,
`MeasureRuns`, `MeasureReplies`, `EvaluateAndAdvance`), the executor
(`ReadRelease`, `ReadRuntime`, `FirstRecord`, `SecondRecord`, `RecordFails`,
`Execute`), operators (`Create`, `RegisterRuntime`, `Stop`) and time (`Elapse`).
Latency, cost and handoff rates against their baselines are an input of
`MeasureRuns`. A scheduler takes its due releases in any order. `Elapse` assumes
that one evaluation takes less than the 24 hours of a window. The endpoint
`evaluate_release` is no action: it hands `confirmation` to `CanaryMetrics`,
which has no such field, and raises before it reaches the repository.

| Run | Bounds | Shows |
|---|---|---|
| `release_climb` | 2 schedulers, 2 runs on both sides of a bucket boundary, 2 releases of which the second stays in its first window; ladder with one canary stage; about 1 M states | `ClosedStays`, `MeasuredInItsWindow`, `ShadowedBeforeServed`, `WithinItsShare` |
| `release_decided` | 1 release, 2 schedulers, 2 runs, fairness | `Decided` |

The ladder is a constant: the three canary stages of the code differ only in
their share, and one of them already has a predecessor, a window and a
successor. Two runs are what two stages need as evidence; both are of low risk,
so that `WithinItsShare` keeps every other run out is shown by its theorem
(`ShareIsKept`), not by the run. Fairness is that of
the scheduler loop and of wall-clock time.

Observation: FULL opens no window (`releases.py:494`), so the next tick completes
the release on what was measured since the last canary stage began, while
`docs/runbooks/release-evaluation-gates.md:79` asks for a window of its own at
every stage, 100% included.

## 5. `RunControl`: the runs of one conversation

`RunControl` follows a conversation from its messages: `send_message` creates a
run or answers one, one background thread routes and executes it, `retry_run`,
`cancel_run`, `get_human_review` and `resolve_handoff` act on it, and
`recover_active_runs` picks it up after a crash. A run is named after the
request that creates it.

| Variable | In the code |
|---|---|
| `status`, `mode`, `version` | `agent_runs.status`, `execution_mode`, `row_version` |
| `checkpoint` | the `RunContext` of the newest `run_checkpoints` row: status, version, steps, executor, whether it carries a `last_step_reason` |
| `messages` | user messages of the conversation: `client_message_id`, run, content |
| `open`, `reply` | open rows of `handoff_tickets`, the terminal assistant message |
| `record`, `effects` | the idempotency record of a low-risk write, and what the business system did (the environment) |
| `queue`, `job` | jobs of `run_executor` and the one its thread executes, with its `RunContext` |
| `pc`, `ask` | program counter and locals of each request |
| `abandoned` | runs whose failure could not be recorded: no table, it names the exception of `AcceptedIsOwned` and `AcceptedSettles` |

Requests: `Send`, `FindActive`, then `AppendAnswer` or `CreateRun` and
`AppendFirst`, `ReleaseRun`, `Submit`; `Retry` joins at `CreateRun`; `Cancel`,
`Withdraw`, `StampCancel`; `Resolve`, `Decide`, `SettleTicket`; both end with
`PublishEnd`, `StampEnd`; `Review`, `OpenReview`. Worker: `TakeJob`, the three
ways through the router (`RouteUnsafe`, `RouteContinuation`, `RouteClassified`),
handoff (`CreateTicket`, `Park`), clarification (`AskUser`), small talk
(`Converse`), the readonly loop (`LoopContinues`, `LoopRepeats`, `NoProgress`,
`LoopDecides`, `LoopStops`, `StampReason`), workflows (`Prepare`,
`WorkflowRefuses`, and for low-risk writes `BeginLowRisk`, `ClaimRecord`,
`CallSystem`, `ObserveOutcome`, `ParkUnknown`), responses and failures
(`PublishPrompt`, `PublishResponse`, `MarkFailed`, `PublishFailure`,
`StampResponse`, `WorkerRaises`). `Restart` is a crash with the startup hook
that follows it.

What the classifier, the model, the tools and the business system answer is a
free choice. The confirmation of a prepared mutation is `MutationCommit`'s; here
such a run waits and may be cancelled. A database failure inside a request ends
it where a crash would; only the worker's are actions, because it handles them.

| Run | Bounds | Shows |
|---|---|---|
| `run_control` | 3 requests of any kind, 2 keys, 2 contents of which one is unsafe, all routes, step limit 2, 1 fault, 1 crash; 2.1 M states | `AcceptedIsOwned`, `ExecutesLockedMode`, `RoutedOnce`, `EffectBehindRecord`, `EndedStaysEnded` |
| `run_settles` | 2 requests, otherwise the same, fairness, no symmetry | `AcceptedSettles` |

*Bounds.* Three requests are a message, its answer or retry, and a third that
interferes: two answers race, a cancellation meets a queued answer, a resolution
meets a review. `StepLimit` stands for the 6 of `execute_step` and of
`RunContext.step_count`; 2 lets a loop repeat a decision and lets it run into
the limit. A crash at every point of every one of these is included.
*Fairness*: the thread of the executor and the thread of each request keep
running (`WF` of `WorkerStep` and `RequestStep`); nobody has to call.

What the properties admit is worth a reader's attention. `EndedStaysEnded` has
one exception: an answer still queued when its run is cancelled or resolved is
handed to a human when it is unsafe, because the handoff branch writes its
checkpoint without `select_route`; such a run waits for a human behind a
terminal reply. `AcceptedIsOwned` and `AcceptedSettles`
except a run whose failure handler failed as well: it stays until a restart.

Observations the model reproduces, without a run of their own:

- a readonly run that stops for a human (no progress, exhausted budget) is
  stamped with its reason after its checkpoint (`demo_run_executor.py:713`); the
  stamp bumps `row_version`, so `resolve_handoff` always fails its compare;
- the answer to a clarifying question of the router sends the run through
  `select_route` again (`run_lifecycle.py:206`), which refuses a run that is not
  `created` or `routing`; the run fails;
- a missing slot of a mutation raises on the unbound `handoff_id`
  (`demo_run_executor.py:853`), so that question is never asked;
- a run left `running_*` without a checkpoint by a crash is resubmitted and
  fails in `select_route`;
- a request that loses the race for its `client_message_id` after creating a
  run, with the same content, leaves that run active.

## 6. `AgentLoop`: inside the readonly loop

One call of `AgentLoop.run`, on a run that was just routed, on one that goes on
after its user's answer, or on one that startup submits again (`Starts`: the
status of the row, the steps, tools and evidence its context brings along).
`status`, `version`, `events` are the run's row and
what its newest checkpoint published, `ctx` the loop's `RunContext`, `pc` its
place, `request`, `decision`, `usage`, `outcome` and `call` the locals of
`execute_step`, `journal` the `PipelineJournal`, `threads` the adapter threads
that have not come back, `budget`, `late`, `signal` what may stop the loop.
`given` is the evidence the decision boundary was built with, which stays trusted
for the whole call. `answer` and `retrieved` are history: the evidence the last response cites and
what checkpointed observations have held.

A step goes through `BeginStep` (prompt and gates), `PostAgain`, `Repair`,
`ModelFails` or `ModelDecides` (gateway), `Interrupted`, `ChooseTool`, `AskAgain`,
`Conclude` (validation with its one semantic retry), `Deny`, `Attempt`,
`NoTimeLeft`, `AwaitAnswer`, `ExecutorRaises` (tool executor), then `Checkpoint`,
`CheckpointFails` or, when the same call came twice, `HandOff`. `ModelRaises` is a
body whose list of choices is empty: neither the gateway nor the loop catches the
`IndexError`, so it leaves the loop as an exception. `ThreadReturns`
lets an adapter come back in its own time; `CancelRun`, `Signal` and `Elapse` are
the API, the caller and the clock. `cancel_run` accepts a run that waits for its
user; `select_route` is skipped for a run that is resumed, so its row says so
until the first checkpoint of the loop, and a cancellation can pass the loop
until then (and again when the loop has asked the user).

The model may propose anything the validators and the executor tell apart:
unknown, unlisted or writing tools, another actor's resource, a mistyped or
system argument, another route, forged evidence, an end that carries tool data.
Resources, arguments and texts are abstracted to these cases.

`agent_loop` (3 steps, 2 posts per request, 2 attempts per call, a token budget
of 2 against a charge of 1, 13 proposals, a fresh start and a resumed one with a
step, an order and a document behind it, one interruption in a run, at most two
threads under way; 1.0 M states) shows `JournalInOrder`, `CitesOnlyRetrieved`,
`AnswerOfItsAttempt`, `LoopIsExecutor` and, with a fair worker thread,
`LoopEnds`. Three steps are a knowledge call, an answer that cites it and one
more that repeats or exhausts; adapters need not come back for the loop to end.
The constraint stops at the end of the loop, so no behaviour that has not ended
is cut short by it except those with more threads or interruptions.

`LoopIsExecutor` (in `LoopExits`) closes the gap between the two models of the
loop. `RunControl` lets its worker take one turn after the other with the outcome
a free choice; `AgentLoop` computes it. The mapping reads a state of `AgentLoop`
as a `RunControl` with one run whose job is in the loop: `Point` is where
`_execute_message_run` stands (in a first turn, in a turn after a tool call, at
the stop without progress, at the stamp, the response or the prompt behind the
loop, or in its exception handler), `LoopContext` the part of the context
`RunControl` keeps, `Stored` the newest checkpoint. The property says that every
step that changes the row, the context or that point is a turn of the worker
(`LoopContinues`, `LoopRepeats`, `LoopDecides`, `LoopStops`, `NoProgress`), an
exception, or the cancellation's write: a failure ends the run only
within the step budget, a repeated call is given up after one repetition, a stop
carries its reason and a decision does not, and a cancelled run is never stored
over. Steps with `signal` set are left out of it: the executor passes no
cancellation callable, and the status such a stop stores is none `RunControl`
knows in the loop. The mapping fills in what the loop does not touch (messages,
tickets, the queue, requests) with constants; a run that was just routed and has
no checkpoint yet is read as one whose checkpoint says what its row says.

Observations: `execute_readonly_run` passes no cancellation callable, so only
the version compare of the next checkpoint notices a cancelled run (the offline
runners do pass one); the tokens of a decision that was repaired or asked for
again are never charged; an attempt that has no time left counts as one, so
`tool_called` is published although the adapter was never called; when the tool
executor raises in its second attempt (`Thread.start` may), a first one that
reached the adapter is forgotten, the run fails with `tool_execution_failed` and
no `tool_called` is published for it; the branches
of the tool executor for writes are not reached from this loop.

## 7. `Admission`: what a message may start

A message is the features the code extracts from it: an unsafe or social mark, an
order, SKUs, a reason, an address. `Say` and `Safety` bring it in, `Classify` and
`ClassifyFails` ask the provider, whose answer is untrusted data, `Converse`,
`ReadonlyLoop`, `PlanMutation` and `SubmitLowRisk` dispatch it. A classifier that
cannot be reached hands a new run to a human and fails one that was routed
before; whatever a planner refuses fails the run, on the unbound `handoff_id` of
section 5. Between them are
pure operators: parsing with its aliases, the two calibration curves (exact in
ten-thousandths for scores in hundredths), the route catalogue, the router's
checks in the order of the code, the candidate router of a canary, and the
planner. `answer`, `seen` and `effect` remember the answer that routed the run,
the last text that left the safety boundary and what was started.

Part `admission` of the run `components` (two messages of one run, an order book
with an open, a closed and a foreign order, answers on both sides of every
threshold) shows `UnsafeStaysOut`, `RouteEarned`, `CardIsSound`; all three are
proved for any texts, answers and orders.

Observations: `INVALID_QUANTITY` is unreachable; an exchange that names one SKU
replaces the item by itself; a low-risk request neither takes up saved slots nor
looks up the owner of its order.

## 8. `SkillEvolution`: failures, skills and matching

`cases` and `attributions` are the failure pool, `job` the projections and
reanalyses under way, `skill`, `evaluations` and `lapsed` the registry and the
deadlines that have passed, `enabled` the kill switch, `request` and `matches`
the requests on their way through the two places that match skills. A projection
records a signal in one step and attributes it in another (`RunEnds`, `Downvote`,
`EvalEnds`, `RecordSignal`, `Attribute`, `JobLost`, `Reanalyze`), people decide
(`Review`, `Approve`, `Reject`, `Canary`, `Rollback`), and `ExpireDue` is part of
every operation that calls it.

| Run | Bounds | Shows |
|---|---|---|
| `skill_evolution` | 2 runs and 1 evaluation case that may be evaluated twice, 2 workers, 2 skills of different scope, 2 sources wanted, 1 request, active and shadow mode; 0.24 M states | `IndependentEvidence`, `VettedBeforeUse`, `DecisionsSurvive`, `MatchesLiveVersion` |
| `kill_switch` | 1 skill, 1 request | violates `KillSwitchStops` |

The constraint separates what does not interact: either one case with up to two
attributions and two interleaved projections, or any number of bare cases, on
which skills are built.

Finding **`kill_switch`**: `execute_readonly_run` (`api_runtime.py:238`) matches a
skill without reading the switch the executor has read before it, although
`set_skill_kill_switch` and `matching_enabled` say the runtime reads it before
every match.

Observations: `create_skill_from_failure` passes both gates as False and is
always refused; a reanalysis or a later signal puts a pending attribution on top
of a reviewed one (the decision survives below it); a reanalysis uses the signal
as its reason code, which fits no rule; `approve` accepts any earlier passing
evaluation and does not look at the review deadline, but an expired version is
not served; nothing makes a skill ACTIVE; a match that cannot be recorded stays
in the state of the run; a replayed downvote is projected again.

## 9. `ControlPlane`, `EvaluationJob`, `Outbox`

**`ControlPlane`**. A behaviour studies one of the twelve internal POST handlers.
Each is a record of what tells it apart (who may call it, what its change can
do, which exceptions make it give up its claim, whether that clause covers the
completion, whether it audits), and one set of actions follows the transactions
they share: `Arrive`, `Check`, `Claim`, `Change`, `AppendAudit`, `Complete`,
`Abandon`, `CPCrash`. Three requests, one key and two bodies are a first attempt,
its retry and a third with another body. `ChangeAtMostOnce` and
`AnsweredMeansDone` are checked for every handler and proved. `create_release`
is the one exception of the first: it gives up its claim also after its commit
(`main.py:1781`), so a retry creates a second release.

Observations: a claim left `in_progress` by a fault or a crash is never swept, so
its key is refused for ever; `evaluate_release` raises a `TypeError` before its
change on every call; a completed approval that is repeated is answered 409, not
replayed; two approvers with different keys can both decide one evaluation, since
the look-up precedes the claim (`main.py:2034`); a second canary in one scope ends
in an unhandled integrity error.

**`EvaluationJob`**. `POST /v1/evals` writes `report.json`, a background task runs
the harness as a subprocess and copies its report, a cancel request may come at
any time: `CreateEvaluation`, `Spawn`, `Communicate`, `TimeoutKill`, `ReadBack`,
`WriteBack` (task), `HarnessStart`, `RunAttempt`, `EndLoop`, `FinishRun`,
`WriteReport`, `PrintReport`, `Interrupt` (harness), `CancelRead`, `CancelKill`,
`CancelWrite`, and `ApiCrash`, which the harness outlives. A trace is the set of
checks it meets; hard gates, judge and report gates are operators over the rows.
Two cases, one of which needs a review, one attempt each and one canceller are
enough for a report that is partial, stale or overwritten.

Every `write_text` may raise, in the task, in the harness and in a cancellation
(`WriteFails`), and a harness may be killed in one: the file is then as it was or
cut short (`Torn`), and a reader that cannot parse it takes the branch the code
has for that. A write that succeeds is one step, so nobody reads a file while
another process is in the middle of writing it. A second fault is the
judge's: an empty list of choices leaves the harness (`RunAttempt`). An operator's
interrupt counts until the last case, for nobody reads the flag later.

`ReportHonest` holds whoever wrote last and is proved for any dataset and any
number of cancellers. `EvaluationSettles` says that a queued report gets a final
status unless the API dies or the task ends because the report of its own failure
could not be written either. It needs only that the task's thread runs, for its
wait is bounded by an hour.

Observations: when the write of the failure report raises as well
(`main.py:449`, `463`), the exception leaves the task and the report stays
`queued`, or unreadable, while the API lives; a failing verdict of the judge does not close the release gate, a
missing one does, except on intent-only rows; a cancelled harness leaves its
`eval_runs` row `running`.

**`Outbox`**. Rows, the leases each publisher believes it holds, and a running
`dead_letter` statement. The publisher is not in the repository and is modelled
as the operations are meant to be used; a lease may run out at any time.
`NeverRequeued` is checked with two rows and two publishers, and proved.
Observation: the subquery of `dead_letter` takes no lock, so a row published
meanwhile can be quarantined.

The run `components` checks the four modules of sections 7 and 9 together (two
messages, three requests, the setups that differ; 1.1 M states).
`CHECK_DEADLOCK FALSE`: each of them comes to rest.

## 10. Proofs

All theorems hold for any sets of runs, requests, keys, releases and schedulers
and for any bounds that satisfy the named assumptions of the modules. Every
safety property a passing run checks is stated by a theorem; a name in
parentheses is that property.

`MutationTokenProofs`, `MutationEndProofs` and `MutationContractProofs` build on
one another:

- `TypeCorrect`: `TypeOK` is an invariant. It is inductive with the shape of a
  request's locals.
- `CommitOnce` (`AtMostOneCall`) and `OneToken` (`OneLiveToken`). At most one
  call is not inductive: the reason is the token. `OneChance` says that among
  the usable tokens and the reservations of a run there is at most one in all;
  `StepShape` ties each step of a request to the state of its record and call
  count; `NoCheckpointYet` says that nothing was issued before the first
  checkpoint. Together they are `TokenInv`.
- `SpentIsReserved` (`SpentMeansReserved`): over `TokenInv`, the one step that
  spends a token leaves its reservation behind, and no step takes one back.
- `CancelledUntouched`, `CancelledForGood`: under the assumption that the
  invalidation in `cancel_run` does not fail, which section 3 shows to be
  needed. `RunInv` adds to `TokenInv` that
  versions only grow, that a request past its compare is at the version it
  wrote, that a withdrawal leaves no usable token behind and that a run that has
  ended is closed to every context loaded before.
- `ReservationIsKept` (`ReservationNotAbandoned`), whatever fails. `WaitInv`
  says that the row of a waiting run is the one its newest checkpoint describes,
  that every refresh of a run is stale once a client holds a token of it, and
  that a confirmation whose token is still good therefore has the row's version:
  its compare after the exchange cannot fail unless the run has moved on.
- `RepliesAreHonest` (`ReplyHonest`), under the assumption of
  `CancelledUntouched`. `ReplyInv` joins `RunInv` and `WaitInv` and adds that a
  checkpoint or a loaded context that names an outcome agrees with the row.
- `HumanHasTicket` (`WaitingHumanHasTicket`), whatever fails. `HumanInv` adds
  that a resolution is about the run of its ticket and that a ticket is closed,
  or about to be, only when its run has left the reviewer's hands for good.
- `PathImplementsContract` (`ContractHolds`), under the assumption of
  `CancelledUntouched`: every step maps to a step of the contract or to a
  stutter, from `RunInv`.
- `CompletedIsApplied` (`CompletedMeansApplied`), whatever fails: from
  `ReviewInv`, the part of `RunInv` that does not depend on the invalidation. A
  confirmation gets to its last checkpoint as completed only with a verified
  effect, a resolution only behind a ticket, and neither is ever taken back.

`RunControlProofs`:

- `RunTypes`: `TypeOK` is an invariant. It is inductive with what a request
  knows at each of its steps (`AskShape`: a key before it appends, a run before
  it submits or ends one, a terminal goal before it publishes) and with
  `JobShape`: the worker announces an end only with a context that has ended.
- `LockedExecutor` (`ExecutesLockedMode`) and `RouteIsFinal` (`RoutedOnce`). The
  point at which the worker stands says nothing about the row; `LockInv` relates
  the two through the contexts. Every context that names an executor, in the
  newest checkpoint, in a request that loaded it and is going to store it, or in
  the job, names the executor of the row. `select_route` fills only an empty
  `execution_mode`, so no context in flight can name another, and a stale
  context written back by `resolve_handoff` or `cancel_run` is harmless.
- `WriteAtMostOnce` (`EffectBehindRecord`). `EffectInv` adds that a run without
  a record has no effect, that a call is only made behind a record still
  `in_progress` and before any effect, and that an observation finds the record
  `in_progress`; a job that repeats after a crash therefore finds the record and
  does not call again.
- `AcceptedRunsAreOwned` (`AcceptedIsOwned`). `OwnerInv` adds that nobody
  touches a run before the request that created it has stored its first message,
  that a conversation has one active run at most, and that a job about to end has
  left its run ended or paused.
- `EndedForGood` (`EndedStaysEnded`). `EndInv` says what each holder of a context
  knows of an ended run: a context with the version of an ended row has ended
  too, but for the safety handoff the property names. The steps of the worker
  and of a request are first sorted into the few kinds of effect they can have
  on a row (`WorkerKind`, `RequestKind`), and the invariant is shown for a kind.

`AgentLoopProofs`: `LoopInvariant` (`LoopInv`), from which follow
`JournalIsInOrder` (`JournalInOrder`), `AnswersCiteRetrieved`
(`CitesOnlyRetrieved`), `LateAnswersAreDropped` (`AnswerOfItsAttempt`) and
`StartedCallsArePublished` (`CallsArePublished`), for any tools, evidence and
budgets. `JournalShape` gives the stages a step has recorded at each place of the
loop, a second decision and every early end included; `CallShape` says that an
adapter that was started counts as an attempt and that its step continues unless
the tool executor raised; `EvidenceShape` that what the loop trusts was retrieved and that a step
about to complete the run cites nothing else. `CallsArePublished` has one
exception, a run failed with `tool_execution_failed` (section 6); it is proved and
not among the properties of a run.

`LoopImplementsExecutor` (`LoopIsExecutor`) is the composition. `ExitInv` adds to
`LoopInv` that the row is at the loop's version unless the run was cancelled on
top of it (`RowShape`), that a step past its gate is within the step budget
unless it stops for a reason that says otherwise (`BudgetShape`), and that only a
tool call lets a step continue, with the reason every kind of end has
(`EndShape`). `CheckpointIs` shows once that a checkpoint of the loop is
`RunControl`'s `CheckpointAt`; then each way a step ends is one of the turns
(`ContinuesAsTurn`, `DecidesAsTurn`, `StopsAsTurn`, `HandOffAsTurn`), a failure is
`WorkerRaises`, a cancellation the write of `Withdraw`, and every other step is
invisible to the executor (`QuietSteps`). The lemma `TurnIsWorkerStep` says that
the turns are steps of the `WorkerStep` that the runs of section 5 explore.

`ProgressiveDeliveryProofs`:

- `DeliveryTypes`: `TypeOK` is an invariant. It is inductive with `Known`: an
  executor or a scheduler holds only releases that were created, so the stage and
  the window it reads exist, and `NEXT_STAGE` is applied below FULL only. Assumes
  that there are finitely many runs.
- `ClosedForGood` (`ClosedStays`): any number of schedulers with stale lists of
  due releases and any number of operators cannot move a closed release.
- `OwnEvidence` (`MeasuredInItsWindow`). The invariant `WindowInv` says that the
  window of an active release below FULL was opened by its own stage, and that a
  scheduler holding metrics of an earlier window implies that the present one is
  still open, so the guard under the row lock refuses it.
- `ServedAfterShadow` (`ShadowedBeforeServed`) and `ShareIsKept`
  (`WithinItsShare`). `ExposureInv`: the stage an executor read is never ahead of
  its release, a release in SHADOW has shadow rows only, the replies a scheduler
  counted were given, and so a release beyond SHADOW was answered in shadow.
  Shares only grow along the ladder, which is why a late assignment stays within
  the present one.

`SkillEvolutionProofs`, for finitely many sources of failures:

- `HumanDecisionsSurvive` (`DecisionsSurvive`) from `PoolInv`, the types of the
  pool and of the projections under way.
- `SkillInvariant` (`SkillInv`), and from it `EvidenceIsIndependent`
  (`IndependentEvidence`), `MatchedSkillsAreVetted` (`VettedBeforeUse`) and
  `MatchesAreLive` (`MatchesLiveVersion`). The chain is: what a request found has
  a reviewer, a reviewer signs only what has passed an evaluation, a skill exists
  only on a cluster of enough origins, and clusters do not lose cases. Copies of
  one evaluation case are one origin; counting them rests on lemmas about
  cardinalities.

`ComponentProofs`, the modules of sections 7 and 9:

- `SafetyFirst` (`UnsafeStaysOut`) needs that the message in hand is safe once
  the executor is past the safety check (`SafeInv`); `CardsAreSound`
  (`CardIsSound`) follows from what `Prepare` has tested.
- `RoutesAreEarned` (`RouteEarned`). Lemmas on the two curves give the raw score
  below which the calibrated one stays under the threshold; `RouteInv` then says
  that a route, once locked, is backed by the answer it was decided on, that a
  conversation ends in the turn it was routed in and that no later answer
  replaces the first.
- `ControlPlaneTypes`, `AnswersAreHonest` (`AnsweredMeansDone`). `CPInv`: a
  request between its claim and its end owns an `in_progress` record, it is alone
  in that for its key, it has made its change and its audit event when it is past
  them, and a completed record reports such a change.
- `ChangesOnce` (`ChangeAtMostOnce`). `OnceInv` adds that a key nobody has
  claimed, or whose holder is before its change or is giving up, is quiet: no
  change was made under it. The reason is `NarrowClauses`: no handler but
  `create_release` gives its record up past its commit.
- `ReportsAreHonest` (`ReportHonest`). `EJInv` asks the same honesty of every
  report in anybody's hands: the file, the copies of the task and of each
  canceller, and the one the harness is about to write. Whoever writes last
  therefore writes an honest one.
- `OutboxTypes`, and from it `SettledForGood` (`NeverRequeued`): every operation
  but `dead_letter` asks for a row that is not settled.

Only model-checked: the liveness properties `Settles`, `TerminalAnswered`,
`Decided`, `AcceptedSettles`, `LoopEnds` and `EvaluationSettles`, for the proof
system has no rules for fairness and `ENABLED`; and the two violations, whose
counterexamples need no proof. No theorem needs induction over data: recursion
is kept out of the modules with proofs.

## 11. Not modelled

- Read models (`run_observability.py`, run insight, traces), metrics and
  readiness probes: they keep no state that another part reads.
- Memory, retrieval and ranking, text detectors, redaction and wording: they work
  on texts; the models take what they return as an input.
- The runtimes the harness drives, the comparison and layout of reports, data
  synthesis, cost tables, SLO baseline and propagation report: sequential batch
  code on files.
- `engine.py`, `workflow_executor.py`, `DurableMutationBoundary.recover`,
  `expire_waiting`: no caller in the runtime. `policies/engine.py`: the registered
  rules allow every registered tool to an authenticated request.
- The shutdown gate turns requests away before they touch any state; a shutdown
  that cuts work off is covered by the crash actions.
- Migrations, configuration, the web client, operator scripts.

In `MutationCommit`, database failures inside a handler other than the ones in
`Faults` end the handler where a crash would, and events and redacted payloads
are left out.
