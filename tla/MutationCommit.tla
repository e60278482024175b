---------------------------- MODULE MutationCommit ----------------------------
(***************************************************************************)
(* The confirmed-mutation path: a run that changes business state (refund, *)
(* return, exchange, cancel, change of address) from the token issued by   *)
(* the worker to the verified or human-owned outcome.                      *)
(*                                                                         *)
(* The atomic steps are the PostgreSQL transactions of the repositories    *)
(* and the calls to the business system.  FastAPI runs the synchronous     *)
(* handlers of confirm_run, refresh_confirmation, resolve_handoff and      *)
(* cancel_run in a thread pool, so the steps of several requests and of    *)
(* the worker interleave freely; a crash kills all of them and the startup *)
(* hook runs before the next request.                                      *)
(*                                                                         *)
(* Every identifier the code draws at random is named after the request    *)
(* that draws it: request r issues token r, reserves record r and opens    *)
(* ticket r.  The token the worker issues for a run is named after the run.*)
(* A token row leaves `waiting' at most once and every update bumps its    *)
(* row_version, so the code's compare on row_version is the test of        *)
(* `waiting' the same statement makes.                                     *)
(***************************************************************************)
EXTENDS Naturals

CONSTANTS
    Runs,         \* runs routed to a mutation workflow
    Requests,     \* HTTP requests, each served once
    Keys,         \* client-chosen idempotency keys
    Fingerprint,  \* the arguments hash of each run
    StepLimit,    \* RunContext.step_count accepts 0..StepLimit (6 in the code)
    Faults,       \* transient failures explored: of the worker's job, of the
                  \* invalidation of tokens in cancel_run
    MaxCrashes    \* bound: process crashes explored

ASSUME NamesDistinct == Runs \cap Requests = {}
ASSUME LimitIsNat == StepLimit \in Nat \ {0}
ASSUME FaultsKnown == Faults \subseteq {"worker", "invalidate"}
ASSUME CrashesIsNat == MaxCrashes \in Nat
ASSUME NoneIsNoName == "none" \notin Runs \cup Requests \cup Keys

VARIABLES
    status,      \* agent_runs.status
    version,     \* agent_runs.row_version
    checkpoint,  \* the newest run_checkpoints row: what a handler resumes from
    token,       \* confirmation_tokens.status
    newest,      \* the confirmation token of each run created last
    lapsed,      \* tokens whose expires_at has passed
    disclosed,   \* tokens whose plaintext a client holds
    record,      \* idempotency_records.status
    calls,       \* adapter invocations made with each record as the key
    applied,     \* records whose mutation took effect in the business system
    ticket,      \* handoff_tickets.status
    reply,       \* status announced by the terminal assistant message
    worker,      \* the executor job of each run
    pc,          \* the next step of each request
    job,         \* what each request asks for
    ctx,         \* the RunContext each request works on
    seen,        \* the mutation_outcome each confirming request has established
    crashes

runVars == <<status, version, checkpoint>>
tokenVars == <<token, newest, lapsed, disclosed>>
effectVars == <<record, calls, applied>>
requestVars == <<pc, job, ctx, seen>>
vars == <<status, version, checkpoint, token, newest, lapsed, disclosed, record,
          calls, applied, ticket, reply, worker, pc, job, ctx, seen, crashes>>

Terminal == {"completed", "failed", "cancelled", "expired"}

RunStatus == Terminal \cup
    {"running_workflow", "waiting_confirmation", "committing", "verifying",
     "waiting_human"}

Tokens == Runs \cup Requests
TokenStatus == {"absent", "waiting", "consumed", "rejected", "invalidated"}
ExecutionStatus == {"reserved", "in_progress", "succeeded", "failed", "unknown"}
Kinds == {"confirm", "reject", "refresh", "cancel", "resolve"}

\* The fields of RunContext the handlers read back from a checkpoint.
Context == [status : RunStatus \cup {"none"}, version : Nat, steps : Nat]
NoContext == [status |-> "none", version |-> 0, steps |-> 0]

\* A request names a run, the token or ticket it presents, and a key.
Job == [kind : Kinds, run : Runs, ref : Requests \cup {"none"},
        key : Keys \cup {"none"}]
NoJob == [kind |-> "none", run |-> "none", ref |-> "none", key |-> "none"]

\* The steps of a request still being served, in the order the code takes them.
Serving ==
    {"load", "token", "lookup", "consume", "committing", "reread", "claim",
     "call", "observe", "verdict", "verify", "handoff", "finish", "reject",
     "invalidate", "withdraw", "reason", "newest", "rotate", "reissue",
     "resolve", "settle", "publish", "stamp"}
\* 409 or 400, an exception the handler lets through, success, process death.
Ended == {"refused", "error", "done", "crashed"}

TokenRun(t) == IF t \in Runs THEN t ELSE job[t].run
On(r, run) == job[r].run = run

\* The newest checkpoint of a run cannot be rebuilt as a RunContext: there is
\* none, or its step count is beyond what the contract class accepts.
Unreadable(run) ==
    \/ checkpoint[run].status = "none"
    \/ checkpoint[run].steps > StepLimit

TypeOK ==
    /\ status \in [Runs -> RunStatus]
    /\ version \in [Runs -> Nat]
    /\ checkpoint \in [Runs -> Context]
    /\ token \in [Tokens -> TokenStatus]
    /\ newest \in [Runs -> Tokens \cup {"none"}]
    /\ lapsed \subseteq Tokens
    /\ disclosed \subseteq Requests
    /\ record \in [Requests -> ExecutionStatus \cup {"absent"}]
    /\ calls \in [Requests -> Nat]
    /\ applied \subseteq Requests
    /\ ticket \in [Requests -> {"absent", "open", "resolved"}]
    /\ reply \in [Runs -> Terminal \cup {"none"}]
    /\ worker \in [Runs -> {"issue", "prepare", "publish", "failing", "apology",
                            "stamp", "done"}]
    /\ pc \in [Requests -> {"idle"} \cup Serving \cup Ended]
    /\ job \in [Requests -> Job \cup {NoJob}]
    /\ ctx \in [Requests -> Context]
    /\ seen \in [Requests -> {"none", "succeeded", "failed", "unknown", "mismatch"}]
    /\ crashes \in 0 .. MaxCrashes

(***************************************************************************)
(* A run enters this module routed and with its arguments validated, the   *)
(* worker about to issue the first confirmation token.                     *)
(***************************************************************************)
Init ==
    /\ status = [run \in Runs |-> "running_workflow"]
    /\ version = [run \in Runs |-> 0]
    /\ checkpoint = [run \in Runs |-> NoContext]
    /\ token = [t \in Tokens |-> "absent"]
    /\ newest = [run \in Runs |-> "none"]
    /\ lapsed = {}
    /\ disclosed = {}
    /\ record = [r \in Requests |-> "absent"]
    /\ calls = [r \in Requests |-> 0]
    /\ applied = {}
    /\ ticket = [r \in Requests |-> "absent"]
    /\ reply = [run \in Runs |-> "none"]
    /\ worker = [run \in Runs |-> "issue"]
    /\ pc = [r \in Requests |-> "idle"]
    /\ job = [r \in Requests |-> NoJob]
    /\ ctx = [r \in Requests |-> NoContext]
    /\ seen = [r \in Requests |-> "none"]
    /\ crashes = 0

-------------------------------------------------------------------------------
(***************************************************************************)
(* Shared transactions                                                     *)
(***************************************************************************)

MutFresh(r) == TRUE

\* commit_step compares row_version with the version the context was loaded at.
Fresh(r) == version[job[r].run] = ctx[r].version

\* commit_step writes the run row and the checkpoint in one transaction; the
\* stored context is the caller's, one step and one version further.
CommitStep(run, context, next) ==
    /\ status' = [status EXCEPT ![run] = next]
    /\ version' = [version EXCEPT ![run] = @ + 1]
    /\ checkpoint' = [checkpoint EXCEPT ![run] =
           [status |-> next, version |-> context.version + 1,
            steps |-> context.steps + 1]]

Goto(r, step) == pc' = [pc EXCEPT ![r] = step]

\* append_assistant_once_for_run keeps the first terminal message of a run.
Announce(run, outcome) ==
    reply' = [reply EXCEPT ![run] = IF @ = "none" THEN outcome ELSE @]

\* set_terminal_reason bumps row_version whatever the status of the run.
BumpVersion(run) == version' = [version EXCEPT ![run] = @ + 1]

-------------------------------------------------------------------------------
(***************************************************************************)
(* The worker: prepare_mutation, the prompt, and _mark_failed              *)
(***************************************************************************)

\* The plaintext of this token is dropped by the worker, so no client has it.
IssueToken(run) ==
    /\ worker[run] = "issue"
    /\ token' = [token EXCEPT ![run] = "waiting"]
    /\ newest' = [newest EXCEPT ![run] = run]
    /\ worker' = [worker EXCEPT ![run] = "prepare"]
    /\ UNCHANGED <<runVars, lapsed, disclosed, effectVars, ticket, reply,
                   requestVars, crashes>>

\* Nobody else writes the row of a run that has no checkpoint yet, so the
\* compare in commit_step cannot fail here.
PrepareMutation(run) ==
    /\ worker[run] = "prepare"
    /\ CommitStep(run, NoContext, "waiting_confirmation")
    /\ worker' = [worker EXCEPT ![run] = "publish"]
    /\ UNCHANGED <<tokenVars, effectVars, ticket, reply, requestVars, crashes>>

PublishPrompt(run) ==
    /\ worker[run] = "publish"
    /\ worker' = [worker EXCEPT ![run] = "done"]
    /\ UNCHANGED <<runVars, tokenVars, effectVars, ticket, reply, requestVars,
                   crashes>>

\* Any exception of the job (a lost connection while it appends its trace
\* event or its prompt) lands in the handler that calls _mark_failed.
WorkerRaises(run) ==
    /\ "worker" \in Faults
    /\ worker[run] \in {"issue", "prepare", "publish"}
    /\ worker' = [worker EXCEPT ![run] = "failing"]
    /\ UNCHANGED <<runVars, tokenVars, effectVars, ticket, reply, requestVars,
                   crashes>>

\* _mark_failed compares no version and writes no checkpoint.
MarkFailed(run) ==
    /\ worker[run] = "failing"
    /\ IF status[run] \in Terminal
       THEN UNCHANGED <<status, version>>
       ELSE /\ status' = [status EXCEPT ![run] = "failed"]
            /\ BumpVersion(run)
    /\ worker' = [worker EXCEPT ![run] = "apology"]
    /\ UNCHANGED <<checkpoint, tokenVars, effectVars, ticket, reply, requestVars,
                   crashes>>

\* It then publishes a failed response whatever the update matched.
PublishFailure(run) ==
    /\ worker[run] = "apology"
    /\ Announce(run, "failed")
    /\ worker' = [worker EXCEPT ![run] = "stamp"]
    /\ UNCHANGED <<runVars, tokenVars, effectVars, ticket, requestVars, crashes>>

StampFailure(run) ==
    /\ worker[run] = "stamp"
    /\ BumpVersion(run)
    /\ worker' = [worker EXCEPT ![run] = "done"]
    /\ UNCHANGED <<status, checkpoint, tokenVars, effectVars, ticket, reply,
                   requestVars, crashes>>

-------------------------------------------------------------------------------
(***************************************************************************)
(* The start of a request                                                  *)
(***************************************************************************)

\* Confirm, reject and refresh are refused unless the run row says it waits
\* for confirmation; a refusal here leaves no trace and is not a step.
Begin(r, j) ==
    /\ pc[r] = "idle"
    /\ j.kind \in {"confirm", "reject", "refresh"} =>
           status[j.run] = "waiting_confirmation"
    /\ j.kind \in {"confirm", "reject"} => j.ref \in disclosed
    /\ j.kind = "resolve" =>
           /\ j.ref \in Requests
           /\ ticket[j.ref] = "open"
           /\ On(j.ref, j.run)
    /\ j.kind \in {"refresh", "cancel"} => j.ref = "none"
    /\ j.kind = "confirm" <=> j.key # "none"
    /\ job' = [job EXCEPT ![r] = j]
    /\ Goto(r, "load")
    /\ UNCHANGED <<runVars, tokenVars, effectVars, ticket, reply, worker, ctx,
                   seen, crashes>>

AfterLoad == [confirm |-> "token", reject |-> "token", refresh |-> "newest",
              cancel |-> "invalidate", resolve |-> "resolve"]

\* The statuses of the checkpoint with which a handler goes on; confirm and
\* reject look at the run row only, which they read before the checkpoint.
Resumable(kind) ==
    CASE kind \in {"refresh", "cancel"} -> {"waiting_confirmation"}
      [] kind = "resolve" -> {"waiting_human"}
      [] OTHER -> RunStatus

\* _checkpoint_context and the status test that follows it.
LoadContext(r) ==
    LET run == job[r].run
        kind == job[r].kind
    IN  /\ pc[r] = "load"
        /\ IF Unreadable(run) \/ checkpoint[run].status \notin Resumable(kind)
           THEN Goto(r, "refused") /\ UNCHANGED ctx
           ELSE /\ ctx' = [ctx EXCEPT ![r] = checkpoint[run]]
                /\ Goto(r, AfterLoad[kind])
        /\ UNCHANGED <<runVars, tokenVars, effectVars, ticket, reply, worker, job,
                       seen, crashes>>

\* load_for_run with the presented token; expiry is not looked at here.
LoadToken(r) ==
    LET t == job[r].ref
    IN  /\ pc[r] = "token"
        /\ IF TokenRun(t) # job[r].run \/ token[t] # "waiting"
           THEN Goto(r, "refused")
           ELSE Goto(r, IF job[r].kind = "confirm" THEN "lookup" ELSE "reject")
        /\ UNCHANGED <<runVars, tokenVars, effectVars, ticket, reply, worker, job,
                       ctx, seen, crashes>>

-------------------------------------------------------------------------------
(***************************************************************************)
(* confirm_mutation                                                        *)
(***************************************************************************)

\* Records the unique index (tenant, operation, key) puts beside r's.
SameKey(r) ==
    {q \in Requests : record[q] # "absent" /\ job[q].key = job[r].key}

\* _match_existing: another fingerprint is a conflict, the same one a replay
\* that returns the context as it was, for the handler to publish.
Reused(r) ==
    Goto(r, IF \E q \in SameKey(r) :
                   Fingerprint[job[q].run] # Fingerprint[job[r].run]
            THEN "refused" ELSE "publish")

LookupKey(r) ==
    /\ pc[r] = "lookup"
    /\ IF SameKey(r) = {} THEN Goto(r, "consume") ELSE Reused(r)
    /\ UNCHANGED <<runVars, tokenVars, effectVars, ticket, reply, worker, job,
                   ctx, seen, crashes>>

Usable(t) == token[t] = "waiting" /\ t \notin lapsed

MutConsumeAndReserve(r) ==
    LET t == job[r].ref
    IN  /\ pc[r] = "consume"
        /\ IF Usable(t)
           THEN /\ token' = [token EXCEPT ![t] = "consumed"]
                /\ IF SameKey(r) = {}
                   THEN /\ record' = [record EXCEPT ![r] = "reserved"]
                        /\ Goto(r, "committing")
                   ELSE Reused(r) /\ UNCHANGED record
           ELSE Goto(r, "refused") /\ UNCHANGED <<token, record>>
        /\ UNCHANGED <<runVars, newest, lapsed, disclosed, calls, applied, ticket,
                       reply, worker, job, ctx, seen, crashes>>

\* One transaction consumes the token and inserts the reservation; a violated
\* unique index rolls the consumption back.
ConsumeAndReserve(r) ==
    LET t == job[r].ref
    IN  /\ pc[r] = "consume"
        /\ \/ /\ ~Usable(t)
              /\ Goto(r, "refused")
              /\ UNCHANGED <<token, record>>
           \/ /\ Usable(t)
              /\ SameKey(r) # {}
              /\ Reused(r)
              /\ UNCHANGED <<token, record>>
           \/ /\ Usable(t)
              /\ SameKey(r) = {}
              /\ token' = [token EXCEPT ![t] = "consumed"]
              /\ record' = [record EXCEPT ![r] = "reserved"]
              /\ Goto(r, "committing")
        /\ UNCHANGED <<runVars, newest, lapsed, disclosed, calls, applied, ticket,
                       reply, worker, job, ctx, seen, crashes>>

StartCommit(r) ==
    /\ pc[r] = "committing"
    /\ \/ /\ Fresh(r)
          /\ CommitStep(job[r].run, ctx[r], "committing")
          /\ Goto(r, "reread")
       \/ /\ ~Fresh(r)
          /\ Goto(r, "error")
          /\ UNCHANGED runVars
    /\ UNCHANGED <<tokenVars, effectVars, ticket, reply, worker, job, ctx, seen,
                   crashes>>

\* commit_step returns the row it loads after its transaction has ended, so
\* the version the handler carries on with may include a later update.
RereadVersion(r) ==
    /\ pc[r] = "reread"
    /\ ctx' = [ctx EXCEPT ![r] =
           [status |-> "committing", version |-> version[job[r].run],
            steps |-> @.steps + 1]]
    /\ Goto(r, "claim")
    /\ UNCHANGED <<runVars, tokenVars, effectVars, ticket, reply, worker, job,
                   seen, crashes>>

\* claim: reserved becomes in_progress once, before the external call.
Claim(r) ==
    /\ pc[r] = "claim"
    /\ record[r] = "reserved"
    /\ record' = [record EXCEPT ![r] = "in_progress"]
    /\ Goto(r, "call")
    /\ UNCHANGED <<runVars, tokenVars, calls, applied, ticket, reply, worker, job,
                   ctx, seen, crashes>>

\* What the business system may answer; an exception of the adapter is an
\* unknown answer.
Answers == {"succeeded", "rejected", "unknown"}

\* _completion: the adapter's vocabulary is not the record's.
Completion(answer) == IF answer = "rejected" THEN "failed" ELSE answer

MutCallAdapter(r) ==
    /\ pc[r] = "call"
    /\ calls' = [calls EXCEPT ![r] = @ + 1]
    /\ \E answer \in Answers :
           /\ seen' = [seen EXCEPT ![r] = Completion(answer)]
           /\ applied' \in {applied, applied \cup {r}}
           /\ Goto(r, IF answer = "unknown" /\ calls[r] < 2 THEN "call" ELSE "observe")
    /\ UNCHANGED <<runVars, tokenVars, record, ticket, reply, worker, job, ctx,
                   crashes>>

\* Only a rejection is known to have changed nothing: an unknown answer may
\* hide a change, and "succeeded" without one is what verification is for.
CallAdapter(r) ==
    /\ pc[r] = "call"
    /\ calls' = [calls EXCEPT ![r] = @ + 1]
    /\ \E answer \in Answers :
           /\ seen' = [seen EXCEPT ![r] = Completion(answer)]
           /\ applied' \in {applied} \cup
                  (IF answer = "rejected" THEN {} ELSE {applied \cup {r}})
    /\ Goto(r, "observe")
    /\ UNCHANGED <<runVars, tokenVars, record, ticket, reply, worker, job, ctx,
                   crashes>>

\* checkpoint_mutation: the outcome of the record and the checkpoint change in
\* one transaction or not at all.
ObserveCommit(r) ==
    /\ pc[r] = "observe"
    /\ \/ /\ Fresh(r)
          /\ record[r] = "in_progress"
          /\ record' = [record EXCEPT ![r] = seen[r]]
          /\ CommitStep(job[r].run, ctx[r],
                        IF seen[r] = "failed" THEN "failed" ELSE "verifying")
          /\ Goto(r, "verdict")
       \/ /\ ~Fresh(r)
          /\ Goto(r, "error")
          /\ UNCHANGED <<runVars, record>>
    /\ UNCHANGED <<tokenVars, calls, applied, ticket, reply, worker, job, ctx,
                   seen, crashes>>

MutVerdict(r) ==
    /\ pc[r] = "verdict"
    /\ Goto(r, CASE seen[r] = "succeeded" -> "verify"
                 [] seen[r] = "unknown" -> "publish"
                 [] OTHER -> "finish")
    /\ ctx' = [ctx EXCEPT ![r].version = version[job[r].run]]
    /\ UNCHANGED <<runVars, tokenVars, effectVars, ticket, reply, worker, job,
                   seen, crashes>>

\* The handler carries the version it reads after the transaction; only the
\* success branch also counts the step.
Verdict(r) ==
    /\ pc[r] = "verdict"
    /\ ctx' = [ctx EXCEPT ![r] =
           [status |-> "verifying", version |-> version[job[r].run],
            steps |-> IF seen[r] = "succeeded" THEN @.steps + 1 ELSE @.steps]]
    /\ Goto(r, CASE seen[r] = "succeeded" -> "verify"
                 [] seen[r] = "unknown" -> "handoff"
                 [] OTHER -> "finish")
    /\ UNCHANGED <<runVars, tokenVars, effectVars, ticket, reply, worker, job,
                   seen, crashes>>

MutVerify(r) ==
    /\ pc[r] = "verify"
    /\ Goto(r, "finish")
    /\ UNCHANGED <<runVars, tokenVars, effectVars, ticket, reply, worker, job,
                   ctx, seen, crashes>>

\* system.verify reads the business state back under the record's key.
Verify(r) ==
    /\ pc[r] = "verify"
    /\ seen' = [seen EXCEPT ![r] = IF r \in applied THEN @ ELSE "mismatch"]
    /\ Goto(r, IF r \in applied THEN "finish" ELSE "handoff")
    /\ UNCHANGED <<runVars, tokenVars, effectVars, ticket, reply, worker, job,
                   ctx, crashes>>

MutOpenTicket(r) ==
    /\ pc[r] = "handoff"
    /\ ticket' = [ticket EXCEPT ![r] = IF seen[r] = "unknown" THEN "open" ELSE @]
    /\ Goto(r, "finish")
    /\ UNCHANGED <<runVars, tokenVars, effectVars, reply, worker, job, ctx, seen,
                   crashes>>

\* _create_handoff commits its ticket before the checkpoint that needs it.
OpenTicket(r) ==
    /\ pc[r] = "handoff"
    /\ ticket' = [ticket EXCEPT ![r] = "open"]
    /\ Goto(r, "finish")
    /\ UNCHANGED <<runVars, tokenVars, effectVars, reply, worker, job, ctx, seen,
                   crashes>>

\* Where the last checkpoint of a confirmation takes the run.
FinalStatus(r) ==
    CASE seen[r] = "failed" -> "failed"
      [] seen[r] = "succeeded" -> "completed"
      [] OTHER -> "waiting_human"

\* A checkpoint that ends the handler's work, and the context it returns.
LastCommit(r, next, step) ==
    \/ /\ Fresh(r)
       /\ CommitStep(job[r].run, ctx[r], next)
       /\ ctx' = [ctx EXCEPT ![r].status = next]
       /\ Goto(r, step)
    \/ /\ ~Fresh(r)
       /\ Goto(r, "error")
       /\ UNCHANGED <<runVars, ctx>>

MutFinish(r) ==
    /\ pc[r] = "finish"
    /\ IF Fresh(r) THEN CommitStep(job[r].run, ctx[r], FinalStatus(r))
                   ELSE UNCHANGED runVars
    /\ ctx' = [ctx EXCEPT ![r].status = FinalStatus(r)]
    /\ Goto(r, "publish")
    /\ UNCHANGED <<tokenVars, effectVars, ticket, reply, worker, job, seen,
                   crashes>>

Finish(r) ==
    /\ pc[r] = "finish"
    /\ LastCommit(r, FinalStatus(r), "publish")
    /\ UNCHANGED <<tokenVars, effectVars, ticket, reply, worker, job, seen,
                   crashes>>

-------------------------------------------------------------------------------
(***************************************************************************)
(* reject_mutation and cancel_run                                          *)
(***************************************************************************)

RejectToken(r) ==
    LET t == job[r].ref
    IN  /\ pc[r] = "reject"
        /\ \/ /\ Usable(t)
              /\ token' = [token EXCEPT ![t] = "rejected"]
              /\ Goto(r, "withdraw")
           \/ /\ ~Usable(t)
              /\ Goto(r, "error")
              /\ UNCHANGED token
        /\ UNCHANGED <<runVars, newest, lapsed, disclosed, effectVars, ticket,
                       reply, worker, job, ctx, seen, crashes>>

MutInvalidateTokens(r) ==
    /\ pc[r] = "invalidate"
    /\ Goto(r, "withdraw")
    /\ UNCHANGED <<runVars, tokenVars, effectVars, ticket, reply, worker, job,
                   ctx, seen, crashes>>

\* invalidate_waiting closes every waiting token of the run, lapsed or not;
\* cancel_run goes on when it raises.
InvalidateTokens(r) ==
    LET closed == [t \in Tokens |->
                      IF TokenRun(t) = job[r].run /\ token[t] = "waiting"
                      THEN "invalidated" ELSE token[t]]
    IN  /\ pc[r] = "invalidate"
        /\ token' \in {closed} \cup
                      (IF "invalidate" \in Faults THEN {token} ELSE {})
        /\ Goto(r, "withdraw")
        /\ UNCHANGED <<runVars, newest, lapsed, disclosed, effectVars, ticket,
                       reply, worker, job, ctx, seen, crashes>>

Withdraw(r) ==
    /\ pc[r] = "withdraw"
    /\ LastCommit(r, "cancelled",
                  IF job[r].kind = "cancel" THEN "reason" ELSE "publish")
    /\ UNCHANGED <<tokenVars, effectVars, ticket, reply, worker, job, seen,
                   crashes>>

-------------------------------------------------------------------------------
(***************************************************************************)
(* refresh_mutation_token                                                  *)
(***************************************************************************)

\* load_for_run without a hash returns the token created last.
LoadNewest(r) ==
    /\ pc[r] = "newest"
    /\ Goto(r, IF token[newest[job[r].run]] = "waiting" THEN "rotate"
                                                       ELSE "refused")
    /\ UNCHANGED <<runVars, tokenVars, effectVars, ticket, reply, worker, job,
                   ctx, seen, crashes>>

\* The tokens the UPDATE of rotate_waiting matches.
Rotatable(run) == {t \in Tokens : TokenRun(t) = run /\ Usable(t)}

MutRotateUnchecked(r) ==
    LET run == job[r].run
    IN  /\ pc[r] = "rotate"
        /\ token' = [t \in Tokens |-> CASE t = r -> "waiting"
                                        [] t \in Rotatable(run) -> "invalidated"
                                        [] OTHER -> token[t]]
        /\ newest' = [newest EXCEPT ![run] = r]
        /\ Goto(r, "reissue")
        /\ UNCHANGED <<runVars, lapsed, disclosed, effectVars, ticket, reply,
                       worker, job, ctx, seen, crashes>>

\* One transaction closes the one usable token and inserts its successor; a
\* row count other than one raises, and the endpoint does not catch it.
Rotate(r) ==
    LET run == job[r].run
    IN  /\ pc[r] = "rotate"
        /\ \/ \E t \in Tokens :
                 /\ Rotatable(run) = {t}
                 /\ token' = [token EXCEPT ![t] = "invalidated", ![r] = "waiting"]
                 /\ newest' = [newest EXCEPT ![run] = r]
                 /\ Goto(r, "reissue")
           \/ /\ \A t \in Tokens : Rotatable(run) # {t}
              /\ Goto(r, "error")
              /\ UNCHANGED <<token, newest>>
        /\ UNCHANGED <<runVars, lapsed, disclosed, effectVars, ticket, reply,
                       worker, job, ctx, seen, crashes>>

\* The client gets the plaintext only when the checkpoint succeeds as well.
Reissue(r) ==
    /\ pc[r] = "reissue"
    /\ LastCommit(r, "waiting_confirmation", "done")
    /\ disclosed' = IF Fresh(r) THEN disclosed \cup {r} ELSE disclosed
    /\ UNCHANGED <<token, newest, lapsed, effectVars, ticket, reply, worker, job,
                   seen, crashes>>

-------------------------------------------------------------------------------
(***************************************************************************)
(* resolve_handoff, and the terminal response of every handler             *)
(***************************************************************************)

ResolveCheckpoint(r) ==
    /\ pc[r] = "resolve"
    /\ \E target \in {"completed", "failed"} : LastCommit(r, target, "settle")
    /\ UNCHANGED <<tokenVars, effectVars, ticket, reply, worker, job, seen,
                   crashes>>

\* The compare on the run row has already excluded a second resolution.
ResolveTicket(r) ==
    LET k == job[r].ref
    IN  /\ pc[r] = "settle"
        /\ ticket' = [ticket EXCEPT ![k] = "resolved"]
        /\ Goto(r, IF ticket[k] = "open" THEN "publish" ELSE "refused")
        /\ UNCHANGED <<runVars, tokenVars, effectVars, reply, worker, job, ctx,
                       seen, crashes>>

MutPublish(r) ==
    /\ pc[r] = "publish"
    /\ IF ctx[r].status = "completed" THEN Announce(job[r].run, ctx[r].status)
                                      ELSE UNCHANGED reply
    /\ Goto(r, IF ctx[r].status \in Terminal \ {"completed"} THEN "stamp"
                                                              ELSE "done")
    /\ UNCHANGED <<runVars, tokenVars, effectVars, ticket, worker, job, ctx, seen,
                   crashes>>

\* publish_terminal_response: a waiting status is a prompt and leaves no
\* trace here; every terminal status but completed comes with a reason.
Publish(r) ==
    /\ pc[r] = "publish"
    /\ IF ctx[r].status \in Terminal THEN Announce(job[r].run, ctx[r].status)
                                     ELSE UNCHANGED reply
    /\ Goto(r, IF ctx[r].status \in Terminal \ {"completed"} THEN "stamp"
                                                              ELSE "done")
    /\ UNCHANGED <<runVars, tokenVars, effectVars, ticket, worker, job, ctx, seen,
                   crashes>>

\* set_terminal_reason; cancel_run calls it before the response as well.
SetReason(r) ==
    /\ pc[r] \in {"reason", "stamp"}
    /\ BumpVersion(job[r].run)
    /\ Goto(r, IF pc[r] = "reason" THEN "publish" ELSE "done")
    /\ UNCHANGED <<status, checkpoint, tokenVars, effectVars, ticket, reply,
                   worker, job, ctx, seen, crashes>>

-------------------------------------------------------------------------------
(***************************************************************************)
(* Time, crashes and the startup hook                                      *)
(***************************************************************************)

\* expires_at passes.  Nothing moves the row to `expired': expire_waiting has
\* no caller.
Lapse(t) ==
    /\ token[t] = "waiting"
    /\ t \notin lapsed
    /\ lapsed' = lapsed \cup {t}
    /\ UNCHANGED <<runVars, token, newest, disclosed, effectVars, ticket, reply,
                   worker, requestVars, crashes>>

\* The process dies and recover_active_runs runs before it serves again: runs
\* past their deadline expire, the other running ones are submitted again and
\* fail (a run is routed once), and terminal runs without a reply get one.
CrashRestart ==
    /\ crashes < MaxCrashes
    /\ crashes' = crashes + 1
    /\ pc' = [r \in Requests |-> IF pc[r] \in Serving THEN "crashed" ELSE pc[r]]
    /\ \E late \in SUBSET {run \in Runs : status[run] = "running_workflow"} :
           /\ status' = [run \in Runs |->
                  IF run \in late THEN "expired" ELSE status[run]]
           /\ version' = [run \in Runs |->
                  IF run \in late THEN version[run] + 1 ELSE version[run]]
    /\ worker' = [run \in Runs |->
           IF status'[run] = "running_workflow" THEN "failing" ELSE "done"]
    /\ reply' = [run \in Runs |->
           IF /\ reply[run] = "none"
              /\ status'[run] \in Terminal
              /\ checkpoint[run].steps <= StepLimit
           THEN status'[run] ELSE reply[run]]
    /\ UNCHANGED <<checkpoint, tokenVars, effectVars, ticket, job, ctx, seen>>

-------------------------------------------------------------------------------
Work(run) ==
    \/ IssueToken(run)
    \/ PrepareMutation(run)
    \/ PublishPrompt(run)
    \/ WorkerRaises(run)
    \/ MarkFailed(run)
    \/ PublishFailure(run)
    \/ StampFailure(run)

Advance(r) ==
    \/ LoadContext(r)
    \/ LoadToken(r)
    \/ LookupKey(r)
    \/ ConsumeAndReserve(r)
    \/ StartCommit(r)
    \/ RereadVersion(r)
    \/ Claim(r)
    \/ CallAdapter(r)
    \/ ObserveCommit(r)
    \/ Verdict(r)
    \/ Verify(r)
    \/ OpenTicket(r)
    \/ Finish(r)
    \/ RejectToken(r)
    \/ InvalidateTokens(r)
    \/ Withdraw(r)
    \/ LoadNewest(r)
    \/ Rotate(r)
    \/ Reissue(r)
    \/ ResolveCheckpoint(r)
    \/ ResolveTicket(r)
    \/ Publish(r)
    \/ SetReason(r)

Next ==
    \/ \E run \in Runs : Work(run)
    \/ \E r \in Requests, j \in Job : Begin(r, j)
    \/ \E r \in Requests : Advance(r)
    \/ \E t \in Tokens : Lapse(t)
    \/ CrashRestart

Spec == Init /\ [][Next]_vars

\* A request being served and a worker's job keep running while the process
\* lives.  Clients need not call, tokens need not lapse, nothing need crash.
FairSpec ==
    /\ Spec
    /\ \A r \in Requests : WF_vars(Advance(r))
    /\ \A run \in Runs : WF_vars(Work(run))

-------------------------------------------------------------------------------
(***************************************************************************)
(* Properties                                                              *)
(***************************************************************************)

Holders(run) == {r \in Requests : record[r] # "absent" /\ On(r, run)}

\* However many confirmations, refreshes, retries of a key, crashes and
\* cancellations race on a run, confirm_mutation asks the business system for
\* its change at most once.
AtMostOneCall ==
    \A q, r \in Requests :
        calls[q] > 0 /\ calls[r] > 0 /\ job[q].run = job[r].run =>
            q = r /\ calls[r] = 1

\* A run whose row says cancelled (the user was told that nothing changed) has
\* never been sent to the business system.
CancelledMeansUntouched ==
    \A r \in Requests : calls[r] > 0 => status[job[r].run] # "cancelled"

\* A cancelled run stays cancelled: no confirmation that began before the
\* cancellation takes it any further, whichever way their steps interleave.
CancelledStays ==
    [][\A run \in Runs :
          status[run] = "cancelled" => status'[run] = "cancelled"]_vars

\* A completed run has its change in the business system, as read back by
\* verify, or a person closed its ticket.
CompletedMeansApplied ==
    \A run \in Runs : status[run] = "completed" =>
        \E r \in Holders(run) : r \in applied \/ ticket[r] # "absent"

\* A run in waiting_human always has an open ticket of its own, so the review
\* window has something to resolve; the two are written by two transactions,
\* in opposite order on the way in and on the way out.
WaitingHumanHasTicket ==
    \A run \in Runs : status[run] = "waiting_human" =>
        \E r \in Holders(run) : ticket[r] = "open"

\* A run has at most one token that could still be used, and none once a
\* token of the run was exchanged for a reservation, whatever refreshes and
\* confirmations overlap.
OneLiveToken ==
    \A run \in Runs, t \in Tokens :
        token[t] = "waiting" /\ TokenRun(t) = run =>
            /\ Holders(run) = {}
            /\ \A u \in Tokens \ {t} :
                   token[u] = "waiting" => TokenRun(u) # run

\* While the process lives, a reservation is never abandoned on a run that
\* still waits for confirmation: its token is spent, so nobody else could
\* confirm the run.
ReservationNotAbandoned ==
    \A r \in Requests :
        record[r] = "reserved" /\ status[job[r].run] = "waiting_confirmation" =>
            pc[r] \in {"committing", "crashed"}

\* The one reply of a run that claims a definite result, completed or
\* cancelled, agrees with the run row from then on.
ReplyHonest ==
    \A run \in Runs :
        reply[run] \in {"completed", "cancelled"} => status[run] = reply[run]

\* A token is spent only by the request that holds a reservation for it: a
\* confirmation refused for its idempotency key leaves the token usable.
SpentMeansReserved ==
    \A t \in Tokens : token[t] = "consumed" =>
        \E r \in Requests : record[r] # "absent" /\ job[r].ref = t

\* What the path promises (module MutationContract), read off the tables.
Contract == INSTANCE MutationContract WITH
    invoked <- {job[r].run : r \in {q \in Requests : calls[q] > 0}},
    effect <- {job[r].run : r \in applied},
    escalated <- {job[r].run : r \in {q \in Requests : ticket[q] # "absent"}},
    withdrawn <- {run \in Runs : status[run] = "cancelled"},
    declared <- {run \in Runs : status[run] = "completed"}

\* The path implements its contract: each transaction and each external call
\* is a step of the contract or leaves it unchanged.
ContractHolds == Contract!Spec

\* A run does not stay in the middle of a commit: from committing or verifying
\* it gets to a terminal status or to a person.
Settles ==
    \A run \in Runs :
        status[run] \in {"committing", "verifying"} ~>
            status[run] \notin {"committing", "verifying"}

\* Every run that ends gets its terminal reply from the handler that ended it.
TerminalAnswered ==
    \A run \in Runs : status[run] \in Terminal ~> reply[run] # "none"
===============================================================================
