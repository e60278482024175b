--------------------------- MODULE RunControlProofs ---------------------------
(***************************************************************************)
(* Theorems about RunControl, for any requests, keys, contents, routes and *)
(* bounds: types, the executor of a run, low-risk writes, who owns a run,  *)
(* and what has ended.                                                     *)
(***************************************************************************)
EXTENDS RunControl, TLAPS

-------------------------------------------------------------------------------
(***************************************************************************)
(* Types                                                                   *)
(***************************************************************************)

\* What a request has found out by the time it reaches a step.
AskShape ==
    \A q \in Requests :
        /\ pc[q] \in Serving => ask[q] \in Ask
        /\ pc[q] \in {"active", "answer", "create", "append"} => ask[q].key \in Keys
        /\ pc[q] \in Serving \ {"active", "create"} => ask[q].run \in Runs
        /\ pc[q] \in {"withdraw", "reason", "decide", "settle", "publish", "stamp"} =>
               ask[q].goal \in Terminal

\* The worker announces an end only with a context that has ended.
JobShape == job.at = "publish" => job.ctx.status \in Terminal

TypeInv == TypeOK /\ AskShape /\ JobShape

USE DEF Runs

\* The starting context of a run without a checkpoint is a RunContext.
LEMMA NoCheckpointType == NoCheckpoint \in Context
  BY DEF NoCheckpoint, Context, RunStatus, Executing

\* What _commit stores is a RunContext again.
LEMMA AdvancedType ==
    ASSUME NEW ctx \in Context, NEW next \in RunStatus, NEW reason \in {"none", "stop"}
    PROVE  /\ Advanced(ctx, next, reason) \in Context
           /\ Advanced(ctx, next, reason).status = next
           /\ Advanced(ctx, next, reason).flow = ctx.flow
  BY DEF Advanced, Context

\* A job is idle or fully described.
LEMMA JobTyped ==
    ASSUME TypeInv, job.at # "idle"
    PROVE  job \in Job
  BY DEF TypeInv, TypeOK, NoJob, Job

\* The worker without a job is at no point of an execution.
LEMMA NoJobIdle == NoJob.at = "idle" /\ NoJob.run = "none" /\ NoJob.ctx = NoCheckpoint
  BY DEF NoJob

\* commit_step keeps the types of the run row.
LEMMA CommitStepTypes ==
    ASSUME TypeOK, NEW run \in Runs, NEW ctx \in Context, CommitStep(run, ctx)
    PROVE  /\ status' \in [Runs -> RunStatus \cup {"absent"}]
           /\ mode' \in [Runs -> {"none", "readonly", "workflow"}]
           /\ version' \in [Runs -> Nat]
           /\ checkpoint' \in [Runs -> Context]
  <1>1. ctx.status \in RunStatus
    BY DEF Context
  <1>2. QED
    BY <1>1 DEF CommitStep, TypeOK

\* set_terminal_reason keeps the types of the run row.
LEMMA BumpVersionTypes ==
    ASSUME TypeOK, NEW run \in Runs, BumpVersion(run)
    PROVE  /\ status' \in [Runs -> RunStatus \cup {"absent"}]
           /\ mode' \in [Runs -> {"none", "readonly", "workflow"}]
           /\ version' \in [Runs -> Nat]
           /\ checkpoint' \in [Runs -> Context]
  BY DEF BumpVersion, TypeOK

\* A new ticket keeps the ticket counts typed.
LEMMA OpenTicketTypes ==
    ASSUME TypeOK, NEW run \in Runs, OpenTicket(run)
    PROVE  open' \in [Runs -> Nat]
  BY DEF OpenTicket, TypeOK

\* A request that goes on with a well-formed description keeps its shape.
LEMMA ProceedTypes ==
    ASSUME TypeInv, NEW q \in Requests, NEW request \in Ask,
           NEW step \in Serving \cup {"over"}, Proceed(q, request, step),
           step \in {"active", "answer", "create", "append"} => request.key \in Keys,
           step \in Serving \ {"active", "create"} => request.run \in Runs,
           step \in {"withdraw", "reason", "decide", "settle", "publish", "stamp"} =>
               request.goal \in Terminal
    PROVE  /\ pc' \in [Requests -> Serving \cup {"idle", "over"}]
           /\ ask' \in [Requests -> Ask \cup {NoAsk}]
           /\ AskShape'
  <1>1. pc' \in [Requests -> Serving \cup {"idle", "over"}]
    BY DEF TypeInv, TypeOK, Proceed
  <1>2. ask' \in [Requests -> Ask \cup {NoAsk}]
    BY DEF TypeInv, TypeOK, Proceed
  <1> SUFFICES ASSUME NEW r \in Requests
               PROVE  /\ pc'[r] \in Serving => ask'[r] \in Ask
                      /\ pc'[r] \in {"active", "answer", "create", "append"} =>
                             ask'[r].key \in Keys
                      /\ pc'[r] \in Serving \ {"active", "create"} => ask'[r].run \in Runs
                      /\ pc'[r] \in {"withdraw", "reason", "decide", "settle",
                                     "publish", "stamp"} => ask'[r].goal \in Terminal
    BY <1>1, <1>2 DEF AskShape
  <1>3. CASE r = q
    <2>1. pc'[r] = step /\ ask'[r] = IF step = "over" THEN NoAsk ELSE request
      BY <1>3 DEF Proceed, TypeInv, TypeOK
    <2>2. "over" \notin Serving
      BY DEF Serving
    <2>3. CASE step = "over"
      BY <2>1, <2>2, <2>3 DEF Serving
    <2>4. CASE step # "over"
      BY <2>1, <2>4
    <2>5. QED
      BY <2>3, <2>4
  <1>4. CASE r # q
    <2>1. pc'[r] = pc[r] /\ ask'[r] = ask[r]
      BY <1>4 DEF Proceed, TypeInv, TypeOK
    <2>2. QED
      BY <2>1 DEF TypeInv, AskShape
  <1>5. QED
    BY <1>3, <1>4

\* Elements of the two sequences.
LEMMA MessageTyped ==
    ASSUME messages \in Seq(Message), NEW i \in DOMAIN messages
    PROVE  messages[i] \in Message
  OBVIOUS

\* What stays typed when a request touches nothing but its own place.
LEMMA RequestFrame ==
    ASSUME TypeInv,
           pc' \in [Requests -> Serving \cup {"idle", "over"}],
           ask' \in [Requests -> Ask \cup {NoAsk}], AskShape',
           status' \in [Runs -> RunStatus \cup {"absent"}],
           mode' \in [Runs -> {"none", "readonly", "workflow"}],
           version' \in [Runs -> Nat],
           checkpoint' \in [Runs -> Context],
           messages' \in Seq(Message), open' \in [Runs -> Nat],
           reply' \in [Runs -> Terminal \cup {"none"}], queue' \in Seq(QueuedJob),
           UNCHANGED <<record, effects, job, abandoned, faults, crashes>>
    PROVE  TypeInv'
  BY DEF TypeInv, TypeOK, JobShape

\* The arrival of a request keeps the types.
LEMMA ArrivalTypes ==
    ASSUME TypeInv, NEW q \in Requests, RequestArrives(q)
    PROVE  TypeInv'
  <1> USE DEF TypeInv, TypeOK, runVars, sideVars, workerVars
  <1>1. ASSUME NEW key \in Keys, NEW text \in Texts, Send(q, key, text)
        PROVE  TypeInv'
    <2> DEFINE request == [NoAsk EXCEPT !.kind = "send", !.key = key, !.text = text]
    <2>1. request \in Ask /\ request.key \in Keys
      BY NoCheckpointType DEF NoAsk, Ask, Endpoints, Contents
    <2>2. \E step \in {"active", "over"} : Proceed(q, request, step)
      BY <1>1 DEF Send, Start
    <2>3. /\ pc' \in [Requests -> Serving \cup {"idle", "over"}]
          /\ ask' \in [Requests -> Ask \cup {NoAsk}]
          /\ AskShape'
      <3>1. PICK step \in {"active", "over"} : Proceed(q, request, step)
        BY <2>2
      <3> HIDE DEF request
      <3>2. QED
        BY <2>1, <3>1, ProceedTypes DEF Serving
    <2>4. QED
      BY <1>1, <2>3, RequestFrame DEF Send
  <1>2. ASSUME NEW run \in Runs, NEW key \in Keys, Retry(q, run, key)
        PROVE  TypeInv'
    <2>1. PICK i \in OfRun(run) :
              Start(q, [NoAsk EXCEPT !.kind = "retry", !.key = key,
                                     !.text = messages[i].text], "create")
      BY <1>2 DEF Retry
    <2> DEFINE request == [NoAsk EXCEPT !.kind = "retry", !.key = key,
                                        !.text = messages[i].text]
    <2>2. messages[i].text \in Contents
      <3>1. messages[i] \in Message
        BY MessageTyped DEF OfRun
      <3>2. QED
        BY <3>1 DEF Message
    <2>3. request \in Ask /\ request.key \in Keys
      BY <2>2, NoCheckpointType DEF NoAsk, Ask, Endpoints
    <2>4. /\ pc' \in [Requests -> Serving \cup {"idle", "over"}]
          /\ ask' \in [Requests -> Ask \cup {NoAsk}]
          /\ AskShape'
      <3>1. Proceed(q, request, "create")
        BY <2>1 DEF Start
      <3> HIDE DEF request
      <3>2. QED
        BY <2>3, <3>1, ProceedTypes DEF Serving
    <2>5. QED
      BY <1>2, <2>4, RequestFrame DEF Retry
  <1>3. ASSUME NEW run \in Runs, Cancel(q, run)
        PROVE  TypeInv'
    <2> DEFINE request == [NoAsk EXCEPT !.kind = "cancel", !.run = run,
                              !.goal = "cancelled", !.ctx = checkpoint[run]]
    <2>1. request \in Ask /\ request.run \in Runs /\ request.goal \in Terminal
      BY <1>3 DEF NoAsk, Ask, Endpoints, Contents, Terminal
    <2>2. Proceed(q, request, "withdraw")
      BY <1>3 DEF Cancel, LoadContext, Start
    <2>3. /\ pc' \in [Requests -> Serving \cup {"idle", "over"}]
          /\ ask' \in [Requests -> Ask \cup {NoAsk}]
          /\ AskShape'
      <3> HIDE DEF request
      <3>1. QED
        BY <2>1, <2>2, ProceedTypes DEF Serving
    <2>4. QED
      BY <1>3, <2>3, RequestFrame DEF Cancel, LoadContext, Start
  <1>4. ASSUME NEW run \in Runs, NEW goal \in {"completed", "failed"},
               Resolve(q, run, goal)
        PROVE  TypeInv'
    <2> DEFINE request == [NoAsk EXCEPT !.kind = "resolve", !.run = run,
                              !.goal = goal, !.ctx = checkpoint[run]]
    <2>1. request \in Ask /\ request.run \in Runs /\ request.goal \in Terminal
      BY <1>4 DEF NoAsk, Ask, Endpoints, Contents, Terminal
    <2>2. Proceed(q, request, "decide")
      BY <1>4 DEF Resolve, LoadContext, Start
    <2>3. /\ pc' \in [Requests -> Serving \cup {"idle", "over"}]
          /\ ask' \in [Requests -> Ask \cup {NoAsk}]
          /\ AskShape'
      <3> HIDE DEF request
      <3>1. QED
        BY <2>1, <2>2, ProceedTypes DEF Serving
    <2>4. QED
      BY <1>4, <2>3, RequestFrame DEF Resolve, LoadContext, Start
  <1>5. ASSUME NEW run \in Runs, Review(q, run)
        PROVE  TypeInv'
    <2> DEFINE request == [NoAsk EXCEPT !.kind = "review", !.run = run]
    <2>1. request \in Ask /\ request.run \in Runs
      BY NoCheckpointType DEF NoAsk, Ask, Endpoints, Contents
    <2>2. Proceed(q, request, "review")
      BY <1>5 DEF Review, Start
    <2>3. /\ pc' \in [Requests -> Serving \cup {"idle", "over"}]
          /\ ask' \in [Requests -> Ask \cup {NoAsk}]
          /\ AskShape'
      <3> HIDE DEF request
      <3>1. QED
        BY <2>1, <2>2, ProceedTypes DEF Serving
    <2>4. QED
      BY <1>5, <2>3, RequestFrame DEF Review, Start
  <1>6. QED
    BY <1>1, <1>2, <1>3, <1>4, <1>5 DEF RequestArrives

\* A request that goes on with what it has keeps its shape if it has enough.
LEMMA GotoTypes ==
    ASSUME TypeInv, NEW q \in Requests, pc[q] \in Serving,
           NEW step \in Serving \cup {"over"}, Goto(q, step),
           step \in {"active", "answer", "create", "append"} => ask[q].key \in Keys,
           step \in Serving \ {"active", "create"} => ask[q].run \in Runs,
           step \in {"withdraw", "reason", "decide", "settle", "publish", "stamp"} =>
               ask[q].goal \in Terminal
    PROVE  /\ pc' \in [Requests -> Serving \cup {"idle", "over"}]
           /\ ask' \in [Requests -> Ask \cup {NoAsk}]
           /\ AskShape'
  <1>1. ask[q] \in Ask
    BY DEF TypeInv, AskShape
  <1>2. QED
    BY <1>1, ProceedTypes DEF Goto

\* append_user keeps the history typed and sends the request to a known step.
LEMMA AppendUserTypes ==
    ASSUME TypeInv, NEW q \in Requests, pc[q] \in {"answer", "append"},
           NEW known \in {"over", "submit"}, NEW conflicting \in {"over", "release"},
           AppendUser(q, known, conflicting)
    PROVE  /\ pc' \in [Requests -> Serving \cup {"idle", "over"}]
           /\ ask' \in [Requests -> Ask \cup {NoAsk}]
           /\ AskShape'
           /\ messages' \in Seq(Message)
  <1>1. ask[q] \in Ask /\ ask[q].key \in Keys /\ ask[q].run \in Runs
    BY DEF TypeInv, AskShape, Serving
  <1>2. PICK step \in {"over", "submit", "release"} : Goto(q, step)
    BY DEF AppendUser
  <1>3. messages' \in Seq(Message)
    <2> DEFINE m == [key |-> ask[q].key, run |-> ask[q].run, text |-> ask[q].text]
    <2>1. m \in Message
      BY <1>1 DEF Message, Ask
    <2>2. messages' = messages \/ messages' = Append(messages, m)
      BY DEF AppendUser
    <2>3. messages \in Seq(Message)
      BY DEF TypeInv, TypeOK
    <2> HIDE DEF m
    <2>4. Append(messages, m) \in Seq(Message)
      BY <2>1, <2>3
    <2>5. QED
      BY <2>2, <2>3, <2>4
  <1>4. QED
    BY <1>1, <1>2, <1>3, GotoTypes DEF Serving

\* Every step of a request keeps the types.
LEMMA RequestTypes ==
    ASSUME TypeInv, NEW q \in Requests, RequestStep(q)
    PROVE  TypeInv'
  <1> USE DEF TypeInv, TypeOK, runVars, sideVars, workerVars
  <1>1. CASE FindActive(q)
    <2>1. ask[q] \in Ask /\ ask[q].key \in Keys
      BY <1>1 DEF FindActive, AskShape, Serving
    <2>2. CASE \E run \in Runs : Proceed(q, [ask[q] EXCEPT !.run = run], "answer")
      <3>1. PICK run \in Runs : Proceed(q, [ask[q] EXCEPT !.run = run], "answer")
        BY <2>2
      <3> DEFINE request == [ask[q] EXCEPT !.run = run]
      <3>2. request \in Ask /\ request.key \in Keys /\ request.run \in Runs
        BY <2>1 DEF Ask
      <3>3. Proceed(q, request, "answer")
        BY <3>1
      <3> HIDE DEF request
      <3>4. /\ pc' \in [Requests -> Serving \cup {"idle", "over"}]
            /\ ask' \in [Requests -> Ask \cup {NoAsk}]
            /\ AskShape'
        BY <3>2, <3>3, ProceedTypes DEF Serving
      <3>5. QED
        BY <1>1, <3>4, RequestFrame DEF FindActive
    <2>3. CASE Goto(q, "create")
      <3>1. /\ pc' \in [Requests -> Serving \cup {"idle", "over"}]
            /\ ask' \in [Requests -> Ask \cup {NoAsk}]
            /\ AskShape'
        BY <1>1, <2>1, <2>3, GotoTypes DEF Serving, FindActive
      <3>2. QED
        BY <1>1, <3>1, RequestFrame DEF FindActive
    <2>4. QED
      BY <1>1, <2>2, <2>3 DEF FindActive
  <1>2. CASE AppendAnswer(q)
    <2>1. /\ pc' \in [Requests -> Serving \cup {"idle", "over"}]
          /\ ask' \in [Requests -> Ask \cup {NoAsk}]
          /\ AskShape'
          /\ messages' \in Seq(Message)
      BY <1>2, AppendUserTypes DEF AppendAnswer
    <2>2. QED
      BY <1>2, <2>1, RequestFrame DEF AppendAnswer
  <1>3. CASE CreateRun(q)
    <2>1. ask[q] \in Ask /\ ask[q].key \in Keys
      BY <1>3 DEF CreateRun, AskShape, Serving
    <2> DEFINE request == [ask[q] EXCEPT !.run = q]
    <2>2. request \in Ask /\ request.key \in Keys /\ request.run \in Runs
      BY <2>1 DEF Ask
    <2>3. Proceed(q, request, "append") \/ Goto(q, "over")
      BY <1>3 DEF CreateRun
    <2>4. status' \in [Runs -> RunStatus \cup {"absent"}]
      BY <1>3, Zenon DEF CreateRun, RunStatus, Executing
    <2> HIDE DEF request
    <2>5. /\ pc' \in [Requests -> Serving \cup {"idle", "over"}]
          /\ ask' \in [Requests -> Ask \cup {NoAsk}]
          /\ AskShape'
      <3>1. CASE Proceed(q, request, "append")
        BY <2>2, <3>1, ProceedTypes DEF Serving
      <3>2. CASE Goto(q, "over")
        BY <1>3, <3>2, GotoTypes DEF Serving, CreateRun
      <3>3. QED
        BY <2>3, <3>1, <3>2
    <2>6. QED
      BY <1>3, <2>4, <2>5, RequestFrame DEF CreateRun
  <1>4. CASE AppendFirst(q)
    <2>1. /\ pc' \in [Requests -> Serving \cup {"idle", "over"}]
          /\ ask' \in [Requests -> Ask \cup {NoAsk}]
          /\ AskShape'
          /\ messages' \in Seq(Message)
      BY <1>4, AppendUserTypes DEF AppendFirst
    <2>2. QED
      BY <1>4, <2>1, RequestFrame DEF AppendFirst
  <1>5. CASE ReleaseRun(q)
    <2>1. /\ pc' \in [Requests -> Serving \cup {"idle", "over"}]
          /\ ask' \in [Requests -> Ask \cup {NoAsk}]
          /\ AskShape'
      BY <1>5, GotoTypes DEF Serving, ReleaseRun
    <2>2. status' \in [Runs -> RunStatus \cup {"absent"}]
      BY <1>5 DEF ReleaseRun, RunStatus, Terminal
    <2>3. QED
      BY <1>5, <2>1, <2>2, RequestFrame DEF ReleaseRun
  <1>6. CASE Submit(q)
    <2>1. /\ pc' \in [Requests -> Serving \cup {"idle", "over"}]
          /\ ask' \in [Requests -> Ask \cup {NoAsk}]
          /\ AskShape'
      BY <1>6, GotoTypes DEF Serving, Submit
    <2>2. [run |-> ask[q].run, text |-> ask[q].text] \in QueuedJob
      BY <1>6 DEF Submit, AskShape, Serving, Ask, QueuedJob
    <2>3. QED
      <3>1. queue' \in Seq(QueuedJob)
        BY <1>6, <2>2 DEF Submit
      <3>2. UNCHANGED <<status, mode, version, checkpoint, messages, open, reply, record,
                        effects, job, abandoned, faults, crashes>>
        BY <1>6 DEF Submit
      <3>3. QED
        BY <2>1, <3>1, <3>2, RequestFrame, Zenon
  <1>7. CASE Withdraw(q) \/ Decide(q)
    <2>1. PICK step \in {"withdraw", "decide"}, next \in {"reason", "settle"} :
              EndRun(q, step, next)
      BY <1>7 DEF Withdraw, Decide
    <2>2. /\ ask[q] \in Ask /\ ask[q].run \in Runs /\ ask[q].goal \in Terminal
          /\ pc[q] \in Serving
      BY <2>1 DEF EndRun, AskShape, Serving
    <2>3. /\ pc' \in [Requests -> Serving \cup {"idle", "over"}]
          /\ ask' \in [Requests -> Ask \cup {NoAsk}]
          /\ AskShape'
      <3>1. Goto(q, next) \/ Goto(q, "over")
        BY <2>1 DEF EndRun
      <3>2. QED
        BY <2>2, <3>1, GotoTypes DEF Serving
    <2>4. /\ status' \in [Runs -> RunStatus \cup {"absent"}]
          /\ mode' \in [Runs -> {"none", "readonly", "workflow"}]
          /\ version' \in [Runs -> Nat]
          /\ checkpoint' \in [Runs -> Context]
      <3> DEFINE ctx == Advanced(ask[q].ctx, ask[q].goal, ask[q].ctx.reason)
      <3>1. ctx \in Context
        BY <2>2, AdvancedType, Zenon DEF Ask, Context, RunStatus
      <3>2. CommitStep(ask[q].run, ctx) \/ UNCHANGED runVars
        BY <2>1 DEF EndRun
      <3> HIDE DEF ctx
      <3>3. QED
        BY <2>2, <3>1, <3>2, CommitStepTypes
    <2>5. QED
      BY <2>1, <2>3, <2>4, RequestFrame DEF EndRun
  <1>8. CASE StampCancel(q) \/ StampEnd(q)
    <2>1. ask[q].run \in Runs /\ ask[q].goal \in Terminal /\ pc[q] \in Serving
      BY <1>8 DEF StampCancel, StampEnd, AskShape, Serving
    <2>2. Goto(q, "publish") \/ Goto(q, "over")
      BY <1>8 DEF StampCancel, StampEnd
    <2>3. /\ pc' \in [Requests -> Serving \cup {"idle", "over"}]
          /\ ask' \in [Requests -> Ask \cup {NoAsk}]
          /\ AskShape'
      BY <2>1, <2>2, GotoTypes DEF Serving
    <2>4. BumpVersion(ask[q].run)
      BY <1>8 DEF StampCancel, StampEnd
    <2>5. QED
      <3>1. version' \in [Runs -> Nat]
        BY <2>1, <2>4, BumpVersionTypes
      <3>2. UNCHANGED <<status, mode, checkpoint, messages, open, reply, queue, record,
                        effects, job, abandoned, faults, crashes>>
        BY <1>8, <2>4 DEF StampCancel, StampEnd, BumpVersion
      <3>3. QED
        BY <2>3, <3>1, <3>2, RequestFrame, Zenon
  <1>9. CASE SettleTicket(q)
    <2>1. ask[q].run \in Runs /\ ask[q].goal \in Terminal /\ pc[q] \in Serving
      BY <1>9 DEF SettleTicket, AskShape, Serving
    <2>2. Goto(q, "publish") \/ Goto(q, "over")
      BY <1>9 DEF SettleTicket
    <2>3. /\ pc' \in [Requests -> Serving \cup {"idle", "over"}]
          /\ ask' \in [Requests -> Ask \cup {NoAsk}]
          /\ AskShape'
      BY <2>1, <2>2, GotoTypes DEF Serving
    <2>4. open' \in [Runs -> Nat]
      <3>1. CASE open[ask[q].run] > 0
        <4>1. open' = [open EXCEPT ![ask[q].run] = open[ask[q].run] - 1]
          BY <1>9, <3>1 DEF SettleTicket
        <4>2. open[ask[q].run] - 1 \in Nat
          BY <2>1, <3>1
        <4>3. QED
          BY <4>1, <4>2
      <3>2. CASE ~(open[ask[q].run] > 0)
        BY <1>9, <3>2 DEF SettleTicket
      <3>3. QED
        BY <3>1, <3>2
    <2>5. QED
      BY <1>9, <2>3, <2>4, RequestFrame DEF SettleTicket
  <1>10. CASE OpenReview(q)
    <2>1. ask[q].run \in Runs /\ pc[q] \in Serving
      BY <1>10 DEF OpenReview, AskShape, Serving
    <2>2. /\ pc' \in [Requests -> Serving \cup {"idle", "over"}]
          /\ ask' \in [Requests -> Ask \cup {NoAsk}]
          /\ AskShape'
      BY <1>10, <2>1, GotoTypes DEF Serving, OpenReview
    <2>3. open' \in [Runs -> Nat]
      <3>1. OpenTicket(ask[q].run) \/ UNCHANGED open
        BY <1>10 DEF OpenReview
      <3>2. QED
        BY <2>1, <3>1, OpenTicketTypes
    <2>4. QED
      BY <1>10, <2>2, <2>3, RequestFrame DEF OpenReview
  <1>11. CASE PublishEnd(q)
    <2>1. ask[q].run \in Runs /\ ask[q].goal \in Terminal /\ pc[q] \in Serving
      BY <1>11 DEF PublishEnd, AskShape, Serving
    <2>2. Goto(q, "stamp") \/ Goto(q, "over")
      BY <1>11 DEF PublishEnd
    <2>3. /\ pc' \in [Requests -> Serving \cup {"idle", "over"}]
          /\ ask' \in [Requests -> Ask \cup {NoAsk}]
          /\ AskShape'
      BY <2>1, <2>2, GotoTypes DEF Serving
    <2>4. reply' \in [Runs -> Terminal \cup {"none"}]
      BY <1>11, <2>1 DEF PublishEnd, Announce
    <2>5. QED
      BY <1>11, <2>3, <2>4, RequestFrame DEF PublishEnd
  <1>12. QED
    BY <1>1, <1>2, <1>3, <1>4, <1>5, <1>6, <1>7, <1>8, <1>9, <1>10, <1>11
       DEF RequestStep

\* What stays typed when the worker takes a step.
LEMMA WorkerFrame ==
    ASSUME TypeInv, job' \in Job \cup {NoJob}, JobShape',
           status' \in [Runs -> RunStatus \cup {"absent"}],
           mode' \in [Runs -> {"none", "readonly", "workflow"}],
           version' \in [Runs -> Nat],
           checkpoint' \in [Runs -> Context],
           open' \in [Runs -> Nat],
           record' \in [Runs -> {"none", "in_progress", "succeeded", "failed", "unknown"}],
           effects' \in [Runs -> Nat],
           reply' \in [Runs -> Terminal \cup {"none"}], queue' \in Seq(QueuedJob),
           UNCHANGED <<messages, pc, ask, abandoned, faults, crashes>>
    PROVE  TypeInv'
  BY DEF TypeInv, TypeOK, AskShape

\* A job that only moves on.
LEMMA MoveTypes ==
    ASSUME job \in Job, NEW point \in JobPoint, Move(point)
    PROVE  /\ job' \in Job
           /\ job'.at = point /\ job'.ctx = job.ctx /\ job'.run = job.run
  BY DEF Move, Job

\* A job that is over.
LEMMA OverTypes ==
    ASSUME job' = NoJob
    PROVE  job' \in Job \cup {NoJob} /\ JobShape'
  BY DEF JobShape, NoJob

\* A job that stores a context and moves on, whatever it stores.
LEMMA StoreTypes ==
    ASSUME job \in Job, NEW point \in JobPoint, NEW ctx \in Context,
           job' = [job EXCEPT !.ctx = ctx, !.at = point]
    PROVE  /\ job' \in Job
           /\ job'.at = point /\ job'.ctx = ctx /\ job'.run = job.run
  <1>1. job = [run |-> job.run, text |-> job.text, at |-> job.at, ctx |-> job.ctx]
    BY DEF Job
  <1>2. job' = [run |-> job.run, text |-> job.text, at |-> point, ctx |-> ctx]
    BY <1>1, Zenon
  <1>3. QED
    BY <1>2 DEF Job

\* The checkpoint of a job: the row, and the job with it or on its way to fail.
LEMMA CheckpointTypes ==
    ASSUME TypeInv, job \in Job, NEW next \in RunStatus,
           NEW reason \in {"none", "stop"}, NEW point \in JobPoint,
           point = "publish" => next \in Terminal, Checkpoint(next, reason, point)
    PROVE  /\ job' \in Job /\ JobShape'
           /\ status' \in [Runs -> RunStatus \cup {"absent"}]
           /\ mode' \in [Runs -> {"none", "readonly", "workflow"}]
           /\ version' \in [Runs -> Nat]
           /\ checkpoint' \in [Runs -> Context]
  <1> DEFINE ctx == Advanced(job.ctx, next, reason)
  <1>1. job.ctx \in Context /\ job.run \in Runs
    BY DEF Job
  <1>2. ctx \in Context /\ ctx.status = next
    BY <1>1, AdvancedType
  <1>3. CASE Committable(job.run, job.ctx, next)
    <2>1. CommitStep(job.run, ctx) /\ job' = [job EXCEPT !.ctx = ctx, !.at = point]
      BY <1>3 DEF Checkpoint
    <2> HIDE DEF ctx
    <2>2. job' \in Job /\ job'.at = point /\ job'.ctx = ctx
      BY <1>2, <2>1, StoreTypes
    <2>3. QED
      BY <1>1, <1>2, <2>1, <2>2, CommitStepTypes DEF JobShape, TypeInv
  <1>4. CASE ~Committable(job.run, job.ctx, next)
    <2>1. Move("failing") /\ UNCHANGED runVars
      BY <1>4 DEF Checkpoint
    <2>2. job' \in Job /\ job'.at = "failing"
      BY <2>1, MoveTypes DEF JobPoint
    <2>3. QED
      BY <2>1, <2>2 DEF JobShape, TypeInv, TypeOK, runVars
  <1>5. QED
    BY <1>3, <1>4

\* The steps that only write a checkpoint keep the types.
LEMMA CheckpointAtTypes ==
    ASSUME TypeInv, NEW point \in JobPoint, NEW next \in RunStatus,
           NEW reason \in {"none", "stop"}, NEW after \in JobPoint,
           after = "publish" => next \in Terminal,
           CheckpointAt(point, next, reason, after)
    PROVE  TypeInv'
  <1>1. job \in Job
    BY JobTyped DEF CheckpointAt, At, JobPoint
  <1>2. Checkpoint(next, reason, after)
    BY DEF CheckpointAt
  <1>3. UNCHANGED <<messages, open, record, effects, reply, queue, pc, ask, abandoned,
                    faults, crashes>>
    BY DEF CheckpointAt, sideVars, requestVars
  <1>4. QED
    BY <1>1, <1>2, <1>3, CheckpointTypes, WorkerFrame, Zenon DEF TypeInv, TypeOK

\* A step of the worker that moves its job and leaves the rows alone.
LEMMA MoveOnlyTypes ==
    ASSUME TypeInv, job.at # "idle", NEW point \in JobPoint \ {"publish"}, Move(point),
           UNCHANGED <<status, mode, version, checkpoint, record, effects, reply, queue,
                       messages, pc, ask, abandoned, faults, crashes>>,
           open' \in [Runs -> Nat]
    PROVE  TypeInv'
  <1>1. job' \in Job /\ job'.at = point
    BY JobTyped, MoveTypes
  <1>2. JobShape'
    BY <1>1 DEF JobShape
  <1>3. QED
    BY <1>1, <1>2, WorkerFrame DEF TypeInv, TypeOK

\* The context a job starts from.
LEMMA ResumedType ==
    ASSUME NEW ctx \in Context
    PROVE  Resumed(ctx) \in Context /\ Resumed(ctx).flow = ctx.flow
  <1>1. "running_workflow" \in RunStatus
    BY DEF RunStatus, Executing
  <1>2. QED
    BY <1>1 DEF Resumed, Context

\* Routing keeps the types.
LEMMA RoutingTypes ==
    ASSUME TypeInv,
           TakeJob \/ RouteUnsafe \/ RouteContinuation
             \/ \E route \in Routes : RouteClassified(route)
    PROVE  TypeInv'
  <1> USE DEF runVars, sideVars, requestVars
  <1>1. CASE TakeJob
    <2> DEFINE item == Head(queue)
    <2>1. queue \in Seq(QueuedJob) /\ queue # <<>>
      BY <1>1 DEF TakeJob, TypeInv, TypeOK
    <2>2. item \in QueuedJob /\ Tail(queue) \in Seq(QueuedJob)
      BY <2>1
    <2>3. item.run \in Runs /\ item.text \in Contents
      BY <2>2 DEF QueuedJob
    <2>4. Resumed(checkpoint[item.run]) \in Context
      BY <2>3, ResumedType DEF TypeInv, TypeOK
    <2>5. /\ job' = [run |-> item.run, text |-> item.text,
                     at |-> IF Overrun(item.run) THEN "failing" ELSE "route",
                     ctx |-> Resumed(checkpoint[item.run])]
          /\ queue' = Tail(queue)
      BY <1>1 DEF TakeJob
    <2> HIDE DEF item
    <2>6. job' \in Job /\ job'.at # "publish"
      BY <2>3, <2>4, <2>5 DEF Job, JobPoint
    <2>7. UNCHANGED <<status, mode, version, checkpoint, messages, open, record,
                      effects, reply, pc, ask, abandoned, faults, crashes>>
      BY <1>1 DEF TakeJob
    <2>8. JobShape'
      BY <2>6 DEF JobShape
    <2>9. QED
      BY <2>2, <2>5, <2>6, <2>7, <2>8, WorkerFrame DEF TypeInv, TypeOK
  <1>2. CASE RouteUnsafe
    <2>1. Move("handoff") /\ job.at # "idle"
      BY <1>2 DEF RouteUnsafe, At
    <2>2. open' \in [Runs -> Nat]
      BY <1>2 DEF RouteUnsafe, TypeInv, TypeOK
    <2>3. QED
      BY <1>2, <2>1, <2>2, MoveOnlyTypes DEF RouteUnsafe, JobPoint
  <1>3. CASE RouteContinuation
    <2>1. PICK point \in {"loop", "workflow"} : Move(point)
      BY <1>3 DEF RouteContinuation
    <2>2. job.at # "idle" /\ open' \in [Runs -> Nat]
      BY <1>3 DEF RouteContinuation, At, TypeInv, TypeOK
    <2>3. QED
      BY <1>3, <2>1, <2>2, MoveOnlyTypes DEF RouteContinuation, JobPoint
  <1>4. ASSUME NEW route \in Routes, RouteClassified(route)
        PROVE  TypeInv'
    <2> DEFINE flow == RoutedFlow[route]
    <2>1. route \in RouteOutcome
      BY RoutesKnown
    <2>2. /\ RoutedStatus[route] \in RunStatus
          /\ flow \in {"none", "readonly", "workflow"}
          /\ RoutedPoint[route] \in JobPoint \ {"publish"}
      BY <2>1 DEF RouteOutcome, RoutedStatus, RoutedFlow, RoutedPoint, RunStatus, Waiting,
                  Executing, JobPoint
    <2>3. job \in Job /\ job.run \in Runs /\ job.ctx \in Context
      BY <1>4, JobTyped DEF RouteClassified, At, Job
    <2>4. UNCHANGED <<version, checkpoint, messages, open, record, effects, reply, queue,
                      pc, ask, abandoned, faults, crashes>>
      BY <1>4 DEF RouteClassified
    <2>5. CASE CanSelect(job.run)
      <3>1. /\ status' = [status EXCEPT ![job.run] = RoutedStatus[route]]
            /\ mode' = [mode EXCEPT ![job.run] = flow]
            /\ job' = [job EXCEPT !.at = RoutedPoint[route],
                          !.ctx.flow = IF flow = "none" THEN job.ctx.flow ELSE flow]
        BY <1>4, <2>5 DEF RouteClassified
      <3> DEFINE locked == [job.ctx EXCEPT !.flow = IF flow = "none" THEN job.ctx.flow
                                                    ELSE flow]
      <3>2. locked \in Context
        BY <2>2, <2>3 DEF Context
      <3>3. job' \in Job /\ job'.at = RoutedPoint[route]
        <4>1. job' = [job EXCEPT !.at = RoutedPoint[route], !.ctx = locked]
          BY <2>3, <3>1 DEF Job
        <4> HIDE DEF locked
        <4>2. QED
          BY <2>2, <2>3, <3>2, <4>1 DEF Job
      <3>4. JobShape'
        BY <2>2, <3>3 DEF JobShape
      <3>5. QED
        BY <2>2, <2>3, <2>4, <3>1, <3>3, <3>4, WorkerFrame DEF TypeInv, TypeOK
    <2>6. CASE ~CanSelect(job.run)
      <3>1. Move("failing") /\ UNCHANGED <<status, mode>>
        BY <1>4, <2>6 DEF RouteClassified
      <3>2. job.at # "idle"
        BY <1>4 DEF RouteClassified, At
      <3>3. QED
        BY <2>4, <3>1, <3>2, MoveOnlyTypes DEF JobPoint, TypeInv, TypeOK
    <2>7. QED
      BY <2>5, <2>6
  <1>5. QED
    BY <1>1, <1>2, <1>3, <1>4

\* Handoff, clarification, small talk, the readonly loop and the preparation of
\* a mutation keep the types.
LEMMA ExecutionTypes ==
    ASSUME TypeInv,
           \/ CreateTicket \/ Park \/ AskUser \/ Converse \/ Prepare
           \/ \E point \in LoopPoint :
                  \/ LoopContinues(point)
                  \/ \E next \in RunStatus : LoopDecides(point, next) \/ LoopStops(point, next)
           \/ LoopRepeats \/ NoProgress \/ StampReason
    PROVE  TypeInv'
  <1> USE DEF runVars, sideVars, requestVars
  <1>0. /\ {"waiting_human", "waiting_user", "waiting_confirmation", "completed", "failed",
           "running_readonly"} \subseteq RunStatus
        /\ {"prompt", "publish", "again", "no_progress", "reason", "park", "ask", "chat",
            "workflow", "repark", "loop"} \subseteq JobPoint
        /\ {"completed", "failed"} \subseteq Terminal
        /\ "idle" \notin JobPoint
    BY DEF RunStatus, Waiting, Terminal, Executing, JobPoint
  <1>1. CASE CreateTicket
    <2>1. job.at # "idle" /\ OpenTicket(job.run)
      BY <1>1 DEF CreateTicket
    <2>2. open' \in [Runs -> Nat]
      BY <2>1, JobTyped, OpenTicketTypes DEF Job, TypeInv
    <2>3. PICK point \in {"park", "repark"} : Move(point)
      BY <1>1 DEF CreateTicket
    <2>4. QED
      BY <1>0, <1>1, <2>1, <2>2, <2>3, MoveOnlyTypes DEF CreateTicket
  <1>2. CASE Park \/ AskUser \/ Converse \/ Prepare
    <2>1. job.at # "idle"
      BY <1>2 DEF Park, AskUser, Converse, Prepare, CheckpointAt, At
    <2>2. job.ctx.reason \in {"none", "stop"}
      BY <2>1, JobTyped DEF Job, Context
    <2>3. QED
      BY <1>0, <1>2, <2>2, CheckpointAtTypes DEF Park, AskUser, Converse, Prepare
  <1>3. ASSUME NEW point \in LoopPoint, LoopContinues(point)
        PROVE  TypeInv'
    BY <1>0, <1>3, CheckpointAtTypes DEF LoopContinues, LoopPoint
  <1>4. ASSUME NEW point \in LoopPoint, NEW next \in RunStatus, LoopDecides(point, next)
        PROVE  TypeInv'
    <2>1. CASE next = "completed"
      BY <1>0, <1>4, <2>1, CheckpointAtTypes DEF LoopDecides, LoopPoint
    <2>2. CASE next # "completed"
      BY <1>0, <1>4, <2>2, CheckpointAtTypes DEF LoopDecides, LoopPoint
    <2>3. QED
      BY <2>1, <2>2
  <1>5. ASSUME NEW point \in LoopPoint, NEW next \in RunStatus, LoopStops(point, next)
        PROVE  TypeInv'
    BY <1>0, <1>5, CheckpointAtTypes DEF LoopStops, LoopPoint
  <1>6. CASE LoopRepeats \/ NoProgress
    BY <1>0, <1>6, CheckpointAtTypes DEF LoopRepeats, NoProgress
  <1>7. CASE StampReason
    <2>1. job \in Job /\ job.run \in Runs
      BY <1>7, JobTyped DEF StampReason, At, Job
    <2>2. BumpVersion(job.run)
          /\ Move(IF job.ctx.status \in Terminal THEN "publish" ELSE "prompt")
      BY <1>7 DEF StampReason
    <2>3. job' \in Job /\ JobShape'
      <3>1. CASE job.ctx.status \in Terminal
        BY <1>0, <2>1, <2>2, <3>1, MoveTypes DEF JobShape
      <3>2. CASE job.ctx.status \notin Terminal
        BY <1>0, <2>1, <2>2, <3>2, MoveTypes DEF JobShape
      <3>3. QED
        BY <3>1, <3>2
    <2>4. UNCHANGED <<messages, open, record, effects, reply, queue, pc, ask, abandoned,
                      faults, crashes>>
      BY <1>7 DEF StampReason
    <2>5. QED
      BY <2>1, <2>2, <2>3, <2>4, BumpVersionTypes, WorkerFrame DEF TypeInv, TypeOK
  <1>8. QED
    BY <1>1, <1>2, <1>3, <1>4, <1>5, <1>6, <1>7

\* Low-risk writes keep the types.
LEMMA WriteTypes ==
    ASSUME TypeInv,
           \/ BeginLowRisk \/ ClaimRecord \/ ParkUnknown
           \/ \E denied \in BOOLEAN : WorkflowRefuses(denied)
           \/ \E acts \in BOOLEAN : CallSystem(acts)
           \/ \E outcome \in DOMAIN LowRiskStatus : ObserveOutcome(outcome)
    PROVE  TypeInv'
  <1> USE DEF runVars, sideVars, requestVars
  <1>0. /\ {"claim", "call", "ticket", "observe", "failing", "prompt", "publish"} \subseteq JobPoint
        /\ "idle" \notin JobPoint
    BY DEF JobPoint
  <1>a. job.at # "idle"
    BY DEF BeginLowRisk, ClaimRecord, ParkUnknown, WorkflowRefuses, CallSystem,
           ObserveOutcome, At
  <1>b. job \in Job /\ job.run \in Runs /\ job.ctx \in Context
    BY <1>a, JobTyped DEF Job
  <1>1. CASE BeginLowRisk
    BY <1>0, <1>1, <1>a, MoveOnlyTypes DEF BeginLowRisk, TypeInv, TypeOK
  <1>2. CASE ClaimRecord
    <2>1. UNCHANGED <<status, mode, version, checkpoint, messages, open, effects, reply,
                      queue, pc, ask, abandoned, faults, crashes>>
      BY <1>2 DEF ClaimRecord
    <2>2. record' \in [Runs -> {"none", "in_progress", "succeeded", "failed", "unknown"}]
      <3>1. record' = [record EXCEPT ![job.run] = "in_progress"] \/ record' = record
        BY <1>2 DEF ClaimRecord
      <3>2. QED
        BY <3>1 DEF TypeInv, TypeOK
    <2>3. job' \in Job /\ job'.at # "publish"
      <3>1. CASE record[job.run] = "none"
        BY <1>0, <1>2, <1>b, <3>1, MoveTypes DEF ClaimRecord
      <3>2. CASE record[job.run] # "none"
        <4> DEFINE counted == [job.ctx EXCEPT !.steps = job.ctx.steps + 1]
        <4>1. counted \in Context
          BY <1>b DEF Context
        <4>2. job' = [job EXCEPT !.at = "ticket", !.ctx = counted]
          BY <1>2, <1>b, <3>2 DEF ClaimRecord, Job
        <4> HIDE DEF counted
        <4>3. QED
          BY <1>0, <1>b, <4>1, <4>2 DEF Job
      <3>3. QED
        BY <3>1, <3>2
    <2>4. JobShape'
      BY <2>3 DEF JobShape
    <2>5. QED
      BY <2>1, <2>2, <2>3, <2>4, WorkerFrame DEF TypeInv, TypeOK
  <1>3. CASE ParkUnknown
    <2>1. UNCHANGED <<messages, open, record, effects, reply, queue, pc, ask, abandoned,
                      faults, crashes>>
      BY <1>3 DEF ParkUnknown
    <2> DEFINE stored == Advanced(job.ctx, "waiting_human", job.ctx.reason)
               ctx == [stored EXCEPT !.steps = job.ctx.steps]
    <2>2. CASE Committable(job.run, job.ctx, "waiting_human")
      <3>1. CommitStep(job.run, ctx) /\ job' = [job EXCEPT !.ctx = ctx, !.at = "prompt"]
        BY <1>3, <2>2 DEF ParkUnknown
      <3>2. ctx \in Context
        <4>1. "waiting_human" \in RunStatus
          BY DEF RunStatus, Waiting
        <4>2. stored \in Context /\ job.ctx.steps \in Nat
          BY <1>b, <4>1, AdvancedType DEF Context
        <4> HIDE DEF stored
        <4>3. QED
          BY <4>2 DEF Context
      <3> HIDE DEF ctx
      <3>3. job' \in Job /\ job'.at = "prompt"
        BY <1>0, <1>b, <3>1, <3>2, StoreTypes
      <3>4. JobShape'
        BY <3>3 DEF JobShape
      <3>5. QED
        BY <1>b, <2>1, <3>1, <3>2, <3>3, <3>4, CommitStepTypes, WorkerFrame
           DEF TypeInv, TypeOK
    <2>3. CASE ~Committable(job.run, job.ctx, "waiting_human")
      BY <1>0, <1>3, <1>a, <2>1, <2>3, MoveOnlyTypes DEF ParkUnknown, TypeInv, TypeOK
    <2>4. QED
      BY <2>2, <2>3
  <1>4. ASSUME NEW denied \in BOOLEAN, WorkflowRefuses(denied)
        PROVE  TypeInv'
    <2>1. OpenTicket(job.run) \/ UNCHANGED open
      BY <1>4 DEF WorkflowRefuses
    <2>2. open' \in [Runs -> Nat]
      BY <1>b, <2>1, OpenTicketTypes DEF TypeInv, TypeOK
    <2>3. QED
      BY <1>0, <1>4, <1>a, <2>2, MoveOnlyTypes DEF WorkflowRefuses
  <1>5. ASSUME NEW acts \in BOOLEAN, CallSystem(acts)
        PROVE  TypeInv'
    <2>1. effects' \in [Runs -> Nat]
      BY <1>5, <1>b DEF CallSystem, TypeInv, TypeOK
    <2>2. job' \in Job /\ JobShape'
      BY <1>0, <1>5, <1>b, MoveTypes DEF CallSystem, JobShape
    <2>3. QED
      BY <1>5, <2>1, <2>2, WorkerFrame DEF CallSystem, TypeInv, TypeOK
  <1>6. ASSUME NEW outcome \in DOMAIN LowRiskStatus, ObserveOutcome(outcome)
        PROVE  TypeInv'
    <2> DEFINE next == LowRiskStatus[outcome]
               point == IF outcome = "unknown" THEN "ticket" ELSE "publish"
    <2>1. outcome \in {"succeeded", "failed", "unknown"}
      BY DEF LowRiskStatus
    <2>2. next \in RunStatus /\ point \in JobPoint /\ (point = "publish" => next \in Terminal)
      BY <1>0, <2>1 DEF LowRiskStatus, RunStatus, Terminal, Waiting
    <2>3. Checkpoint(next, job.ctx.reason, point)
      BY <1>6 DEF ObserveOutcome
    <2>4. job.ctx.reason \in {"none", "stop"}
      BY <1>b DEF Context
    <2>5. record' \in [Runs -> {"none", "in_progress", "succeeded", "failed", "unknown"}]
      BY <1>6, <1>b, <2>1 DEF ObserveOutcome, TypeInv, TypeOK
    <2> HIDE DEF next, point
    <2>6. UNCHANGED <<messages, open, effects, reply, queue, pc, ask, abandoned, faults,
                      crashes>>
      BY <1>6 DEF ObserveOutcome
    <2>7. QED
      <3>1. /\ job' \in Job /\ JobShape'
            /\ status' \in [Runs -> RunStatus \cup {"absent"}]
            /\ mode' \in [Runs -> {"none", "readonly", "workflow"}]
            /\ version' \in [Runs -> Nat]
            /\ checkpoint' \in [Runs -> Context]
        BY <1>b, <2>2, <2>3, <2>4, CheckpointTypes
      <3>2. /\ open' \in [Runs -> Nat] /\ effects' \in [Runs -> Nat]
            /\ reply' \in [Runs -> Terminal \cup {"none"}] /\ queue' \in Seq(QueuedJob)
        BY <2>6, Zenon DEF TypeInv, TypeOK
      <3>3. QED
        BY <2>5, <2>6, <3>1, <3>2, WorkerFrame, Zenon
  <1>7. QED
    BY <1>1, <1>2, <1>3, <1>4, <1>5, <1>6

\* append_assistant_once_for_run keeps the replies typed.
LEMMA AnnounceTypes ==
    ASSUME TypeOK, NEW run \in Runs, NEW outcome \in Terminal, Announce(run, outcome)
    PROVE  reply' \in [Runs -> Terminal \cup {"none"}]
  BY DEF Announce, TypeOK

\* Responses and the failure handler keep the types.
LEMMA ResponseTypes ==
    ASSUME TypeInv,
           PublishPrompt \/ PublishResponse \/ MarkFailed \/ PublishFailure \/ StampResponse
    PROVE  TypeInv'
  <1> USE DEF runVars, sideVars, requestVars
  <1>0. /\ {"stamp", "apology", "last"} \subseteq JobPoint
        /\ "failed" \in Terminal /\ "failed" \in RunStatus
    BY DEF JobPoint, Terminal, RunStatus
  <1>a. job \in Job /\ job.run \in Runs /\ job.ctx \in Context /\ job.at # "idle"
    <2>1. job.at # "idle"
      BY DEF PublishPrompt, PublishResponse, MarkFailed, PublishFailure, StampResponse, At
    <2>2. QED
      BY <2>1, JobTyped DEF Job
  <1>1. CASE PublishPrompt
    BY <1>1, OverTypes, WorkerFrame DEF PublishPrompt, TypeInv, TypeOK
  <1>2. CASE PublishResponse
    <2>1. job.ctx.status \in Terminal
      BY <1>2 DEF PublishResponse, At, TypeInv, JobShape
    <2>2. reply' \in [Runs -> Terminal \cup {"none"}]
      BY <1>2, <1>a, <2>1, AnnounceTypes DEF PublishResponse, TypeInv
    <2>3. job' \in Job \cup {NoJob} /\ JobShape'
      <3>1. CASE job' = NoJob
        BY <3>1, OverTypes
      <3>2. CASE job' = [job EXCEPT !.at = "stamp"]
        <4>1. Move("stamp")
          BY <3>2 DEF Move
        <4>2. QED
          BY <1>0, <1>a, <4>1, MoveTypes DEF JobShape
      <3>3. QED
        BY <1>2, <3>1, <3>2 DEF PublishResponse
    <2>4. QED
      BY <1>2, <2>2, <2>3, WorkerFrame DEF PublishResponse, TypeInv, TypeOK
  <1>3. CASE MarkFailed
    <2>1. status' \in [Runs -> RunStatus \cup {"absent"}] /\ version' \in [Runs -> Nat]
      <3>1. CASE status[job.run] \in Terminal
        BY <1>3, <3>1 DEF MarkFailed, TypeInv, TypeOK
      <3>2. CASE status[job.run] \notin Terminal
        <4>1. /\ status' = [status EXCEPT ![job.run] = "failed"]
              /\ version' = [version EXCEPT ![job.run] = @ + 1]
          BY <1>3, <3>2 DEF MarkFailed
        <4>2. status \in [Runs -> RunStatus \cup {"absent"}] /\ version \in [Runs -> Nat]
          BY DEF TypeInv, TypeOK
        <4>3. status' \in [Runs -> RunStatus \cup {"absent"}]
          BY <1>0, <1>a, <4>1, <4>2
        <4>4. version' \in [Runs -> Nat]
          BY <1>a, <4>1, <4>2
        <4>5. QED
          BY <4>3, <4>4
      <3>3. QED
        BY <3>1, <3>2
    <2>2. job' \in Job /\ JobShape'
      BY <1>0, <1>3, <1>a, MoveTypes DEF MarkFailed, JobShape
    <2>3. QED
      BY <1>3, <2>1, <2>2, WorkerFrame DEF MarkFailed, TypeInv, TypeOK
  <1>4. CASE PublishFailure
    <2>1. reply' \in [Runs -> Terminal \cup {"none"}]
      BY <1>0, <1>4, <1>a, AnnounceTypes DEF PublishFailure, TypeInv
    <2>2. job' \in Job /\ JobShape'
      BY <1>0, <1>4, <1>a, MoveTypes DEF PublishFailure, JobShape
    <2>3. QED
      BY <1>4, <2>1, <2>2, WorkerFrame DEF PublishFailure, TypeInv, TypeOK
  <1>5. CASE StampResponse
    <2>1. BumpVersion(job.run) /\ job' = NoJob
      BY <1>5 DEF StampResponse
    <2>2. QED
      BY <1>5, <1>a, <2>1, BumpVersionTypes, OverTypes, WorkerFrame
         DEF StampResponse, TypeInv, TypeOK
  <1>6. QED
    BY <1>1, <1>2, <1>3, <1>4, <1>5

\* Every step of the worker keeps the types.
LEMMA WorkerTypes ==
    ASSUME TypeInv, WorkerStep
    PROVE  TypeInv'
  BY RoutingTypes, ExecutionTypes, WriteTypes, ResponseTypes DEF WorkerStep

\* An exception in the worker keeps the types.
LEMMA RaiseTypes ==
    ASSUME TypeInv, WorkerRaises
    PROVE  TypeInv'
  <1> USE DEF runVars, sideVars, requestVars
  <1>1. job \in Job /\ job.run \in Runs
    BY JobTyped DEF WorkerRaises, Job
  <1>2. job' \in Job \cup {NoJob} /\ JobShape'
    <2>1. CASE job' = NoJob
      BY <2>1, OverTypes
    <2>2. CASE job' = [job EXCEPT !.at = "failing"]
      BY <1>1, <2>2, MoveTypes DEF Move, JobPoint, JobShape
    <2>3. QED
      BY <2>1, <2>2 DEF WorkerRaises
  <1>3. abandoned' \subseteq Runs
    BY <1>1 DEF WorkerRaises, TypeInv, TypeOK
  <1>4. faults' \in 0 .. MaxFaults
    BY BoundsAreNat DEF WorkerRaises, TypeInv, TypeOK
  <1>5. UNCHANGED <<status, mode, version, checkpoint, messages, open, record, effects,
                    reply, queue, pc, ask, crashes>>
    BY DEF WorkerRaises
  <1>6. QED
    BY <1>2, <1>3, <1>4, <1>5 DEF TypeInv, TypeOK, AskShape

\* A crash and the startup hook keep the types.
LEMMA RestartTypes ==
    ASSUME TypeInv, NEW late \in SUBSET Runs, Restart(late)
    PROVE  TypeInv'
  <1> USE DEF runVars, sideVars, requestVars
  <1> DEFINE ended == [run \in Runs |-> IF run \in late THEN "expired" ELSE status[run]]
             silent == {run \in Runs : /\ ended[run] \in Terminal
                                       /\ reply[run] = "none"
                                       /\ ~Overrun(run)}
             text == IF messages = <<>> THEN "none" ELSE messages[Len(messages)].text
             left == Recoverable \ late
  <1>1. status' \in [Runs -> RunStatus \cup {"absent"}]
    <2>1. "expired" \in RunStatus
      BY DEF RunStatus, Terminal
    <2>2. status' = ended
      BY DEF Restart
    <2>3. QED
      BY <2>1, <2>2 DEF TypeInv, TypeOK
  <1>2. version' \in [Runs -> Nat]
    <2>1. version' = [run \in Runs |->
              version[run] + (IF run \in late THEN 1 ELSE 0)
                + (IF run \in silent /\ checkpoint[run].reason = "stop" THEN 1 ELSE 0)]
      BY DEF Restart
    <2> HIDE DEF silent
    <2>2. QED
      BY <2>1 DEF TypeInv, TypeOK
  <1>3. reply' \in [Runs -> Terminal \cup {"none"}]
    <2>1. reply' = [run \in Runs |-> IF run \in silent THEN ended[run] ELSE reply[run]]
      BY DEF Restart
    <2>2. QED
      BY <2>1 DEF TypeInv, TypeOK
  <1>4. text \in Contents
    <2>1. CASE messages = <<>>
      BY <2>1 DEF Contents
    <2>2. CASE messages # <<>>
      <3>1. messages[Len(messages)] \in Message
        BY <2>2 DEF TypeInv, TypeOK
      <3>2. QED
        BY <2>2, <3>1 DEF Message
    <2>3. QED
      BY <2>1, <2>2
  <1>5. queue' \in Seq(QueuedJob)
    <2>1. queue' = IF left = {} THEN <<>>
                   ELSE <<[run |-> CHOOSE run \in left : TRUE, text |-> text]>>
      BY DEF Restart
    <2>2. CASE left = {}
      BY <2>1, <2>2
    <2>3. CASE left # {}
      <3>1. PICK run \in Runs : run = CHOOSE r \in left : TRUE
        BY <2>3 DEF Recoverable
      <3> DEFINE item == [run |-> run, text |-> text]
      <3> HIDE DEF left, text
      <3>2. item \in QueuedJob
        BY <1>4 DEF QueuedJob
      <3>3. queue' = <<item>>
        BY <2>1, <2>3, <3>1
      <3> HIDE DEF item
      <3>4. QED
        BY <3>2, <3>3
    <2>4. QED
      BY <2>2, <2>3
  <1>6. job' = NoJob
    BY DEF Restart
  <1>7. job' \in Job \cup {NoJob} /\ JobShape'
    BY <1>6, OverTypes
  <1>8. /\ pc' \in [Requests -> {"idle", "over"}]
        /\ ask' \in [Requests -> Ask \cup {NoAsk}]
    BY DEF Restart, TypeInv, TypeOK
  <1>9. AskShape'
    <2>1. \A q \in Requests : pc'[q] \notin Serving
      BY <1>8 DEF Serving
    <2>2. QED
      BY <2>1 DEF AskShape, Serving
  <1>10. crashes' \in 0 .. MaxCrashes
    BY BoundsAreNat DEF Restart, TypeInv, TypeOK
  <1>11. UNCHANGED <<mode, checkpoint, messages, open, record, effects, abandoned, faults>>
    BY DEF Restart
  <1>12. QED
    BY <1>1, <1>2, <1>3, <1>5, <1>7, <1>8, <1>9, <1>10, <1>11 DEF TypeInv, TypeOK

\* TypeInv is inductive.
LEMMA TypeInvStep ==
    ASSUME TypeInv, [Next]_vars
    PROVE  TypeInv'
  <1>1. CASE UNCHANGED vars
    BY <1>1 DEF vars, TypeInv, TypeOK, AskShape, JobShape
  <1>2. CASE Next
    BY <1>2, ArrivalTypes, RequestTypes, WorkerTypes, RaiseTypes, RestartTypes DEF Next
  <1>3. QED
    BY <1>1, <1>2

\* TypeInv holds initially.
LEMMA TypeInvInit ==
    ASSUME Init
    PROVE  TypeInv
  <1>1. TypeOK
    BY NoCheckpointType, BoundsAreNat DEF Init, TypeOK
  <1>2. AskShape
    BY DEF Init, AskShape, Serving
  <1>3. JobShape
    BY DEF Init, JobShape, NoJob
  <1>4. QED
    BY <1>1, <1>2, <1>3 DEF TypeInv

\* TypeInv is an invariant.
LEMMA TypeInvAlways == Spec => []TypeInv
  BY TypeInvInit, TypeInvStep, PTL DEF Spec

\* Run rows, checkpoints, messages, tickets, jobs and what a request remembers
\* keep their types through every interleaving, fault and restart; a terminal
\* reply only ever announces a terminal status.
THEOREM RunTypes == Spec => []TypeOK
  <1>1. TypeInv => TypeOK
    BY DEF TypeInv
  <1>2. QED
    BY <1>1, TypeInvAlways, PTL

-------------------------------------------------------------------------------
(***************************************************************************)
(* How the worker's job moves                                              *)
(***************************************************************************)

\* The points of a job that only the readonly and only the workflow executor has.
ReadonlyPoint == LoopPoint \cup {"chat", "no_progress"}
WorkflowPoint == {"workflow", "claim", "call", "observe", "ticket", "repark"}

\* A checkpoint, if one is written, carries the executor of the job's context.
KeepsFlow ==
    \/ checkpoint' = checkpoint
    \/ \E ctx \in Context :
           /\ ctx.flow = job.ctx.flow
           /\ checkpoint' = [checkpoint EXCEPT ![job.run] = ctx]

\* The job goes on, for the same run and with the same executor.
Follows ==
    /\ job' \in Job
    /\ job'.run = job.run
    /\ job'.ctx.flow = job.ctx.flow
    /\ mode' = mode
    /\ KeepsFlow
    /\ UNCHANGED <<pc, ask>>

\* Where a job may go: to what every run has in common, or on with its executor.
StaysInExecutor ==
    \/ job'.at \notin ReadonlyPoint \cup WorkflowPoint
    \/ job.at \in ReadonlyPoint /\ job'.at \in ReadonlyPoint
    \/ job.at \in WorkflowPoint /\ job'.at \in WorkflowPoint
    \/ At("route") /\ job.ctx.flow = "readonly" /\ job'.at \in ReadonlyPoint
    \/ At("route") /\ job.ctx.flow = "workflow" /\ job'.at \in WorkflowPoint

\* A job that only moves.
LEMMA MoveFollows ==
    ASSUME job \in Job, NEW point \in JobPoint, Move(point),
           UNCHANGED <<mode, checkpoint, pc, ask>>
    PROVE  Follows /\ job'.at = point
  BY MoveTypes DEF Follows, KeepsFlow

\* A job that writes a checkpoint, or fails to.
LEMMA CheckpointFollows ==
    ASSUME TypeInv, job \in Job, NEW next \in RunStatus,
           NEW reason \in {"none", "stop"}, NEW point \in JobPoint,
           Checkpoint(next, reason, point), UNCHANGED <<pc, ask>>
    PROVE  Follows /\ job'.at \in {point, "failing"}
  <1> DEFINE ctx == Advanced(job.ctx, next, reason)
  <1>1. job.ctx \in Context
    BY DEF Job
  <1>2. ctx \in Context /\ ctx.flow = job.ctx.flow
    BY <1>1, AdvancedType
  <1>3. CASE Committable(job.run, job.ctx, next)
    <2>1. CommitStep(job.run, ctx) /\ job' = [job EXCEPT !.ctx = ctx, !.at = point]
      BY <1>3 DEF Checkpoint
    <2> HIDE DEF ctx
    <2>2. job' \in Job /\ job'.at = point /\ job'.ctx = ctx /\ job'.run = job.run
      BY <1>2, <2>1, StoreTypes
    <2>3. KeepsFlow /\ mode' = mode
      BY <1>2, <2>1 DEF CommitStep, KeepsFlow
    <2>4. QED
      BY <1>2, <2>2, <2>3 DEF Follows
  <1>4. CASE ~Committable(job.run, job.ctx, next)
    <2>1. Move("failing") /\ UNCHANGED <<mode, checkpoint>>
      BY <1>4 DEF Checkpoint, runVars
    <2>2. "failing" \in JobPoint
      BY DEF JobPoint
    <2>3. QED
      BY <2>1, <2>2, MoveFollows
  <1>5. QED
    BY <1>3, <1>4

\* The steps that only write a checkpoint let the job go on or fail.
LEMMA CheckpointAtFollows ==
    ASSUME TypeInv, NEW point \in JobPoint, NEW next \in RunStatus,
           NEW reason \in {"none", "stop"}, NEW after \in JobPoint,
           CheckpointAt(point, next, reason, after)
    PROVE  /\ Follows
           /\ job.at = point /\ job'.at \in {after, "failing"}
           /\ UNCHANGED <<record, effects>>
  <1>1. job \in Job /\ job.at = point
    BY JobTyped DEF CheckpointAt, At, JobPoint
  <1>2. Checkpoint(next, reason, after) /\ UNCHANGED <<pc, ask, record, effects>>
    BY DEF CheckpointAt, sideVars, requestVars
  <1>3. QED
    BY <1>1, <1>2, CheckpointFollows

\* Handoff, clarification, small talk, the readonly loop, the preparation of a
\* mutation and the steps that lead to a low-risk write or away from it.
LEMMA ExecutionFollows ==
    ASSUME TypeInv,
           \/ CreateTicket \/ Park \/ AskUser \/ Converse \/ Prepare
           \/ \E point \in LoopPoint :
                  \/ LoopContinues(point)
                  \/ \E next \in RunStatus : LoopDecides(point, next) \/ LoopStops(point, next)
           \/ LoopRepeats \/ NoProgress \/ StampReason \/ BeginLowRisk
           \/ \E denied \in BOOLEAN : WorkflowRefuses(denied)
    PROVE  /\ Follows /\ StaysInExecutor
           /\ job'.at \notin {"call", "observe"}
           /\ UNCHANGED <<record, effects>>
  <1> USE DEF runVars, sideVars, requestVars
  <1>0. /\ {"waiting_human", "waiting_user", "waiting_confirmation", "completed", "failed",
           "running_readonly"} \subseteq RunStatus
        /\ {"prompt", "publish", "again", "no_progress", "reason", "park", "ask", "chat",
            "workflow", "repark", "loop", "claim", "failing"} \subseteq JobPoint
    BY DEF RunStatus, Waiting, Terminal, Executing, JobPoint
  <1>1. CASE CreateTicket
    <2>1. job \in Job
      BY <1>1, JobTyped DEF CreateTicket
    <2>2. CASE At("handoff")
      BY <1>0, <1>1, <2>1, <2>2, MoveFollows
         DEF CreateTicket, StaysInExecutor, ReadonlyPoint, WorkflowPoint, LoopPoint
    <2>3. CASE At("ticket")
      BY <1>0, <1>1, <2>1, <2>3, MoveFollows
         DEF CreateTicket, StaysInExecutor, WorkflowPoint, At
    <2>4. QED
      BY <1>1, <2>2, <2>3 DEF CreateTicket, At
  <1>2. CASE Park \/ AskUser \/ Converse \/ Prepare
    <2>1. job.at # "idle"
      BY <1>2 DEF Park, AskUser, Converse, Prepare, CheckpointAt, At
    <2>2. job.ctx.reason \in {"none", "stop"}
      BY <2>1, JobTyped DEF Job, Context
    <2>3. Follows /\ job'.at \in {"prompt", "publish", "failing"} /\ UNCHANGED <<record, effects>>
      BY <1>0, <1>2, <2>2, CheckpointAtFollows DEF Park, AskUser, Converse, Prepare
    <2>4. QED
      BY <2>3 DEF StaysInExecutor, ReadonlyPoint, WorkflowPoint, LoopPoint
  <1>3. ASSUME NEW point \in LoopPoint, LoopContinues(point)
        PROVE  /\ Follows /\ StaysInExecutor
               /\ job'.at \notin {"call", "observe"}
               /\ UNCHANGED <<record, effects>>
    <2>1. /\ Follows /\ job.at = point /\ job'.at \in {"again", "failing"}
          /\ UNCHANGED <<record, effects>>
      BY <1>0, <1>3, CheckpointAtFollows DEF LoopContinues, LoopPoint
    <2>2. QED
      BY <2>1 DEF StaysInExecutor, ReadonlyPoint, WorkflowPoint, LoopPoint
  <1>4. ASSUME NEW point \in LoopPoint, NEW next \in RunStatus, LoopDecides(point, next)
        PROVE  /\ Follows /\ StaysInExecutor
               /\ job'.at \notin {"call", "observe"}
               /\ UNCHANGED <<record, effects>>
    <2>1. PICK after \in {"publish", "prompt"} : CheckpointAt(point, next, "none", after)
      BY <1>4 DEF LoopDecides
    <2>2. Follows /\ job'.at \in {after, "failing"} /\ UNCHANGED <<record, effects>>
      BY <1>0, <2>1, CheckpointAtFollows DEF LoopPoint
    <2>3. QED
      BY <2>2 DEF StaysInExecutor, ReadonlyPoint, WorkflowPoint, LoopPoint
  <1>5. ASSUME NEW point \in LoopPoint, NEW next \in RunStatus, LoopStops(point, next)
        PROVE  /\ Follows /\ StaysInExecutor
               /\ job'.at \notin {"call", "observe"}
               /\ UNCHANGED <<record, effects>>
    <2>1. Follows /\ job'.at \in {"reason", "failing"} /\ UNCHANGED <<record, effects>>
      BY <1>0, <1>5, CheckpointAtFollows DEF LoopStops, LoopPoint
    <2>2. QED
      BY <2>1 DEF StaysInExecutor, ReadonlyPoint, WorkflowPoint, LoopPoint
  <1>6. CASE LoopRepeats
    <2>1. /\ Follows /\ job.at = "again" /\ job'.at \in {"no_progress", "failing"}
          /\ UNCHANGED <<record, effects>>
      BY <1>0, <1>6, CheckpointAtFollows DEF LoopRepeats
    <2>2. QED
      BY <2>1 DEF StaysInExecutor, ReadonlyPoint, WorkflowPoint, LoopPoint
  <1>7. CASE NoProgress
    <2>1. Follows /\ job'.at \in {"reason", "failing"} /\ UNCHANGED <<record, effects>>
      BY <1>0, <1>7, CheckpointAtFollows DEF NoProgress
    <2>2. QED
      BY <2>1 DEF StaysInExecutor, ReadonlyPoint, WorkflowPoint, LoopPoint
  <1>8. CASE StampReason
    <2>1. PICK after \in {"publish", "prompt"} : Move(after)
      BY <1>8 DEF StampReason
    <2>2. job \in Job
      BY <1>8, JobTyped DEF StampReason, At
    <2>3. UNCHANGED <<mode, checkpoint, pc, ask, record, effects>>
      BY <1>8 DEF StampReason, BumpVersion
    <2>4. QED
      BY <1>0, <2>1, <2>2, <2>3, MoveFollows
         DEF StaysInExecutor, ReadonlyPoint, WorkflowPoint, LoopPoint
  <1>9. CASE BeginLowRisk
    <2>1. job \in Job
      BY <1>9, JobTyped DEF BeginLowRisk, At
    <2>2. QED
      BY <1>0, <1>9, <2>1, MoveFollows DEF BeginLowRisk, At, StaysInExecutor, WorkflowPoint
  <1>10. ASSUME NEW denied \in BOOLEAN, WorkflowRefuses(denied)
         PROVE  /\ Follows /\ StaysInExecutor
                /\ job'.at \notin {"call", "observe"}
                /\ UNCHANGED <<record, effects>>
    <2>1. job \in Job
      BY <1>10, JobTyped DEF WorkflowRefuses, At
    <2>2. QED
      BY <1>0, <1>10, <2>1, MoveFollows
         DEF WorkflowRefuses, StaysInExecutor, ReadonlyPoint, WorkflowPoint, LoopPoint
  <1>11. QED
    BY <1>1, <1>2, <1>3, <1>4, <1>5, <1>6, <1>7, <1>8, <1>9, <1>10

\* A job that is over changes nothing a later job could be misled by.
Finishes == job' = NoJob /\ UNCHANGED <<mode, checkpoint, pc, ask>>

\* A continuation goes to the executor of its checkpoint, an unsafe message to
\* a human.
LEMMA RoutingFollows ==
    ASSUME TypeInv, RouteUnsafe \/ RouteContinuation
    PROVE  /\ Follows /\ StaysInExecutor
           /\ job'.at \notin {"call", "observe"}
           /\ UNCHANGED <<record, effects>>
  <1> USE DEF runVars, sideVars, requestVars
  <1>0. {"handoff", "loop", "workflow"} \subseteq JobPoint
    BY DEF JobPoint
  <1>1. job \in Job /\ job.ctx.flow \in {"none", "readonly", "workflow"}
    BY JobTyped DEF RouteUnsafe, RouteContinuation, At, Job, Context
  <1>2. CASE RouteUnsafe
    BY <1>0, <1>1, <1>2, MoveFollows
       DEF RouteUnsafe, StaysInExecutor, ReadonlyPoint, WorkflowPoint, LoopPoint
  <1>3. CASE RouteContinuation
    <2>1. UNCHANGED <<mode, checkpoint, pc, ask, record, effects>>
      BY <1>3 DEF RouteContinuation
    <2>2. CASE job.ctx.flow = "readonly"
      BY <1>0, <1>1, <1>3, <2>1, <2>2, MoveFollows
         DEF RouteContinuation, StaysInExecutor, ReadonlyPoint, LoopPoint
    <2>3. CASE job.ctx.flow = "workflow"
      BY <1>0, <1>1, <1>3, <2>1, <2>3, MoveFollows
         DEF RouteContinuation, StaysInExecutor, WorkflowPoint
    <2>4. QED
      BY <1>1, <1>3, <2>2, <2>3 DEF RouteContinuation, Continues
  <1>4. QED
    BY <1>2, <1>3

\* Responses, the failure handler and an exception in the worker.
LEMMA ResponseFollows ==
    ASSUME TypeInv,
           \/ PublishPrompt \/ PublishResponse \/ MarkFailed \/ PublishFailure
           \/ StampResponse \/ WorkerRaises
    PROVE  /\ Finishes \/ (Follows /\ StaysInExecutor /\ job'.at \notin {"call", "observe"})
           /\ UNCHANGED <<record, effects>>
  <1> USE DEF runVars, sideVars, requestVars
  <1>0. {"stamp", "apology", "last", "failing"} \subseteq JobPoint
    BY DEF JobPoint
  <1>1. UNCHANGED <<mode, checkpoint, pc, ask, record, effects>>
    BY DEF PublishPrompt, PublishResponse, MarkFailed, PublishFailure, StampResponse,
           WorkerRaises, BumpVersion
  <1>2. job' = NoJob \/ \E point \in {"stamp", "apology", "last", "failing"} : Move(point)
    BY DEF PublishPrompt, PublishResponse, MarkFailed, PublishFailure, StampResponse,
           WorkerRaises, Move
  <1>3. job \in Job
    BY JobTyped DEF PublishPrompt, PublishResponse, MarkFailed, PublishFailure,
                    StampResponse, WorkerRaises, At
  <1>4. CASE job' = NoJob
    BY <1>1, <1>4 DEF Finishes
  <1>5. ASSUME NEW point \in {"stamp", "apology", "last", "failing"}, Move(point)
        PROVE  Follows /\ StaysInExecutor /\ job'.at \notin {"call", "observe"}
    BY <1>0, <1>1, <1>3, <1>5, MoveFollows
       DEF StaysInExecutor, ReadonlyPoint, WorkflowPoint, LoopPoint
  <1>6. QED
    BY <1>1, <1>2, <1>4, <1>5

\* Low-risk writes stay in the workflow executor.
LEMMA WriteFollows ==
    ASSUME TypeInv,
           \/ ClaimRecord \/ ParkUnknown
           \/ \E acts \in BOOLEAN : CallSystem(acts)
           \/ \E outcome \in DOMAIN LowRiskStatus : ObserveOutcome(outcome)
    PROVE  Follows /\ StaysInExecutor
  <1> USE DEF runVars, sideVars, requestVars
  <1>0. /\ {"call", "ticket", "observe", "failing", "prompt", "publish"} \subseteq JobPoint
        /\ "waiting_human" \in RunStatus
    BY DEF JobPoint, RunStatus, Waiting
  <1>1. job.at \in WorkflowPoint /\ job.at # "idle"
    BY DEF ClaimRecord, ParkUnknown, CallSystem, ObserveOutcome, At, WorkflowPoint
  <1>2. job \in Job /\ job.ctx \in Context
    BY <1>1, JobTyped DEF Job
  <1>3. CASE ClaimRecord
    <2>1. UNCHANGED <<mode, checkpoint, pc, ask>>
      BY <1>3 DEF ClaimRecord
    <2>2. CASE record[job.run] = "none"
      BY <1>0, <1>1, <1>2, <1>3, <2>1, <2>2, MoveFollows
         DEF ClaimRecord, StaysInExecutor, WorkflowPoint
    <2>3. CASE record[job.run] # "none"
      <3> DEFINE counted == [job.ctx EXCEPT !.steps = job.ctx.steps + 1]
      <3>1. counted \in Context /\ counted.flow = job.ctx.flow
        BY <1>2 DEF Context
      <3>2. job' = [job EXCEPT !.at = "ticket", !.ctx = counted]
        BY <1>2, <1>3, <2>3 DEF ClaimRecord, Job
      <3> HIDE DEF counted
      <3>3. job' \in Job /\ job'.at = "ticket" /\ job'.run = job.run /\ job'.ctx = counted
        BY <1>0, <1>2, <3>1, <3>2 DEF Job
      <3>4. QED
        BY <1>1, <2>1, <3>1, <3>3 DEF Follows, KeepsFlow, StaysInExecutor, WorkflowPoint
    <2>4. QED
      BY <2>2, <2>3
  <1>4. CASE ParkUnknown
    <2>0. UNCHANGED <<pc, ask>>
      BY <1>4 DEF ParkUnknown
    <2> DEFINE stored == Advanced(job.ctx, "waiting_human", job.ctx.reason)
               ctx == [stored EXCEPT !.steps = job.ctx.steps]
    <2>1. CASE Committable(job.run, job.ctx, "waiting_human")
      <3>1. CommitStep(job.run, ctx) /\ job' = [job EXCEPT !.ctx = ctx, !.at = "prompt"]
        BY <1>4, <2>1 DEF ParkUnknown
      <3>2. ctx \in Context /\ ctx.flow = job.ctx.flow
        <4>1. stored \in Context /\ stored.flow = job.ctx.flow /\ job.ctx.steps \in Nat
          BY <1>0, <1>2, AdvancedType DEF Context
        <4> HIDE DEF stored
        <4>2. QED
          BY <4>1 DEF Context
      <3> HIDE DEF ctx
      <3>3. job' \in Job /\ job'.at = "prompt" /\ job'.ctx = ctx /\ job'.run = job.run
        BY <1>0, <1>2, <3>1, <3>2, StoreTypes
      <3>4. KeepsFlow /\ mode' = mode
        BY <3>1, <3>2 DEF KeepsFlow, CommitStep
      <3>5. QED
        BY <2>0, <3>2, <3>3, <3>4
           DEF Follows, StaysInExecutor, ReadonlyPoint, WorkflowPoint, LoopPoint
    <2>2. CASE ~Committable(job.run, job.ctx, "waiting_human")
      BY <1>0, <1>2, <1>4, <2>0, <2>2, MoveFollows
         DEF ParkUnknown, StaysInExecutor, ReadonlyPoint, WorkflowPoint, LoopPoint
    <2>3. QED
      BY <2>1, <2>2
  <1>5. ASSUME NEW acts \in BOOLEAN, CallSystem(acts)
        PROVE  Follows /\ StaysInExecutor
    BY <1>0, <1>1, <1>2, <1>5, MoveFollows DEF CallSystem, StaysInExecutor, WorkflowPoint
  <1>6. ASSUME NEW outcome \in DOMAIN LowRiskStatus, ObserveOutcome(outcome)
        PROVE  Follows /\ StaysInExecutor
    <2> DEFINE next == LowRiskStatus[outcome]
    <2>1. next \in RunStatus
      BY DEF LowRiskStatus, RunStatus, Terminal, Waiting
    <2>2. PICK point \in {"ticket", "publish"} : Checkpoint(next, job.ctx.reason, point)
      BY <1>6 DEF ObserveOutcome
    <2>3. UNCHANGED <<pc, ask>> /\ job.ctx.reason \in {"none", "stop"}
      BY <1>2, <1>6 DEF ObserveOutcome, Context
    <2> HIDE DEF next
    <2>4. Follows /\ job'.at \in {point, "failing"}
      BY <1>0, <1>2, <2>1, <2>2, <2>3, CheckpointFollows
    <2>5. QED
      BY <1>1, <2>4 DEF StaysInExecutor, ReadonlyPoint, WorkflowPoint, LoopPoint
  <1>7. QED
    BY <1>3, <1>4, <1>5, <1>6

-------------------------------------------------------------------------------
(***************************************************************************)
(* What requests leave alone                                               *)
(***************************************************************************)

\* The steps at which a request holds a context it is going to store.
HoldsContext == {"withdraw", "decide"}

\* No request takes part in the execution of a run.
LEMMA RequestQuiet ==
    ASSUME NEW q \in Requests, RequestArrives(q) \/ RequestStep(q)
    PROVE  UNCHANGED <<job, mode, record, effects>>
  BY Zenon DEF RequestArrives, RequestStep, Send, Retry, Cancel, Resolve, Review, LoadContext,
         FindActive, AppendAnswer, CreateRun, AppendFirst, ReleaseRun, Submit, Withdraw,
         Decide, EndRun, CommitStep, StampCancel, BumpVersion, SettleTicket, OpenReview,
         PublishEnd, StampEnd, runVars, sideVars, workerVars

\* A request leaves what the others have found out alone.
LEMMA ProceedLocal ==
    ASSUME TypeInv, NEW q \in Requests, NEW request, NEW step, Proceed(q, request, step)
    PROVE  /\ \A r \in Requests \ {q} : pc'[r] = pc[r] /\ ask'[r] = ask[r]
           /\ pc'[q] = step
           /\ step # "over" => ask'[q] = request
  BY DEF Proceed, TypeInv, TypeOK

\* A request comes to hold a context only by loading the newest checkpoint.
LEMMA ArrivalHolds ==
    ASSUME TypeInv, NEW q \in Requests, RequestArrives(q)
    PROVE  /\ checkpoint' = checkpoint
           /\ \A r \in Requests \ {q} : pc'[r] = pc[r] /\ ask'[r] = ask[r]
           /\ pc'[q] \in HoldsContext => ask'[q].ctx = checkpoint[ask'[q].run]
  <1>1. checkpoint' = checkpoint
    BY Zenon DEF RequestArrives, Send, Retry, Cancel, Resolve, Review, LoadContext, runVars
  <1>2. CASE \/ \E key \in Keys, text \in Texts : Send(q, key, text)
             \/ \E run \in Runs, key \in Keys : Retry(q, run, key)
             \/ \E run \in Runs : Review(q, run)
    <2>1. ASSUME NEW request, NEW step \in {"active", "over", "create", "review"},
                 Start(q, request, step)
          PROVE  /\ \A r \in Requests \ {q} : pc'[r] = pc[r] /\ ask'[r] = ask[r]
                 /\ pc'[q] \notin HoldsContext
      BY <2>1, ProceedLocal DEF Start, HoldsContext
    <2>2. CASE \E key \in Keys, text \in Texts : Send(q, key, text)
      BY <1>1, <2>1, <2>2 DEF Send
    <2>3. CASE \E run \in Runs, key \in Keys : Retry(q, run, key)
      BY <1>1, <2>1, <2>3 DEF Retry
    <2>4. CASE \E run \in Runs : Review(q, run)
      BY <1>1, <2>1, <2>4 DEF Review
    <2>5. QED
      BY <1>2, <2>2, <2>3, <2>4
  <1>3. ASSUME NEW kind, NEW run, NEW goal, NEW step \in HoldsContext,
               LoadContext(q, kind, run, goal, step)
        PROVE  /\ \A r \in Requests \ {q} : pc'[r] = pc[r] /\ ask'[r] = ask[r]
               /\ ask'[q].ctx = checkpoint[ask'[q].run]
    <2> DEFINE request == [NoAsk EXCEPT !.kind = kind, !.run = run, !.goal = goal,
                                        !.ctx = checkpoint[run]]
    <2>1. Proceed(q, request, step)
      BY <1>3 DEF LoadContext, Start
    <2>2. request.run = run /\ request.ctx = checkpoint[run]
      BY DEF NoAsk
    <2>3. step # "over"
      BY DEF HoldsContext
    <2> HIDE DEF request
    <2>4. QED
      BY <2>1, <2>2, <2>3, ProceedLocal
  <1>4. CASE \E run \in Runs : Cancel(q, run)
    BY <1>1, <1>3, <1>4 DEF Cancel, HoldsContext
  <1>5. CASE \E run \in Runs, goal \in {"completed", "failed"} : Resolve(q, run, goal)
    BY <1>1, <1>3, <1>5 DEF Resolve, HoldsContext
  <1>6. QED
    BY <1>2, <1>4, <1>5 DEF RequestArrives

\* A request that stores a context keeps the executor in it.
LEMMA RequestHolds ==
    ASSUME TypeInv, NEW q \in Requests, RequestStep(q)
    PROVE  /\ \A r \in Requests \ {q} : pc'[r] = pc[r] /\ ask'[r] = ask[r]
           /\ pc'[q] \notin HoldsContext
           /\ \/ checkpoint' = checkpoint
              \/ /\ pc[q] \in HoldsContext
                 /\ \E ctx \in Context :
                        /\ ctx.flow = ask[q].ctx.flow
                        /\ checkpoint' = [checkpoint EXCEPT ![ask[q].run] = ctx]
  <1>1. ASSUME NEW request, NEW step, Proceed(q, request, step), step \notin HoldsContext
        PROVE  /\ \A r \in Requests \ {q} : pc'[r] = pc[r] /\ ask'[r] = ask[r]
               /\ pc'[q] \notin HoldsContext
    BY <1>1, ProceedLocal
  <1>2. /\ \A r \in Requests \ {q} : pc'[r] = pc[r] /\ ask'[r] = ask[r]
        /\ pc'[q] \notin HoldsContext
    <2>0. {"answer", "create", "append", "submit", "over", "release", "reason", "settle",
           "publish", "stamp"} \cap HoldsContext = {}
      BY DEF HoldsContext
    <2>1. CASE FindActive(q)
      <3>1. CASE \E run \in Runs : Proceed(q, [ask[q] EXCEPT !.run = run], "answer")
        BY <1>1, <2>0, <3>1
      <3>2. CASE Goto(q, "create")
        BY <1>1, <2>0, <3>2 DEF Goto
      <3>3. QED
        BY <2>1, <3>1, <3>2 DEF FindActive
    <2>2. CASE AppendAnswer(q) \/ AppendFirst(q)
      <3>1. \E step \in {"submit", "over", "release"} : Goto(q, step)
        BY <2>2 DEF AppendAnswer, AppendFirst, AppendUser
      <3>2. QED
        BY <1>1, <2>0, <3>1 DEF Goto
    <2>3. CASE CreateRun(q)
      <3>1. CASE Proceed(q, [ask[q] EXCEPT !.run = q], "append")
        BY <1>1, <2>0, <3>1
      <3>2. CASE Goto(q, "over")
        BY <1>1, <2>0, <3>2 DEF Goto
      <3>3. QED
        BY <2>3, <3>1, <3>2 DEF CreateRun
    <2>4. CASE Withdraw(q) \/ Decide(q)
      <3>1. \E step \in {"reason", "settle", "over"} : Goto(q, step)
        BY <2>4 DEF Withdraw, Decide, EndRun
      <3>2. QED
        BY <1>1, <2>0, <3>1 DEF Goto
    <2>5. CASE \/ ReleaseRun(q) \/ Submit(q) \/ StampCancel(q) \/ SettleTicket(q)
               \/ OpenReview(q) \/ PublishEnd(q) \/ StampEnd(q)
      <3>1. \E step \in {"publish", "over", "stamp"} : Goto(q, step)
        BY <2>5 DEF ReleaseRun, Submit, StampCancel, SettleTicket, OpenReview, PublishEnd,
                    StampEnd
      <3>2. QED
        BY <1>1, <2>0, <3>1 DEF Goto
    <2>6. QED
      BY <2>1, <2>2, <2>3, <2>4, <2>5 DEF RequestStep
  <1>3. CASE Withdraw(q) \/ Decide(q)
    <2>1. pc[q] \in HoldsContext
      BY <1>3 DEF Withdraw, Decide, EndRun, HoldsContext
    <2>2. ask[q] \in Ask /\ ask[q].goal \in Terminal
      BY <2>1 DEF TypeInv, AskShape, HoldsContext, Serving
    <2> DEFINE ctx == Advanced(ask[q].ctx, ask[q].goal, ask[q].ctx.reason)
    <2>3. ctx \in Context /\ ctx.flow = ask[q].ctx.flow
      <3>1. ask[q].ctx \in Context /\ ask[q].goal \in RunStatus
        BY <2>2 DEF Ask, RunStatus
      <3>2. ask[q].ctx.reason \in {"none", "stop"}
        BY <3>1 DEF Context
      <3>3. QED
        BY <3>1, <3>2, AdvancedType
    <2>4. checkpoint' = checkpoint \/ checkpoint' = [checkpoint EXCEPT ![ask[q].run] = ctx]
      BY <1>3 DEF Withdraw, Decide, EndRun, CommitStep, runVars
    <2> HIDE DEF ctx
    <2>5. QED
      BY <1>2, <2>1, <2>3, <2>4
  <1>4. CASE ~(Withdraw(q) \/ Decide(q))
    <2>1. checkpoint' = checkpoint
      BY <1>4 DEF RequestStep, FindActive, AppendAnswer, CreateRun, AppendFirst, ReleaseRun,
                  Submit, StampCancel, BumpVersion, SettleTicket, OpenReview, PublishEnd,
                  StampEnd, runVars
    <2>2. QED
      BY <1>2, <2>1
  <1>5. QED
    BY <1>3, <1>4

-------------------------------------------------------------------------------
(***************************************************************************)
(* The executor of a run                                                   *)
(***************************************************************************)

\* Every context that names an executor, in a checkpoint, in a request that is
\* going to store it or in the job, names the one the row has locked.
CheckpointLocked ==
    \A run \in Runs : checkpoint[run].flow # "none" => mode[run] = checkpoint[run].flow
AskLocked ==
    \A q \in Requests :
        pc[q] \in HoldsContext /\ ask[q].ctx.flow # "none" =>
            mode[ask[q].run] = ask[q].ctx.flow
JobLocked ==
    job.at # "idle" =>
        /\ job.ctx.flow # "none" => mode[job.run] = job.ctx.flow
        /\ job.at \in ReadonlyPoint => job.ctx.flow = "readonly"
        /\ job.at \in WorkflowPoint => job.ctx.flow = "workflow"
LockInv == CheckpointLocked /\ AskLocked /\ JobLocked

\* A row that has an executor keeps it; only a row without one gets one.
LocksOnce == \A run \in Runs : mode'[run] = mode[run] \/ mode[run] = "none"

\* A job that goes on within its executor.
LEMMA FollowsLocked ==
    ASSUME TypeInv, LockInv, job \in Job, Follows, StaysInExecutor
    PROVE  LockInv' /\ LocksOnce
  <1>1. /\ job.run \in Runs /\ job.ctx.flow \in {"none", "readonly", "workflow"}
        /\ job.at # "idle"
    BY DEF Job, Context, JobPoint
  <1>2. CheckpointLocked'
    <2>1. CASE checkpoint' = checkpoint
      BY <2>1 DEF LockInv, CheckpointLocked, Follows
    <2>2. ASSUME NEW ctx \in Context, ctx.flow = job.ctx.flow,
                 checkpoint' = [checkpoint EXCEPT ![job.run] = ctx]
          PROVE  CheckpointLocked'
      <3>1. checkpoint \in [Runs -> Context] /\ mode' = mode
        BY DEF TypeInv, TypeOK, Follows
      <3>2. ctx.flow # "none" => mode[job.run] = ctx.flow
        BY <1>1, <2>2 DEF LockInv, JobLocked
      <3>3. QED
        BY <1>1, <2>2, <3>1, <3>2 DEF LockInv, CheckpointLocked
    <2>3. QED
      BY <2>1, <2>2 DEF Follows, KeepsFlow
  <1>3. AskLocked'
    BY DEF LockInv, AskLocked, Follows
  <1>4. JobLocked'
    BY <1>1 DEF LockInv, JobLocked, Follows, StaysInExecutor, At, ReadonlyPoint, LoopPoint,
                WorkflowPoint
  <1>5. QED
    BY <1>2, <1>3, <1>4 DEF LockInv, LocksOnce, Follows

\* A job that is over.
LEMMA FinishesLocked ==
    ASSUME LockInv, Finishes
    PROVE  LockInv' /\ LocksOnce
  <1>1. job'.at = "idle"
    BY NoJobIdle DEF Finishes
  <1>2. QED
    BY <1>1 DEF LockInv, LocksOnce, CheckpointLocked, AskLocked, JobLocked, Finishes

\* A job starts from the newest checkpoint, before any executor.
LEMMA TakeJobLocked ==
    ASSUME TypeInv, LockInv, TakeJob
    PROVE  LockInv' /\ LocksOnce
  <1>1. UNCHANGED <<mode, checkpoint, pc, ask>>
    BY DEF TakeJob, runVars, requestVars
  <1> DEFINE run == Head(queue).run
             point == IF Overrun(run) THEN "failing" ELSE "route"
             ctx == Resumed(checkpoint[run])
  <1>2. run \in Runs
    <2>1. queue \in Seq(QueuedJob) /\ queue # <<>>
      BY DEF TakeJob, TypeInv, TypeOK
    <2>2. Head(queue) \in QueuedJob
      BY <2>1
    <2>3. QED
      BY <2>2 DEF QueuedJob
  <1>3. job' = [run |-> run, text |-> Head(queue).text, at |-> point, ctx |-> ctx]
    BY DEF TakeJob
  <1>4. ctx.flow = checkpoint[run].flow
    BY <1>2, ResumedType DEF TypeInv, TypeOK
  <1>5. point \in {"failing", "route"}
    OBVIOUS
  <1> HIDE DEF run, point, ctx
  <1>6. job'.run = run /\ job'.at = point /\ job'.ctx = ctx
    BY <1>3
  <1>7. JobLocked'
    BY <1>1, <1>2, <1>4, <1>5, <1>6
       DEF LockInv, CheckpointLocked, JobLocked, ReadonlyPoint, WorkflowPoint, LoopPoint
  <1>8. QED
    BY <1>1, <1>7 DEF LockInv, LocksOnce, CheckpointLocked, AskLocked

\* select_route locks the executor of a row that has none, so no context can
\* have named another.
LEMMA RouteLocked ==
    ASSUME TypeInv, LockInv, NEW route \in Routes, RouteClassified(route)
    PROVE  LockInv' /\ LocksOnce
  <1> DEFINE flow == RoutedFlow[route]
             point == RoutedPoint[route]
  <1>1. job \in Job /\ job.run \in Runs /\ job.ctx \in Context /\ job.at = "route"
    BY JobTyped DEF RouteClassified, At, Job
  <1>2. /\ point \in JobPoint
        /\ flow \in {"none", "readonly", "workflow"}
        /\ point \in ReadonlyPoint => flow = "readonly"
        /\ point \in WorkflowPoint => flow = "workflow"
    BY RoutesKnown DEF RouteOutcome, RoutedFlow, RoutedPoint, JobPoint, ReadonlyPoint,
                       WorkflowPoint, LoopPoint
  <1>3. UNCHANGED <<checkpoint, pc, ask>>
    BY DEF RouteClassified, requestVars
  <1>4. CASE CanSelect(job.run)
    <2> DEFINE locked == [job.ctx EXCEPT !.flow = IF flow = "none" THEN job.ctx.flow
                                                  ELSE flow]
    <2>1. /\ mode' = [mode EXCEPT ![job.run] = flow]
          /\ job' = [job EXCEPT !.at = point,
                        !.ctx.flow = IF flow = "none" THEN job.ctx.flow ELSE flow]
      BY <1>4 DEF RouteClassified
    <2>2. mode[job.run] = "none" /\ mode \in [Runs -> {"none", "readonly", "workflow"}]
      BY <1>4 DEF CanSelect, TypeInv, TypeOK
    <2>3. job.ctx.flow = "none"
      <3>1. job.ctx.flow \in {"none", "readonly", "workflow"}
        BY <1>1 DEF Context
      <3>2. QED
        BY <1>1, <2>2, <3>1 DEF LockInv, JobLocked
    <2>4. locked.flow = flow
      BY <1>1, <1>2, <2>3 DEF Context
    <2>5. job' = [job EXCEPT !.at = point, !.ctx = locked]
      BY <1>1, <2>1 DEF Job
    <2> HIDE DEF locked, flow, point
    <2>6. job'.run = job.run /\ job'.at = point /\ job'.ctx = locked
      BY <1>1, <2>5 DEF Job
    <2>7. /\ mode'[job.run] = flow
          /\ \A run \in Runs : run # job.run => mode'[run] = mode[run]
      BY <1>1, <2>1, <2>2
    <2>8. JobLocked'
      BY <1>2, <2>4, <2>6, <2>7 DEF JobLocked
    <2>9. CheckpointLocked'
      <3> SUFFICES ASSUME NEW run \in Runs, checkpoint[run].flow # "none"
                   PROVE  mode'[run] = checkpoint[run].flow
        BY <1>3 DEF CheckpointLocked
      <3>1. mode[run] = checkpoint[run].flow
        BY DEF LockInv, CheckpointLocked
      <3>2. QED
        BY <2>2, <2>7, <3>1
    <2>10. AskLocked'
      <3> SUFFICES ASSUME NEW q \in Requests, pc[q] \in HoldsContext,
                          ask[q].ctx.flow # "none"
                   PROVE  mode'[ask[q].run] = ask[q].ctx.flow
        BY <1>3 DEF AskLocked
      <3>1. mode[ask[q].run] = ask[q].ctx.flow
        BY DEF LockInv, AskLocked
      <3>2. ask[q].run \in Runs
        BY DEF TypeInv, AskShape, HoldsContext, Serving
      <3>3. QED
        BY <2>2, <2>7, <3>1, <3>2
    <2>11. LocksOnce
      BY <2>2, <2>7 DEF LocksOnce
    <2>12. QED
      BY <2>8, <2>9, <2>10, <2>11 DEF LockInv
  <1>5. CASE ~CanSelect(job.run)
    <2>1. Move("failing") /\ mode' = mode
      BY <1>5 DEF RouteClassified
    <2>2. "failing" \in JobPoint
      BY DEF JobPoint
    <2>3. Follows /\ job'.at = "failing"
      BY <1>1, <1>3, <2>1, <2>2, MoveFollows
    <2>4. StaysInExecutor
      BY <2>3 DEF StaysInExecutor, ReadonlyPoint, WorkflowPoint, LoopPoint
    <2>5. QED
      BY <1>1, <2>3, <2>4, FollowsLocked
  <1>6. QED
    BY <1>4, <1>5

\* A request stores the executor it loaded; the row cannot have changed it since.
LEMMA RequestLocked ==
    ASSUME TypeInv, LockInv, NEW q \in Requests, RequestArrives(q) \/ RequestStep(q)
    PROVE  LockInv' /\ LocksOnce
  <1>1. UNCHANGED <<job, mode>>
    BY RequestQuiet
  <1>2. JobLocked' /\ LocksOnce
    BY <1>1 DEF LockInv, JobLocked, LocksOnce
  <1>3. CASE RequestArrives(q)
    <2>1. /\ checkpoint' = checkpoint
          /\ \A r \in Requests \ {q} : pc'[r] = pc[r] /\ ask'[r] = ask[r]
          /\ pc'[q] \in HoldsContext => ask'[q].ctx = checkpoint[ask'[q].run]
      BY <1>3, ArrivalHolds
    <2>2. pc'[q] \in HoldsContext => ask'[q].run \in Runs
      BY <1>3, ArrivalTypes DEF TypeInv, AskShape, HoldsContext, Serving
    <2>3. AskLocked'
      BY <1>1, <2>1, <2>2 DEF LockInv, AskLocked, CheckpointLocked
    <2>4. QED
      BY <1>1, <1>2, <2>1, <2>3 DEF LockInv, CheckpointLocked
  <1>4. CASE RequestStep(q)
    <2>1. /\ \A r \in Requests \ {q} : pc'[r] = pc[r] /\ ask'[r] = ask[r]
          /\ pc'[q] \notin HoldsContext
      BY <1>4, RequestHolds
    <2>2. AskLocked'
      BY <1>1, <2>1 DEF LockInv, AskLocked
    <2>3. CASE checkpoint' = checkpoint
      BY <1>1, <1>2, <2>2, <2>3 DEF LockInv, CheckpointLocked
    <2>4. ASSUME pc[q] \in HoldsContext, NEW ctx \in Context,
                 ctx.flow = ask[q].ctx.flow,
                 checkpoint' = [checkpoint EXCEPT ![ask[q].run] = ctx]
          PROVE  CheckpointLocked'
      <3>1. ask[q].run \in Runs
        BY <2>4 DEF TypeInv, AskShape, HoldsContext, Serving
      <3>2. ctx.flow # "none" => mode[ask[q].run] = ctx.flow
        BY <2>4 DEF LockInv, AskLocked
      <3>3. checkpoint \in [Runs -> Context]
        BY DEF TypeInv, TypeOK
      <3>4. QED
        BY <1>1, <2>4, <3>1, <3>2, <3>3 DEF LockInv, CheckpointLocked
    <2>5. QED
      BY <1>2, <1>4, <2>2, <2>3, <2>4, RequestHolds DEF LockInv
  <1>5. QED
    BY <1>3, <1>4

\* The startup hook writes no checkpoint and drops whatever was held in memory.
LEMMA RestartLocked ==
    ASSUME TypeInv, LockInv, NEW late \in SUBSET Runs, Restart(late)
    PROVE  LockInv' /\ LocksOnce
  <1>1. UNCHANGED <<mode, checkpoint>> /\ job' = NoJob
    BY DEF Restart
  <1>2. \A q \in Requests : pc'[q] \notin HoldsContext
    <2>1. pc' = [q \in Requests |-> IF pc[q] \in Serving THEN "over" ELSE pc[q]]
      BY DEF Restart
    <2>2. QED
      BY <2>1 DEF HoldsContext, Serving
  <1>3. job'.at = "idle"
    BY <1>1, NoJobIdle
  <1>4. QED
    BY <1>1, <1>2, <1>3 DEF LockInv, LocksOnce, CheckpointLocked, AskLocked, JobLocked

\* LockInv is inductive, and no step replaces an executor.
LEMMA LockStep ==
    ASSUME TypeInv, LockInv, [Next]_vars
    PROVE  LockInv' /\ LocksOnce
  <1>1. CASE UNCHANGED vars
    BY <1>1 DEF vars, LockInv, LocksOnce, CheckpointLocked, AskLocked, JobLocked
  <1>2. CASE WorkerStep \/ WorkerRaises
    <2>1. CASE TakeJob
      BY <2>1, TakeJobLocked
    <2>2. CASE \E route \in Routes : RouteClassified(route)
      BY <2>2, RouteLocked
    <2>3. ASSUME ~TakeJob, ~\E route \in Routes : RouteClassified(route)
          PROVE  /\ job \in Job
                 /\ Finishes \/ (Follows /\ StaysInExecutor)
      <3>1. Finishes \/ (Follows /\ StaysInExecutor)
        BY <1>2, <2>3, RoutingFollows, ExecutionFollows, WriteFollows, ResponseFollows
           DEF WorkerStep
      <3>2. job.at # "idle"
        BY <1>2, <2>3
           DEF WorkerStep, WorkerRaises, RouteUnsafe, RouteContinuation, CreateTicket, Park,
               AskUser, Converse, LoopContinues, LoopDecides, LoopStops, LoopPoint,
               LoopRepeats, NoProgress, StampReason, Prepare, BeginLowRisk, ClaimRecord,
               ParkUnknown, WorkflowRefuses, CallSystem, ObserveOutcome, PublishPrompt,
               PublishResponse, MarkFailed, PublishFailure, StampResponse, CheckpointAt, At
      <3>3. QED
        BY <3>1, <3>2, JobTyped
    <2>4. QED
      BY <2>1, <2>2, <2>3, FollowsLocked, FinishesLocked
  <1>3. QED
    BY <1>1, <1>2, RequestLocked, RestartLocked DEF Next

\* No context names an executor initially.
LEMMA LockInit ==
    ASSUME Init
    PROVE  LockInv
  <1>1. CheckpointLocked
    BY DEF Init, CheckpointLocked, NoCheckpoint
  <1>2. AskLocked
    BY DEF Init, AskLocked, HoldsContext
  <1>3. JobLocked
    BY NoJobIdle DEF Init, JobLocked
  <1>4. QED
    BY <1>1, <1>2, <1>3 DEF LockInv

\* Whatever the answers, restarts, repeated jobs and failures, the worker is in
\* the readonly loop only for a run locked to readonly, and in a workflow only
\* for a run locked to workflow (select_route, execute_message_run).
THEOREM LockedExecutor == Spec => []ExecutesLockedMode
  <1>1. LockInv => ExecutesLockedMode
    BY DEF LockInv, JobLocked, ExecutesLockedMode, ReadonlyPoint, WorkflowPoint, LoopPoint
  <1>2. QED
    BY <1>1, LockInit, LockStep, TypeInvAlways, PTL DEF Spec

\* A run whose executor has been chosen is never given another one.
THEOREM RouteIsFinal == Spec => RoutedOnce
  <1>1. LocksOnce => (\A run \in Runs : mode[run] # "none" => mode'[run] = mode[run])
    BY DEF LocksOnce
  <1>2. TypeInv /\ LockInv /\ [Next]_vars =>
            [\A run \in Runs : mode[run] # "none" => mode'[run] = mode[run]]_vars
    BY <1>1, LockStep
  <1>3. QED
    BY <1>2, LockInit, LockStep, TypeInvAlways, PTL DEF Spec, RoutedOnce

-------------------------------------------------------------------------------
(***************************************************************************)
(* Low-risk writes                                                         *)
(***************************************************************************)

\* The business system is called only behind a record that has just been
\* claimed, and the record leaves in_progress only with what was observed.
EffectInv ==
    /\ EffectBehindRecord
    /\ \A run \in Runs : record[run] = "none" => effects[run] = 0
    /\ At("call") => record[job.run] = "in_progress" /\ effects[job.run] = 0
    /\ At("observe") => record[job.run] = "in_progress"

\* Steps that neither call the system nor write the record.
LEMMA QuietEffects ==
    ASSUME EffectInv, UNCHANGED <<record, effects>>,
           job' = job \/ job'.at \notin {"call", "observe"}
    PROVE  EffectInv'
  BY DEF EffectInv, EffectBehindRecord, At

\* execute_low_risk: claim, call, observe.
LEMMA WriteEffects ==
    ASSUME TypeInv, EffectInv,
           \/ ClaimRecord \/ ParkUnknown
           \/ \E acts \in BOOLEAN : CallSystem(acts)
           \/ \E outcome \in DOMAIN LowRiskStatus : ObserveOutcome(outcome)
    PROVE  EffectInv'
  <1> USE DEF runVars, sideVars
  <1>0. {"call", "ticket", "observe", "failing", "prompt", "publish"} \subseteq JobPoint
    BY DEF JobPoint
  <1>1. job \in Job /\ job.run \in Runs /\ job.ctx \in Context
    BY JobTyped DEF ClaimRecord, ParkUnknown, CallSystem, ObserveOutcome, At, Job
  <1>2. job'.run = job.run
    BY WriteFollows DEF Follows
  <1>3. /\ record \in [Runs -> {"none", "in_progress", "succeeded", "failed", "unknown"}]
        /\ effects \in [Runs -> Nat]
    BY DEF TypeInv, TypeOK
  <1>4. CASE ClaimRecord
    <2>1. effects' = effects
      BY <1>4 DEF ClaimRecord
    <2>2. CASE record[job.run] = "none"
      <3>1. record' = [record EXCEPT ![job.run] = "in_progress"] /\ Move("call")
        BY <1>4, <2>2 DEF ClaimRecord
      <3>2. job'.at = "call"
        BY <1>0, <1>1, <3>1, MoveTypes
      <3>3. effects[job.run] = 0
        BY <1>1, <2>2 DEF EffectInv
      <3>4. QED
        BY <1>1, <1>2, <1>3, <2>1, <3>1, <3>2, <3>3 DEF EffectInv, EffectBehindRecord, At
    <2>3. CASE record[job.run] # "none"
      <3>1. record' = record /\ job' = [job EXCEPT !.at = "ticket", !.ctx.steps = @ + 1]
        BY <1>4, <2>3 DEF ClaimRecord
      <3>2. job'.at = "ticket"
        BY <1>1, <3>1 DEF Job
      <3>3. QED
        BY <2>1, <3>1, <3>2, QuietEffects
    <2>4. QED
      BY <2>2, <2>3
  <1>5. CASE ParkUnknown
    <2>1. UNCHANGED <<record, effects>>
      BY <1>5 DEF ParkUnknown
    <2>2. \/ job' = [job EXCEPT !.at = "failing"]
          \/ \E ctx : job' = [job EXCEPT !.ctx = ctx, !.at = "prompt"]
      BY <1>5, Zenon DEF ParkUnknown, Move
    <2>3. job'.at \in {"failing", "prompt"}
      BY <1>1, <2>2 DEF Job
    <2>4. QED
      BY <2>1, <2>3, QuietEffects
  <1>6. ASSUME NEW acts \in BOOLEAN, CallSystem(acts)
        PROVE  EffectInv'
    <2>1. /\ record' = record
          /\ effects' = [effects EXCEPT ![job.run] = IF acts THEN @ + 1 ELSE @]
          /\ Move("observe")
      BY <1>6 DEF CallSystem
    <2>2. job'.at = "observe"
      BY <1>0, <1>1, <2>1, MoveTypes
    <2>3. record[job.run] = "in_progress" /\ effects[job.run] = 0
      BY <1>6 DEF EffectInv, CallSystem
    <2>4. effects'[job.run] \in {0, 1}
      BY <1>1, <1>3, <2>1, <2>3
    <2>5. \A run \in Runs : run # job.run => effects'[run] = effects[run]
      BY <1>1, <1>3, <2>1
    <2>6. QED
      BY <1>1, <1>2, <1>3, <2>1, <2>2, <2>3, <2>4, <2>5
         DEF EffectInv, EffectBehindRecord, At
  <1>7. ASSUME NEW outcome \in DOMAIN LowRiskStatus, ObserveOutcome(outcome)
        PROVE  EffectInv'
    <2> DEFINE next == LowRiskStatus[outcome]
    <2>1. effects' = effects
      BY <1>7 DEF ObserveOutcome
    <2>2. outcome \in {"succeeded", "failed", "unknown"} /\ next \in RunStatus
      BY DEF LowRiskStatus, RunStatus, Terminal, Waiting
    <2>3. outcome = "failed" => effects[job.run] = 0
      BY <1>7 DEF ObserveOutcome
    <2>4. record' = record \/ record' = [record EXCEPT ![job.run] = outcome]
      BY <1>7 DEF ObserveOutcome
    <2>5. PICK point \in {"ticket", "publish"} : Checkpoint(next, job.ctx.reason, point)
      BY <1>7 DEF ObserveOutcome
    <2>6. UNCHANGED <<pc, ask>> /\ job.ctx.reason \in {"none", "stop"}
      BY <1>1, <1>7 DEF ObserveOutcome, Context, requestVars
    <2> HIDE DEF next
    <2>7. job'.at \in {"ticket", "publish", "failing"}
      BY <1>0, <1>1, <2>2, <2>5, <2>6, CheckpointFollows
    <2>8. QED
      BY <1>1, <1>3, <2>1, <2>2, <2>3, <2>4, <2>7 DEF EffectInv, EffectBehindRecord, At
  <1>8. QED
    BY <1>4, <1>5, <1>6, <1>7

\* EffectInv is inductive.
LEMMA EffectStep ==
    ASSUME TypeInv, EffectInv, [Next]_vars
    PROVE  EffectInv'
  <1>1. CASE UNCHANGED vars
    BY <1>1, QuietEffects DEF vars
  <1>2. CASE TakeJob \/ \E route \in Routes : RouteClassified(route)
    <2>1. UNCHANGED <<record, effects>>
      BY <1>2 DEF TakeJob, RouteClassified, sideVars
    <2>2. CASE TakeJob
      <3>1. job'.at \in {"failing", "route"}
        BY <2>2 DEF TakeJob
      <3>2. QED
        BY <2>1, <3>1, QuietEffects
    <2>3. ASSUME NEW route \in Routes, RouteClassified(route)
          PROVE  EffectInv'
      <3>1. job \in Job
        BY <2>3, JobTyped DEF RouteClassified, At
      <3>2. RoutedPoint[route] \notin {"call", "observe"}
        BY RoutesKnown DEF RouteOutcome, RoutedPoint
      <3>3. job'.at \in {RoutedPoint[route], "failing"}
        BY <2>3, <3>1 DEF RouteClassified, Move, Job
      <3>4. QED
        BY <2>1, <3>2, <3>3, QuietEffects
    <2>4. QED
      BY <1>2, <2>2, <2>3
  <1>3. CASE (WorkerStep \/ WorkerRaises) /\ ~TakeJob /\ ~\E route \in Routes : RouteClassified(route)
    <2>1. \/ EffectInv'
          \/ /\ UNCHANGED <<record, effects>>
             /\ Finishes \/ job'.at \notin {"call", "observe"}
      BY <1>3, RoutingFollows, ExecutionFollows, WriteEffects, ResponseFollows DEF WorkerStep
    <2>2. Finishes => job'.at = "idle"
      BY NoJobIdle DEF Finishes
    <2>3. QED
      BY <2>1, <2>2, QuietEffects
  <1>4. ASSUME NEW q \in Requests, RequestArrives(q) \/ RequestStep(q)
        PROVE  EffectInv'
    BY <1>4, RequestQuiet, QuietEffects
  <1>5. ASSUME NEW late \in SUBSET Runs, Restart(late)
        PROVE  EffectInv'
    <2>1. UNCHANGED <<record, effects>> /\ job'.at = "idle"
      BY <1>5, NoJobIdle DEF Restart, sideVars
    <2>2. QED
      BY <2>1, QuietEffects
  <1>6. QED
    BY <1>1, <1>2, <1>3, <1>4, <1>5 DEF Next

\* Nothing is recorded or done initially.
LEMMA EffectInit ==
    ASSUME Init
    PROVE  EffectInv
  BY NoJobIdle DEF Init, EffectInv, EffectBehindRecord, At

\* For every run the business system acts at most once, and never without a
\* record that says it may have, through exceptions, crashes and repeated jobs.
THEOREM WriteAtMostOnce == Spec => []EffectBehindRecord
  <1>1. EffectInv => EffectBehindRecord
    BY DEF EffectInv
  <1>2. QED
    BY <1>1, EffectInit, EffectStep, TypeInvAlways, PTL DEF Spec

-------------------------------------------------------------------------------
(***************************************************************************)
(* Who owns a run, and what has ended                                      *)
(***************************************************************************)

\* Nobody but the request that creates it has to do with the run yet.
Untouched(run) ==
    /\ checkpoint[run] = NoCheckpoint
    /\ OfRun(run) = {}
    /\ job.run # run
    /\ \A i \in DOMAIN queue : queue[i].run # run
    /\ \A p \in Requests \ {run} : ask[p].run # run

\* A run is touched only after its first message was stored.
FirstMessage ==
    \A q \in Requests :
        /\ pc[q] \in {"idle", "active", "create"} => status[q] = "absent"
        /\ status[q] = "absent" => Untouched(q) /\ ask[q].run # q
        /\ pc[q] \in {"append", "release"} =>
             status[q] = "created" /\ Untouched(q) /\ ask[q].run = q

\* uq_agent_runs_active_conversation
OneActive == \A r, s \in Runs : Active(r) /\ Active(s) => r = s

\* A run whose job is about to end has itself ended or paused.
SettledPoint == {"prompt", "reason", "publish", "stamp", "apology", "last"}
JobSettled == job.at \in SettledPoint => status[job.run] \notin Executing

OwnerInv == FirstMessage /\ OneActive /\ JobSettled /\ AcceptedIsOwned

\* Whoever is up to date with the row knows whether the run has ended: its
\* newest checkpoint, a request that is going to store one, and the job.
CheckpointKnows ==
    \A run \in Runs :
        /\ checkpoint[run].version <= version[run]
        /\ status[run] = "created" => checkpoint[run] = NoCheckpoint
        /\ checkpoint[run] # NoCheckpoint /\ checkpoint[run].version = version[run] =>
             status[run] = checkpoint[run].status
AskKnows ==
    \A q \in Requests : pc[q] \in HoldsContext =>
        /\ ask[q].ctx.version <= version[ask[q].run]
        /\ ask[q].ctx.version = version[ask[q].run] => status[ask[q].run] \notin Terminal

\* The points at which a job goes on executing; only a safety handoff comes
\* here for a run that has ended.
ExecutionPoint == {"handoff", "park", "ask", "chat", "loop", "again", "no_progress",
                   "workflow", "claim", "call", "observe", "ticket", "repark"}
JobKnows ==
    job.at # "idle" =>
        /\ job.ctx.version <= version[job.run]
        /\ job.ctx.version = version[job.run] /\ status[job.run] \in Terminal =>
             /\ job.at = "route" => job.ctx.status \notin {"running_readonly", "running_workflow"}
             /\ job.at \in ExecutionPoint =>
                  job.at \in {"handoff", "park"} /\ job.text \in Unsafe
EndInv == CheckpointKnows /\ AskKnows /\ JobKnows

\* What the worker does to the row of its run, one formula for each kind of step.
\* The job is about the same run and message.
SameJob == job' \in Job /\ job'.run = job.run /\ job'.text = job.text

\* The job goes on and leaves the row alone.
JobMoves ==
    /\ UNCHANGED <<status, version, checkpoint, queue, abandoned>>
    /\ SameJob
    /\ job'.ctx.version = job.ctx.version
    /\ \/ job'.at = "failing"
       \/ job.at \in SettledPoint /\ job'.at \in SettledPoint
       \/ /\ job.at \in ExecutionPoint /\ job'.at \in ExecutionPoint
          /\ job.at \in {"handoff", "park"} => job'.at = "park"
       \/ job.at = "route" /\ job.text \in Unsafe /\ job'.at = "handoff"
       \/ /\ job.at = "route" /\ job'.at \in ExecutionPoint
          /\ job.ctx.status \in {"running_readonly", "running_workflow"}

\* The job stores the context it goes on with.
JobCommits ==
    \E ctx \in Context :
        /\ version[job.run] = job.ctx.version
        /\ Admissible(job.run, ctx.status)
        /\ ctx.version = job.ctx.version + 1 /\ ctx.status # "created"
        /\ status' = [status EXCEPT ![job.run] = ctx.status]
        /\ version' = [version EXCEPT ![job.run] = @ + 1]
        /\ checkpoint' = [checkpoint EXCEPT ![job.run] = ctx]
        /\ UNCHANGED <<queue, abandoned>>
        /\ SameJob /\ job'.ctx = ctx
        /\ job.at \in ExecutionPoint \ {"handoff"}
        /\ job.at = "park" => ctx.status = "waiting_human"
        /\ \/ job'.at \in SettledPoint /\ ctx.status \notin Executing
           \/ job'.at \in ExecutionPoint /\ ctx.status \notin Terminal

\* The job stamps a reason on the row, and goes on or is over.
JobStamps ==
    /\ job.at \in SettledPoint
    /\ version' = [version EXCEPT ![job.run] = @ + 1]
    /\ UNCHANGED <<status, checkpoint, queue, abandoned>>
    /\ \/ job' = NoJob
       \/ SameJob /\ job'.ctx = job.ctx /\ job'.at \in SettledPoint

\* The job chooses the executor of a run that has none.
JobSelects ==
    \E next \in RunStatus :
        /\ job.at = "route"
        /\ status[job.run] = "created"
        /\ next # "created" /\ next \notin Terminal
        /\ status' = [status EXCEPT ![job.run] = next]
        /\ UNCHANGED <<version, checkpoint, queue, abandoned>>
        /\ SameJob /\ job'.ctx.version = job.ctx.version /\ job'.at \in ExecutionPoint

\* The job is given up, and its run with it unless it has ended.
JobFails ==
    /\ job.at = "failing"
    /\ \/ status[job.run] \in Terminal /\ UNCHANGED <<status, version>>
       \/ /\ status[job.run] \notin Terminal
          /\ status' = [status EXCEPT ![job.run] = "failed"]
          /\ version' = [version EXCEPT ![job.run] = @ + 1]
    /\ UNCHANGED <<checkpoint, queue, abandoned>>
    /\ SameJob /\ job'.ctx = job.ctx /\ job'.at = "apology"

\* The job is over.
JobEnds ==
    /\ UNCHANGED <<status, version, checkpoint, queue>>
    /\ abandoned \subseteq abandoned'
    /\ job' = NoJob
    /\ job.at \in SettledPoint \/ job.run \in abandoned'

WorkerKind ==
    /\ job \in Job
    /\ UNCHANGED <<messages, pc, ask>>
    /\ JobMoves \/ JobCommits \/ JobStamps \/ JobSelects \/ JobFails \/ JobEnds

USE DEF HoldsContext

\* A job that moves to where its point allows.
LEMMA MoveKind ==
    ASSUME job \in Job, NEW point \in JobPoint, Move(point),
           UNCHANGED <<status, version, checkpoint, queue, abandoned, messages, pc, ask>>,
           \/ point = "failing"
           \/ job.at \in SettledPoint /\ point \in SettledPoint
           \/ /\ job.at \in ExecutionPoint /\ point \in ExecutionPoint
              /\ job.at \in {"handoff", "park"} => point = "park"
           \/ job.at = "route" /\ job.text \in Unsafe /\ point = "handoff"
           \/ /\ job.at = "route" /\ point \in ExecutionPoint
              /\ job.ctx.status \in {"running_readonly", "running_workflow"}
    PROVE  WorkerKind
  <1>1. /\ job' \in Job /\ job'.at = point /\ job'.ctx = job.ctx /\ job'.run = job.run
        /\ job'.text = job.text
    BY MoveTypes DEF Move, Job
  <1>2. JobMoves
    BY <1>1 DEF JobMoves, SameJob
  <1>3. QED
    BY <1>2 DEF WorkerKind

\* A job that commits, or fails to.
LEMMA CheckpointKind ==
    ASSUME TypeInv, job \in Job, NEW next \in RunStatus \ {"created"},
           NEW reason \in {"none", "stop"}, NEW point \in JobPoint,
           Checkpoint(next, reason, point),
           UNCHANGED <<messages, pc, ask, queue, abandoned>>,
           job.at \in ExecutionPoint \ {"handoff"},
           job.at = "park" => next = "waiting_human",
           \/ point \in SettledPoint /\ next \notin Executing
           \/ point \in ExecutionPoint /\ next \notin Terminal
    PROVE  WorkerKind
  <1> DEFINE ctx == Advanced(job.ctx, next, reason)
  <1>1. job.ctx \in Context
    BY DEF Job
  <1>2. ctx \in Context /\ ctx.status = next /\ ctx.version = job.ctx.version + 1
    BY <1>1, AdvancedType DEF Advanced
  <1>3. CASE Committable(job.run, job.ctx, next)
    <2>1. CommitStep(job.run, ctx) /\ job' = [job EXCEPT !.ctx = ctx, !.at = point]
      BY <1>3 DEF Checkpoint
    <2> HIDE DEF ctx
    <2>2. job' \in Job /\ job'.at = point /\ job'.ctx = ctx /\ job'.run = job.run
      BY <1>2, <2>1, StoreTypes
    <2>3. job'.text = job.text
      BY <2>1 DEF Job
    <2>4. JobCommits
      BY <1>2, <1>3, <2>1, <2>2, <2>3
         DEF JobCommits, SameJob, CommitStep, Committable, Fresh
    <2>5. QED
      BY <2>4 DEF WorkerKind
  <1>4. CASE ~Committable(job.run, job.ctx, next)
    <2>1. Move("failing") /\ UNCHANGED <<status, version, checkpoint>>
      BY <1>4 DEF Checkpoint, runVars
    <2>2. QED
      BY <2>1, MoveKind DEF JobPoint
  <1>5. QED
    BY <1>3, <1>4

\* The steps that only write a checkpoint.
LEMMA CheckpointAtKind ==
    ASSUME TypeInv, NEW point \in ExecutionPoint \ {"handoff"},
           NEW next \in RunStatus \ {"created"},
           NEW reason \in {"none", "stop"}, NEW after \in JobPoint,
           CheckpointAt(point, next, reason, after),
           point = "park" => next = "waiting_human",
           \/ after \in SettledPoint /\ next \notin Executing
           \/ after \in ExecutionPoint /\ next \notin Terminal
    PROVE  WorkerKind
  <1>1. job \in Job /\ job.at = point
    BY JobTyped DEF CheckpointAt, At, ExecutionPoint
  <1>2. Checkpoint(next, reason, after) /\ UNCHANGED <<pc, ask, messages, queue, abandoned>>
    BY DEF CheckpointAt, sideVars, requestVars
  <1>3. QED
    BY <1>1, <1>2, CheckpointKind

\* Routing after the job was taken.
LEMMA RoutingKind ==
    ASSUME TypeInv,
           RouteUnsafe \/ RouteContinuation \/ \E route \in Routes : RouteClassified(route)
    PROVE  WorkerKind
  <1> USE DEF runVars, sideVars, requestVars
  <1>0. /\ {"handoff", "loop", "workflow", "failing"} \subseteq JobPoint
        /\ {"handoff", "loop", "workflow"} \subseteq ExecutionPoint
    BY DEF JobPoint, ExecutionPoint
  <1>1. job \in Job /\ job.at = "route" /\ job.ctx \in Context
    BY JobTyped DEF RouteUnsafe, RouteContinuation, RouteClassified, At, Job
  <1>2. CASE RouteUnsafe
    BY <1>0, <1>1, <1>2, MoveKind DEF RouteUnsafe
  <1>3. CASE RouteContinuation
    <2>1. PICK point \in {"loop", "workflow"} : Move(point)
      BY <1>3 DEF RouteContinuation
    <2>2. QED
      BY <1>0, <1>1, <1>3, <2>1, MoveKind DEF RouteContinuation, Continues
  <1>4. ASSUME NEW route \in Routes, RouteClassified(route)
        PROVE  WorkerKind
    <2>1. route \in RouteOutcome
      BY RoutesKnown
    <2>2. UNCHANGED <<version, checkpoint, queue, abandoned, messages, pc, ask>>
      BY <1>4 DEF RouteClassified
    <2>3. CASE CanSelect(job.run)
      <3> DEFINE flow == RoutedFlow[route]
                 next == RoutedStatus[route]
                 stored == [job.ctx EXCEPT !.flow = IF flow = "none" THEN @ ELSE flow]
      <3>1. /\ next \in RunStatus /\ next # "created" /\ next \notin Terminal
            /\ RoutedPoint[route] \in ExecutionPoint \cap JobPoint
            /\ flow \in {"none", "readonly", "workflow"}
        BY <2>1 DEF RouteOutcome, RoutedStatus, RoutedPoint, RoutedFlow, RunStatus, Waiting,
                    Executing, Terminal, ExecutionPoint, JobPoint
      <3>2. status[job.run] = "created"
        <4>1. status[job.run] \in RunStatus \cup {"absent"}
          BY <1>1 DEF TypeInv, TypeOK, Job
        <4>2. QED
          BY <2>3, <4>1 DEF CanSelect, RunStatus, Waiting, Executing, Terminal
      <3>3. /\ status' = [status EXCEPT ![job.run] = next]
            /\ job' = [job EXCEPT !.at = RoutedPoint[route],
                          !.ctx.flow = IF flow = "none" THEN @ ELSE flow]
        BY <1>4, <2>3 DEF RouteClassified
      <3>4. stored \in Context /\ stored.version = job.ctx.version
        BY <1>1, <3>1 DEF Context
      <3>5. job' = [job EXCEPT !.ctx = stored, !.at = RoutedPoint[route]]
        BY <1>1, <3>3 DEF Job, Context
      <3> HIDE DEF stored, next, flow
      <3>6. /\ job' \in Job /\ job'.at = RoutedPoint[route] /\ job'.ctx = stored
            /\ job'.run = job.run
        BY <1>1, <3>1, <3>4, <3>5, StoreTypes
      <3>7. job'.text = job.text
        BY <1>1, <3>5 DEF Job
      <3>8. JobSelects
        BY <1>1, <2>2, <3>1, <3>2, <3>3, <3>4, <3>6, <3>7 DEF JobSelects, SameJob
      <3>9. QED
        BY <1>1, <2>2, <3>8 DEF WorkerKind
    <2>4. CASE ~CanSelect(job.run)
      BY <1>0, <1>1, <1>4, <2>2, <2>4, MoveKind DEF RouteClassified
    <2>5. QED
      BY <2>3, <2>4
  <1>5. QED
    BY <1>2, <1>3, <1>4

\* Handoff, clarification, small talk, the loop and the way to a low-risk write.
LEMMA ExecutionKind ==
    ASSUME TypeInv,
           \/ CreateTicket \/ Park \/ AskUser \/ Converse \/ Prepare
           \/ \E point \in LoopPoint :
                  \/ LoopContinues(point)
                  \/ \E next \in RunStatus : LoopDecides(point, next) \/ LoopStops(point, next)
           \/ LoopRepeats \/ NoProgress \/ StampReason \/ BeginLowRisk
           \/ \E denied \in BOOLEAN : WorkflowRefuses(denied)
    PROVE  WorkerKind
  <1> USE DEF runVars, sideVars, requestVars
  <1>0. /\ {"waiting_human", "waiting_user", "waiting_confirmation", "completed", "failed",
           "running_readonly"} \subseteq RunStatus \ {"created"}
        /\ {"prompt", "publish", "again", "no_progress", "reason", "park", "ask", "chat",
            "workflow", "repark", "loop", "claim", "failing"} \subseteq JobPoint
        /\ {"prompt", "publish", "reason"} \subseteq SettledPoint
        /\ {"again", "no_progress", "park", "ask", "chat", "workflow", "repark", "loop",
            "claim"} \subseteq ExecutionPoint \ {"handoff"}
        /\ {"waiting_human", "waiting_user", "waiting_confirmation", "completed", "failed"}
             \cap Executing = {}
        /\ {"waiting_human", "running_readonly"} \cap Terminal = {}
    BY DEF RunStatus, Waiting, Terminal, Executing, JobPoint, SettledPoint, ExecutionPoint
  <1>1. CASE CreateTicket
    <2>1. job \in Job
      BY <1>1, JobTyped DEF CreateTicket
    <2>2. UNCHANGED <<status, version, checkpoint, queue, abandoned, messages, pc, ask>>
      BY <1>1 DEF CreateTicket
    <2>3. CASE At("handoff")
      BY <1>0, <1>1, <2>1, <2>2, <2>3, MoveKind DEF CreateTicket, ExecutionPoint, At
    <2>4. CASE At("ticket")
      BY <1>0, <1>1, <2>1, <2>2, <2>4, MoveKind DEF CreateTicket, ExecutionPoint, At
    <2>5. QED
      BY <1>1, <2>3, <2>4 DEF CreateTicket, At
  <1>2. CASE Park \/ AskUser \/ Converse \/ Prepare
    <2>1. job.at # "idle"
      BY <1>2 DEF Park, AskUser, Converse, Prepare, CheckpointAt, At
    <2>2. job.ctx.reason \in {"none", "stop"}
      BY <2>1, JobTyped DEF Job, Context
    <2>3. QED
      BY <1>0, <1>2, <2>2, CheckpointAtKind DEF Park, AskUser, Converse, Prepare
  <1>3. ASSUME NEW point \in LoopPoint, LoopContinues(point)
        PROVE  WorkerKind
    BY <1>0, <1>3, CheckpointAtKind DEF LoopContinues, LoopPoint
  <1>4. ASSUME NEW point \in LoopPoint, NEW next \in RunStatus, LoopDecides(point, next)
        PROVE  WorkerKind
    <2>1. PICK after \in {"publish", "prompt"} : CheckpointAt(point, next, "none", after)
      BY <1>4 DEF LoopDecides
    <2>2. next \in {"waiting_user", "waiting_human", "completed"}
      BY <1>4 DEF LoopDecides
    <2>3. QED
      BY <1>0, <2>1, <2>2, CheckpointAtKind DEF LoopPoint
  <1>5. ASSUME NEW point \in LoopPoint, NEW next \in RunStatus, LoopStops(point, next)
        PROVE  WorkerKind
    BY <1>0, <1>5, CheckpointAtKind DEF LoopStops, LoopPoint
  <1>6. CASE LoopRepeats \/ NoProgress
    BY <1>0, <1>6, CheckpointAtKind DEF LoopRepeats, NoProgress
  <1>7. CASE StampReason
    <2>1. PICK after \in {"publish", "prompt"} : Move(after)
      BY <1>7 DEF StampReason
    <2>2. job \in Job /\ job.at = "reason"
      BY <1>7, JobTyped DEF StampReason, At
    <2>3. /\ version' = [version EXCEPT ![job.run] = @ + 1]
          /\ UNCHANGED <<status, checkpoint, queue, abandoned, messages, pc, ask>>
      BY <1>7 DEF StampReason, BumpVersion
    <2>4. SameJob /\ job'.ctx = job.ctx /\ job'.at = after
      BY <1>0, <2>1, <2>2, MoveTypes DEF SameJob, Move, Job
    <2>5. QED
      BY <1>0, <2>2, <2>3, <2>4 DEF WorkerKind, JobStamps
  <1>8. CASE BeginLowRisk
    <2>1. job \in Job /\ job.at = "workflow"
      BY <1>8, JobTyped DEF BeginLowRisk, At
    <2>2. QED
      BY <1>0, <1>8, <2>1, MoveKind DEF BeginLowRisk
  <1>9. ASSUME NEW denied \in BOOLEAN, WorkflowRefuses(denied)
        PROVE  WorkerKind
    <2>1. job \in Job
      BY <1>9, JobTyped DEF WorkflowRefuses, At
    <2>2. QED
      BY <1>0, <1>9, <2>1, MoveKind DEF WorkflowRefuses
  <1>10. QED
    BY <1>1, <1>2, <1>3, <1>4, <1>5, <1>6, <1>7, <1>8, <1>9

\* Low-risk writes.
LEMMA WriteKind ==
    ASSUME TypeInv,
           \/ ClaimRecord \/ ParkUnknown
           \/ \E acts \in BOOLEAN : CallSystem(acts)
           \/ \E outcome \in DOMAIN LowRiskStatus : ObserveOutcome(outcome)
    PROVE  WorkerKind
  <1> USE DEF runVars, sideVars, requestVars
  <1>0. /\ {"call", "ticket", "observe", "failing", "prompt", "publish"} \subseteq JobPoint
        /\ {"call", "ticket", "observe", "claim", "repark"} \subseteq ExecutionPoint \ {"handoff"}
        /\ {"prompt", "publish"} \subseteq SettledPoint
        /\ "waiting_human" \in RunStatus \ {"created"}
        /\ "waiting_human" \notin Executing \cup Terminal
    BY DEF JobPoint, RunStatus, Waiting, ExecutionPoint, SettledPoint, Executing, Terminal
  <1>1. job.at \in {"claim", "repark", "call", "observe"}
    BY DEF ClaimRecord, ParkUnknown, CallSystem, ObserveOutcome, At
  <1>2. job \in Job /\ job.ctx \in Context /\ job.ctx.reason \in {"none", "stop"}
    BY <1>1, JobTyped DEF Job, Context
  <1>3. CASE ClaimRecord
    <2>1. UNCHANGED <<status, version, checkpoint, queue, abandoned, messages, pc, ask>>
      BY <1>3 DEF ClaimRecord
    <2>2. CASE record[job.run] = "none"
      BY <1>0, <1>1, <1>2, <1>3, <2>1, <2>2, MoveKind DEF ClaimRecord
    <2>3. CASE record[job.run] # "none"
      <3> DEFINE counted == [job.ctx EXCEPT !.steps = job.ctx.steps + 1]
      <3>1. counted \in Context /\ counted.version = job.ctx.version
        BY <1>2 DEF Context
      <3>2. job' = [job EXCEPT !.ctx = counted, !.at = "ticket"]
        BY <1>2, <1>3, <2>3 DEF ClaimRecord, Job
      <3> HIDE DEF counted
      <3>3. job' \in Job /\ job'.at = "ticket" /\ job'.run = job.run /\ job'.ctx = counted
        BY <1>0, <1>2, <3>1, <3>2, StoreTypes
      <3>4. job'.text = job.text
        BY <1>2, <3>2 DEF Job
      <3>5. QED
        BY <1>0, <1>1, <1>2, <2>1, <3>1, <3>3, <3>4 DEF WorkerKind, JobMoves, SameJob
    <2>4. QED
      BY <2>2, <2>3
  <1>4. CASE ParkUnknown
    <2>0. UNCHANGED <<pc, ask, messages, queue, abandoned>> /\ job.at = "repark"
      BY <1>4 DEF ParkUnknown, At
    <2> DEFINE stored == Advanced(job.ctx, "waiting_human", job.ctx.reason)
               ctx == [stored EXCEPT !.steps = job.ctx.steps]
    <2>1. CASE Committable(job.run, job.ctx, "waiting_human")
      <3>1. CommitStep(job.run, ctx) /\ job' = [job EXCEPT !.ctx = ctx, !.at = "prompt"]
        BY <1>4, <2>1 DEF ParkUnknown
      <3>2. /\ ctx \in Context /\ ctx.status = "waiting_human"
            /\ ctx.version = job.ctx.version + 1
        <4>1. /\ stored \in Context /\ stored.status = "waiting_human"
              /\ stored.version = job.ctx.version + 1 /\ job.ctx.steps \in Nat
          BY <1>0, <1>2, AdvancedType DEF Context, Advanced
        <4> HIDE DEF stored
        <4>2. QED
          BY <4>1 DEF Context
      <3> HIDE DEF ctx
      <3>3. job' \in Job /\ job'.at = "prompt" /\ job'.ctx = ctx /\ job'.run = job.run
        BY <1>0, <1>2, <3>1, <3>2, StoreTypes
      <3>4. job'.text = job.text
        BY <1>2, <3>1 DEF Job
      <3>5. JobCommits
        BY <1>0, <2>0, <2>1, <3>1, <3>2, <3>3, <3>4
           DEF JobCommits, SameJob, CommitStep, Committable, Fresh
      <3>6. QED
        BY <1>2, <2>0, <3>5 DEF WorkerKind
    <2>2. CASE ~Committable(job.run, job.ctx, "waiting_human")
      BY <1>0, <1>2, <1>4, <2>0, <2>2, MoveKind DEF ParkUnknown
    <2>3. QED
      BY <2>1, <2>2
  <1>5. ASSUME NEW acts \in BOOLEAN, CallSystem(acts)
        PROVE  WorkerKind
    <2>1. job.at = "call"
      BY <1>5 DEF CallSystem, At
    <2>2. QED
      BY <1>0, <1>2, <1>5, <2>1, MoveKind DEF CallSystem
  <1>6. ASSUME NEW outcome \in DOMAIN LowRiskStatus, ObserveOutcome(outcome)
        PROVE  WorkerKind
    <2> DEFINE next == LowRiskStatus[outcome]
    <2>1. /\ next \in RunStatus \ {"created"} /\ next \notin Executing
          /\ outcome = "unknown" => next \notin Terminal
      BY DEF LowRiskStatus, RunStatus, Terminal, Waiting, Executing
    <2>2. PICK point \in {"ticket", "publish"} :
              /\ Checkpoint(next, job.ctx.reason, point)
              /\ point = "ticket" => outcome = "unknown"
      BY <1>6 DEF ObserveOutcome
    <2>3. UNCHANGED <<pc, ask, messages, queue, abandoned>> /\ job.at = "observe"
      BY <1>6 DEF ObserveOutcome, At
    <2> HIDE DEF next
    <2>4. QED
      BY <1>0, <1>2, <2>1, <2>2, <2>3, CheckpointKind
  <1>7. QED
    BY <1>3, <1>4, <1>5, <1>6

\* Responses, the failure handler and an exception in the worker.
LEMMA ResponseKind ==
    ASSUME TypeInv,
           \/ PublishPrompt \/ PublishResponse \/ MarkFailed \/ PublishFailure
           \/ StampResponse \/ WorkerRaises
    PROVE  WorkerKind
  <1> USE DEF runVars, sideVars, requestVars
  <1>0. /\ {"stamp", "apology", "last", "failing"} \subseteq JobPoint
        /\ {"stamp", "apology", "last", "publish", "prompt"} \subseteq SettledPoint
    BY DEF JobPoint, SettledPoint
  <1>1. job \in Job
    BY JobTyped DEF PublishPrompt, PublishResponse, MarkFailed, PublishFailure,
                    StampResponse, WorkerRaises, At
  <1>2. CASE PublishPrompt
    BY <1>0, <1>1, <1>2 DEF PublishPrompt, WorkerKind, JobEnds, At
  <1>3. CASE PublishResponse
    <2>1. /\ UNCHANGED <<status, version, checkpoint, queue, abandoned, messages, pc, ask>>
          /\ job.at = "publish"
      BY <1>3 DEF PublishResponse, At
    <2>2. CASE job' = NoJob
      BY <1>0, <1>1, <2>1, <2>2 DEF WorkerKind, JobEnds
    <2>3. CASE Move("stamp")
      BY <1>0, <1>1, <2>1, <2>3, MoveKind
    <2>4. QED
      BY <1>3, <2>2, <2>3 DEF PublishResponse, Move
  <1>4. CASE MarkFailed
    <2>1. SameJob /\ job'.ctx = job.ctx /\ job'.at = "apology"
      BY <1>0, <1>1, <1>4, MoveTypes DEF MarkFailed, SameJob, Move, Job
    <2>2. JobFails
      BY <1>4, <2>1 DEF MarkFailed, JobFails, At
    <2>3. QED
      BY <1>1, <1>4, <2>2 DEF MarkFailed, WorkerKind
  <1>5. CASE PublishFailure
    <2>1. job.at = "apology"
      BY <1>5 DEF PublishFailure, At
    <2>2. QED
      BY <1>0, <1>1, <1>5, <2>1, MoveKind DEF PublishFailure
  <1>6. CASE StampResponse
    BY <1>0, <1>1, <1>6 DEF StampResponse, BumpVersion, WorkerKind, JobStamps
  <1>7. CASE WorkerRaises
    <2>1. /\ UNCHANGED <<status, version, checkpoint, queue, messages, pc, ask>>
          /\ abandoned \subseteq abandoned'
      BY <1>7 DEF WorkerRaises
    <2>2. CASE job.at \in {"failing", "apology", "last"}
      <3>1. job' = NoJob /\ (job.at \in SettledPoint \/ job.run \in abandoned')
        BY <1>0, <1>7, <2>2 DEF WorkerRaises, At
      <3>2. QED
        BY <1>1, <2>1, <3>1 DEF WorkerKind, JobEnds
    <2>3. CASE job.at \notin {"failing", "apology", "last"}
      <3>1. Move("failing") /\ UNCHANGED abandoned
        BY <1>7, <2>3 DEF WorkerRaises, Move, At
      <3>2. QED
        BY <1>0, <1>1, <2>1, <3>1, MoveKind
    <2>4. QED
      BY <2>2, <2>3
  <1>8. QED
    BY <1>2, <1>3, <1>4, <1>5, <1>6, <1>7

\* Every step of the worker but the first of a job is of one of those kinds.
LEMMA WorkerIsKind ==
    ASSUME TypeInv, WorkerStep \/ WorkerRaises
    PROVE  TakeJob \/ WorkerKind
  BY RoutingKind, ExecutionKind, WriteKind, ResponseKind DEF WorkerStep

\* What a request does, one formula for each kind of step.
Elsewhere(q) == \A r \in Requests \ {q} : pc'[r] = pc[r] /\ ask'[r] = ask[r]

\* It goes on and leaves the rows, the conversation and the queue alone.  A run
\* it turns to has a checkpoint or was routed, a context it loads is the newest.
RequestLooks(q) ==
    /\ UNCHANGED <<status, version, checkpoint, messages, queue>>
    /\ pc[q] \notin {"submit", "release"}
    /\ pc'[q] \notin {"idle", "append"}
    /\ pc'[q] \in {"active", "create"} => pc[q] \in {"idle", "active"}
    /\ pc'[q] = "release" => pc[q] = "append"
    /\ pc[q] = "append" => pc'[q] = "over" \/ ask'[q] = ask[q]
    /\ \/ ask'[q].run \in {"none", ask[q].run}
       \/ ask'[q].run \in Runs /\ status[ask'[q].run] \notin {"absent", "created"}
       \/ ask'[q].run \in Runs /\ checkpoint[ask'[q].run] # NoCheckpoint
    /\ pc'[q] \in HoldsContext =>
           /\ ask'[q].run \in Runs
           /\ ask'[q].ctx = checkpoint[ask'[q].run]
           /\ checkpoint[ask'[q].run] # NoCheckpoint
           /\ ask'[q].ctx.status \notin Terminal

\* It stores its message, and is going to submit its run.
RequestStores(q) ==
    /\ UNCHANGED <<status, version, checkpoint, queue>>
    /\ pc[q] \in {"answer", "append"} /\ pc'[q] = "submit" /\ ask'[q] = ask[q]
    /\ \E m \in Message : m.run = ask[q].run /\ messages' = Append(messages, m)

RequestCreates(q) ==
    /\ UNCHANGED <<version, checkpoint, messages, queue>>
    /\ Admissible(q, "created")
    /\ pc[q] = "create" /\ pc'[q] = "append" /\ ask'[q].run = q
    /\ status' = [status EXCEPT ![q] = "created"]

RequestReleases(q) ==
    /\ UNCHANGED <<version, checkpoint, messages, queue>>
    /\ pc[q] = "release" /\ pc'[q] = "over" /\ ask'[q] = NoAsk
    /\ status' = [status EXCEPT ![q] = IF @ = "created" THEN "cancelled" ELSE @]

RequestSubmits(q) ==
    /\ UNCHANGED <<status, version, checkpoint, messages>>
    /\ pc[q] = "submit" /\ pc'[q] = "over" /\ ask'[q] = NoAsk
    /\ \E item \in QueuedJob : item.run = ask[q].run /\ queue' = Append(queue, item)

\* It stores the end of its run.
RequestEnds(q) ==
    \E ctx \in Context :
        /\ ctx.status \in Terminal /\ ctx.version = ask[q].ctx.version + 1
        /\ version[ask[q].run] = ask[q].ctx.version
        /\ status' = [status EXCEPT ![ask[q].run] = ctx.status]
        /\ version' = [version EXCEPT ![ask[q].run] = @ + 1]
        /\ checkpoint' = [checkpoint EXCEPT ![ask[q].run] = ctx]
        /\ UNCHANGED <<messages, queue>>
        /\ pc[q] \in HoldsContext /\ pc'[q] \in {"reason", "settle"} /\ ask'[q] = ask[q]

RequestStamps(q) ==
    /\ version' = [version EXCEPT ![ask[q].run] = @ + 1]
    /\ UNCHANGED <<status, checkpoint, messages, queue>>
    /\ pc[q] \in {"reason", "stamp"} /\ pc'[q] \in {"publish", "over"}
    /\ ask'[q] = ask[q] \/ ask'[q] = NoAsk

RequestKind(q) ==
    /\ UNCHANGED <<job, abandoned>>
    /\ Elsewhere(q)
    /\ \/ RequestLooks(q) \/ RequestStores(q) \/ RequestCreates(q) \/ RequestReleases(q)
       \/ RequestSubmits(q) \/ RequestEnds(q) \/ RequestStamps(q)

\* Where a request that goes on is afterwards.
LEMMA ProceedKind ==
    ASSUME TypeInv, NEW q \in Requests, NEW request, NEW step, Proceed(q, request, step)
    PROVE  /\ Elsewhere(q)
           /\ pc'[q] = step
           /\ ask'[q] = IF step = "over" THEN NoAsk ELSE request
  BY DEF Proceed, TypeInv, TypeOK, Elsewhere

\* Every request begins by looking.
LEMMA ArrivalKind ==
    ASSUME TypeInv, NEW q \in Requests, RequestArrives(q)
    PROVE  RequestKind(q)
  <1> USE DEF runVars, workerVars
  <1>1. UNCHANGED <<status, version, checkpoint, messages, queue, job, abandoned>>
    BY Zenon DEF RequestArrives, Send, Retry, Cancel, Resolve, Review, LoadContext
  <1>2. ASSUME NEW request, NEW step \in {"active", "over", "create"},
               Start(q, request, step), request.run = "none"
        PROVE  RequestKind(q)
    <2>1. Elsewhere(q) /\ pc'[q] = step /\ ask'[q].run = "none" /\ pc[q] = "idle"
      BY <1>2, ProceedKind DEF Start, NoAsk
    <2>2. RequestLooks(q)
      BY <1>1, <2>1 DEF RequestLooks
    <2>3. QED
      BY <1>1, <2>1, <2>2 DEF RequestKind
  <1>3. CASE \E key \in Keys, text \in Texts : Send(q, key, text)
    <2>1. PICK key \in Keys, text \in Texts : Send(q, key, text)
      BY <1>3
    <2> DEFINE request == [NoAsk EXCEPT !.kind = "send", !.key = key, !.text = text]
    <2>2. \E step \in {"active", "over"} : Start(q, request, step)
      BY <2>1 DEF Send
    <2>3. request.run = "none"
      BY DEF NoAsk
    <2> HIDE DEF request
    <2>4. QED
      BY <1>2, <2>2, <2>3
  <1>4. CASE \E run \in Runs, key \in Keys : Retry(q, run, key)
    <2>1. PICK run \in Runs, key \in Keys : Retry(q, run, key)
      BY <1>4
    <2>2. PICK text : Start(q, [NoAsk EXCEPT !.kind = "retry", !.key = key, !.text = text],
                            "create")
      BY <2>1 DEF Retry
    <2> DEFINE request == [NoAsk EXCEPT !.kind = "retry", !.key = key, !.text = text]
    <2>3. request.run = "none"
      BY DEF NoAsk
    <2> HIDE DEF request
    <2>4. Start(q, request, "create")
      BY <2>2 DEF request
    <2>5. QED
      BY <1>2, <2>3, <2>4
  <1>5. CASE \E run \in Runs : Review(q, run)
    <2>1. PICK run \in Runs : Review(q, run)
      BY <1>5
    <2> DEFINE request == [NoAsk EXCEPT !.kind = "review", !.run = run]
    <2>2. Start(q, request, "review") /\ status[run] = "waiting_human"
      BY <2>1 DEF Review
    <2>3. request.run = run
      BY DEF NoAsk
    <2> HIDE DEF request
    <2>4. Elsewhere(q) /\ pc'[q] = "review" /\ ask'[q].run = run /\ pc[q] = "idle"
      BY <2>2, <2>3, ProceedKind DEF Start
    <2>5. RequestLooks(q)
      BY <1>1, <2>2, <2>4 DEF RequestLooks
    <2>6. QED
      BY <1>1, <2>4, <2>5 DEF RequestKind
  <1>6. ASSUME NEW kind, NEW run \in Runs, NEW goal, NEW step \in HoldsContext,
               LoadContext(q, kind, run, goal, step), checkpoint[run].status \notin Terminal
        PROVE  RequestKind(q)
    <2> DEFINE request == [NoAsk EXCEPT !.kind = kind, !.run = run, !.goal = goal,
                                        !.ctx = checkpoint[run]]
    <2>1. Start(q, request, step) /\ checkpoint[run] # NoCheckpoint
      BY <1>6 DEF LoadContext, Unreadable
    <2>2. request.run = run /\ request.ctx = checkpoint[run]
      BY DEF NoAsk
    <2> HIDE DEF request
    <2>3. /\ Elsewhere(q) /\ pc'[q] = step /\ ask'[q].run = run /\ pc[q] = "idle"
          /\ ask'[q].ctx = checkpoint[run]
      BY <2>1, <2>2, ProceedKind DEF Start
    <2>4. RequestLooks(q)
      BY <1>1, <1>6, <2>1, <2>3 DEF RequestLooks
    <2>5. QED
      BY <1>1, <2>3, <2>4 DEF RequestKind
  <1>7. CASE \E run \in Runs : Cancel(q, run)
    BY <1>6, <1>7 DEF Cancel, Terminal
  <1>8. CASE \E run \in Runs, goal \in {"completed", "failed"} : Resolve(q, run, goal)
    BY <1>6, <1>8 DEF Resolve, Terminal
  <1>9. QED
    BY <1>3, <1>4, <1>5, <1>7, <1>8 DEF RequestArrives

\* Storing a message, or finding it stored.
LEMMA AppendKind ==
    ASSUME TypeInv, NEW q \in Requests, pc[q] \in {"answer", "append"},
           NEW known \in {"submit", "over"}, NEW conflicting \in {"over", "release"},
           conflicting = "release" => pc[q] = "append",
           AppendUser(q, known, conflicting),
           UNCHANGED <<status, version, checkpoint, queue, job, abandoned>>
    PROVE  RequestKind(q)
  <1>1. /\ ask[q] \in Ask /\ ask[q].key \in Keys /\ ask[q].run \in Runs
        /\ ask[q].text \in Contents
    BY DEF TypeInv, AskShape, Serving, Ask
  <1>2. CASE WithKey(ask[q].key) = {}
    <2> DEFINE m == [key |-> ask[q].key, run |-> ask[q].run, text |-> ask[q].text]
    <2>1. m \in Message /\ m.run = ask[q].run
      BY <1>1 DEF Message
    <2>2. messages' = Append(messages, m) /\ Proceed(q, ask[q], "submit")
      BY <1>2 DEF AppendUser, Goto
    <2> HIDE DEF m
    <2>3. Elsewhere(q) /\ pc'[q] = "submit" /\ ask'[q] = ask[q]
      BY <2>2, ProceedKind
    <2>4. QED
      BY <2>1, <2>2, <2>3 DEF RequestKind, RequestStores
  <1>3. CASE WithKey(ask[q].key) # {}
    <2>1. PICK step \in {known, conflicting} : Proceed(q, ask[q], step)
      BY <1>3 DEF AppendUser, Goto
    <2>2. UNCHANGED messages
      BY <1>3 DEF AppendUser
    <2>3. /\ Elsewhere(q) /\ pc'[q] = step
          /\ ask'[q] = IF step = "over" THEN NoAsk ELSE ask[q]
      BY <2>1, ProceedKind
    <2>4. ask'[q].run \in {"none", ask[q].run}
      BY <2>3 DEF NoAsk
    <2>5. RequestLooks(q)
      BY <2>2, <2>3, <2>4 DEF RequestLooks
    <2>6. QED
      BY <2>3, <2>5 DEF RequestKind
  <1>4. QED
    BY <1>2, <1>3

\* A request that only looks on its way.
LEMMA GotoKind ==
    ASSUME TypeInv, NEW q \in Requests, NEW step, Goto(q, step),
           pc[q] \notin {"submit", "release", "append"},
           \/ step \in {"over", "publish", "stamp"}
           \/ step = "create" /\ pc[q] = "active",
           UNCHANGED <<status, version, checkpoint, messages, queue, job, abandoned>>
    PROVE  RequestKind(q)
  <1>1. /\ Elsewhere(q) /\ pc'[q] = step
        /\ ask'[q] = IF step = "over" THEN NoAsk ELSE ask[q]
    BY ProceedKind DEF Goto
  <1>2. ask'[q].run \in {"none", ask[q].run}
    BY <1>1 DEF NoAsk
  <1>3. RequestLooks(q)
    BY <1>1, <1>2 DEF RequestLooks
  <1>4. QED
    BY <1>1, <1>3 DEF RequestKind

\* Every later step of a request is of one of the kinds.
LEMMA RequestIsKind ==
    ASSUME TypeInv, NEW q \in Requests, RequestStep(q)
    PROVE  RequestKind(q)
  <1> USE DEF runVars, workerVars
  <1>0. ask[q] \in Ask \cup {NoAsk}
    BY DEF TypeInv, TypeOK
  <1>1. CASE FindActive(q)
    <2>1. /\ UNCHANGED <<status, version, checkpoint, messages, queue, job, abandoned>>
          /\ pc[q] = "active"
      BY <1>1 DEF FindActive
    <2>2. ASSUME NEW run \in Runs, status[run] = "waiting_user",
                 Proceed(q, [ask[q] EXCEPT !.run = run], "answer")
          PROVE  RequestKind(q)
      <3> DEFINE request == [ask[q] EXCEPT !.run = run]
      <3>1. request.run = run
        BY <1>0 DEF Ask, NoAsk
      <3> HIDE DEF request
      <3>2. Proceed(q, request, "answer")
        BY <2>2 DEF request
      <3>3. Elsewhere(q) /\ pc'[q] = "answer" /\ ask'[q].run = run
        BY <3>1, <3>2, ProceedKind
      <3>4. RequestLooks(q)
        BY <2>1, <2>2, <3>3 DEF RequestLooks
      <3>5. QED
        BY <2>1, <3>3, <3>4 DEF RequestKind
    <2>3. CASE Goto(q, "create")
      BY <2>1, <2>3, GotoKind
    <2>4. QED
      BY <1>1, <2>2, <2>3 DEF FindActive
  <1>2. CASE AppendAnswer(q)
    BY <1>2, AppendKind DEF AppendAnswer
  <1>3. CASE AppendFirst(q)
    <2>1. PICK known \in {"submit", "over"} : AppendUser(q, known, "release")
      BY <1>3 DEF AppendFirst
    <2>2. QED
      BY <1>3, <2>1, AppendKind DEF AppendFirst
  <1>4. CASE CreateRun(q)
    <2>1. /\ UNCHANGED <<version, checkpoint, messages, queue, job, abandoned>>
          /\ pc[q] = "create"
      BY <1>4 DEF CreateRun
    <2>2. CASE Admissible(q, "created")
      <3> DEFINE request == [ask[q] EXCEPT !.run = q]
      <3>1. request.run = q
        BY <1>0 DEF Ask, NoAsk
      <3>2. Proceed(q, request, "append") /\ status' = [status EXCEPT ![q] = "created"]
        BY <1>4, <2>2 DEF CreateRun
      <3> HIDE DEF request
      <3>3. Elsewhere(q) /\ pc'[q] = "append" /\ ask'[q].run = q
        BY <3>1, <3>2, ProceedKind
      <3>4. QED
        BY <2>1, <2>2, <3>2, <3>3 DEF RequestKind, RequestCreates
    <2>3. CASE ~Admissible(q, "created")
      BY <1>4, <2>1, <2>3, GotoKind DEF CreateRun
    <2>4. QED
      BY <2>2, <2>3
  <1>5. CASE ReleaseRun(q)
    <2>1. Proceed(q, ask[q], "over")
      BY <1>5 DEF ReleaseRun, Goto
    <2>2. Elsewhere(q) /\ pc'[q] = "over" /\ ask'[q] = NoAsk
      BY <2>1, ProceedKind
    <2>3. QED
      BY <1>5, <2>2 DEF ReleaseRun, RequestKind, RequestReleases
  <1>6. CASE Submit(q)
    <2> DEFINE item == [run |-> ask[q].run, text |-> ask[q].text]
    <2>1. ask[q].run \in Runs /\ ask[q].text \in Contents
      BY <1>6 DEF Submit, TypeInv, AskShape, Serving, Ask
    <2>2. item \in QueuedJob /\ item.run = ask[q].run
      BY <2>1 DEF QueuedJob
    <2>3. Proceed(q, ask[q], "over") /\ queue' = Append(queue, item)
      BY <1>6 DEF Submit, Goto
    <2> HIDE DEF item
    <2>4. Elsewhere(q) /\ pc'[q] = "over" /\ ask'[q] = NoAsk
      BY <2>3, ProceedKind
    <2>5. QED
      BY <1>6, <2>2, <2>3, <2>4 DEF Submit, RequestKind, RequestSubmits
  <1>7. ASSUME NEW step \in HoldsContext, NEW next \in {"reason", "settle"},
               EndRun(q, step, next)
        PROVE  RequestKind(q)
    <2>1. /\ pc[q] = step /\ UNCHANGED <<messages, queue, job, abandoned>>
      BY <1>7 DEF EndRun
    <2>2. ask[q] \in Ask /\ ask[q].goal \in Terminal /\ ask[q].run \in Runs
      BY <2>1 DEF TypeInv, AskShape, Serving
    <2> DEFINE ctx == Advanced(ask[q].ctx, ask[q].goal, ask[q].ctx.reason)
    <2>3. /\ ctx \in Context /\ ctx.status \in Terminal
          /\ ctx.version = ask[q].ctx.version + 1
      <3>1. ask[q].ctx \in Context /\ ask[q].goal \in RunStatus
        BY <2>2 DEF Ask, RunStatus
      <3>2. ask[q].ctx.reason \in {"none", "stop"}
        BY <3>1 DEF Context
      <3>3. QED
        BY <2>2, <3>1, <3>2, AdvancedType DEF Advanced
    <2>4. CASE Committable(ask[q].run, ask[q].ctx, ask[q].goal)
      <3>1. CommitStep(ask[q].run, ctx) /\ Proceed(q, ask[q], next)
        BY <1>7, <2>4 DEF EndRun, Goto
      <3> HIDE DEF ctx
      <3>2. Elsewhere(q) /\ pc'[q] = next /\ ask'[q] = ask[q]
        BY <3>1, ProceedKind
      <3>3. RequestEnds(q)
        BY <2>1, <2>3, <2>4, <3>1, <3>2 DEF RequestEnds, CommitStep, Committable, Fresh
      <3>4. QED
        BY <2>1, <3>2, <3>3 DEF RequestKind
    <2>5. CASE ~Committable(ask[q].run, ask[q].ctx, ask[q].goal)
      BY <1>7, <2>1, <2>5, GotoKind DEF EndRun
    <2>6. QED
      BY <2>4, <2>5
  <1>8. CASE Withdraw(q) \/ Decide(q)
    BY <1>7, <1>8 DEF Withdraw, Decide
  <1>9. CASE StampCancel(q) \/ StampEnd(q)
    <2>1. PICK step \in {"publish", "over"} : Proceed(q, ask[q], step)
      BY <1>9 DEF StampCancel, StampEnd, Goto
    <2>2. Elsewhere(q) /\ pc'[q] = step /\ (ask'[q] = ask[q] \/ ask'[q] = NoAsk)
      BY <2>1, ProceedKind
    <2>3. QED
      BY <1>9, <2>2 DEF StampCancel, StampEnd, BumpVersion, RequestKind, RequestStamps
  <1>10. CASE SettleTicket(q) \/ OpenReview(q) \/ PublishEnd(q)
    <2>1. PICK step \in {"publish", "over", "stamp"} : Goto(q, step)
      BY <1>10 DEF SettleTicket, OpenReview, PublishEnd
    <2>2. /\ pc[q] \in {"settle", "review", "publish"}
          /\ UNCHANGED <<status, version, checkpoint, messages, queue, job, abandoned>>
      BY <1>10 DEF SettleTicket, OpenReview, PublishEnd
    <2>3. QED
      BY <2>1, <2>2, GotoKind
  <1>11. QED
    BY <1>1, <1>2, <1>3, <1>4, <1>5, <1>6, <1>8, <1>9, <1>10 DEF RequestStep

-------------------------------------------------------------------------------
(***************************************************************************)
(* Ownership                                                               *)
(***************************************************************************)

\* A run is of a request; no request is called "none".
LEMMA JobRun ==
    ASSUME job \in Job
    PROVE  job.run \in Requests /\ job.at \in JobPoint /\ job.ctx \in Context
  BY DEF Job

\* The run of a job, and one a request turned to, was touched.
LEMMA JobIsTouched ==
    ASSUME OwnerInv, job \in Job
    PROVE  /\ status[job.run] # "absent"
           /\ pc[job.run] \notin {"idle", "active", "create", "append", "release"}
  BY JobRun DEF OwnerInv, FirstMessage, Untouched

\* Whether a run is touched depends on nothing else.
LEMMA UntouchedStays ==
    ASSUME NEW run \in Requests, Untouched(run),
           checkpoint'[run] = checkpoint[run], OfRun(run)' = {}, job'.run # run,
           \A i \in DOMAIN queue' : queue'[i].run # run,
           \A p \in Requests \ {run} : ask'[p].run # run
    PROVE  Untouched(run)'
  BY DEF Untouched

\* A job that is of one run touches no other.
LEMMA WorkerUntouched ==
    ASSUME TypeInv, OwnerInv, WorkerKind, NEW run \in Requests, run # job.run,
           Untouched(run)
    PROVE  Untouched(run)' /\ status'[run] = status[run]
  <1>1. job.run \in Requests /\ status \in [Requests -> RunStatus \cup {"absent"}]
        /\ checkpoint \in [Requests -> Context]
    BY JobRun DEF WorkerKind, TypeInv, TypeOK
  <1>2. checkpoint'[run] = checkpoint[run] /\ status'[run] = status[run]
    BY <1>1 DEF WorkerKind, JobMoves, JobCommits, JobStamps, JobSelects, JobFails, JobEnds
  <1>3. job'.run \in {job.run, "none"} /\ queue' = queue
    BY NoJobIdle DEF WorkerKind, JobMoves, JobCommits, JobStamps, JobSelects, JobFails,
                     JobEnds, SameJob
  <1>4. OfRun(run)' = OfRun(run) /\ ask' = ask
    BY DEF WorkerKind, OfRun
  <1>5. QED
    BY <1>2, <1>3, <1>4, UntouchedStays, NoneIsNoValue DEF Untouched

\* The worker's steps keep every run owned.
LEMMA WorkerOwner ==
    ASSUME TypeInv, OwnerInv, WorkerKind
    PROVE  OwnerInv'
  <1>1. /\ job \in Job /\ job.run \in Requests
        /\ status \in [Requests -> RunStatus \cup {"absent"}]
        /\ UNCHANGED <<messages, pc, ask>>
    BY JobRun DEF WorkerKind, TypeInv, TypeOK
  <1>2. /\ status[job.run] # "absent"
        /\ pc[job.run] \notin {"idle", "active", "create", "append", "release"}
    BY <1>1, JobIsTouched
  <1>3. /\ \A run \in Requests \ {job.run} : status'[run] = status[run]
        /\ status'[job.run] \in RunStatus \cup {"absent"}
        /\ abandoned \subseteq abandoned'
        /\ queue' = queue
    <2>1. "failed" \in RunStatus
      BY DEF RunStatus, Terminal
    <2>2. \A ctx \in Context : ctx.status \in RunStatus
      BY DEF Context
    <2>3. QED
      BY <1>1, <2>1, <2>2
         DEF WorkerKind, JobMoves, JobCommits, JobStamps, JobSelects, JobFails, JobEnds
  <1>4. status'[job.run] # "absent"
    <2>1. "failed" # "absent" /\ "absent" \notin RunStatus
      BY DEF RunStatus, Terminal, Waiting, Executing
    <2>2. \A ctx \in Context : ctx.status \in RunStatus
      BY DEF Context
    <2>3. QED
      BY <1>1, <1>2, <2>1, <2>2
         DEF WorkerKind, JobMoves, JobCommits, JobStamps, JobSelects, JobFails, JobEnds
  <1>5. FirstMessage'
    <2> SUFFICES ASSUME NEW q \in Requests
                 PROVE  /\ pc[q] \in {"idle", "active", "create"} => status'[q] = "absent"
                        /\ status'[q] = "absent" => Untouched(q)' /\ ask[q].run # q
                        /\ pc[q] \in {"append", "release"} =>
                             status'[q] = "created" /\ Untouched(q)' /\ ask[q].run = q
      BY <1>1 DEF FirstMessage
    <2>1. CASE q = job.run
      BY <1>2, <1>4, <2>1
    <2>2. CASE q # job.run
      BY <1>3, <2>2, WorkerUntouched DEF OwnerInv, FirstMessage
    <2>3. QED
      BY <2>1, <2>2
  <1>6. OneActive'
    <2>1. ASSUME status'[job.run] \in Executing \cup Waiting
          PROVE  \/ status[job.run] \in Executing \cup Waiting
                 \/ \A run \in Requests \ {job.run} :
                        status[run] \notin Executing \cup Waiting
      <3>1. (Executing \cup Waiting) \cap Terminal = {}
            /\ "created" \in Executing
        BY DEF Executing, Waiting, Terminal
      <3>2. CASE JobCommits
        <4>1. PICK ctx \in Context : /\ Admissible(job.run, ctx.status)
                                     /\ status' = [status EXCEPT ![job.run] = ctx.status]
          BY <3>2 DEF JobCommits
        <4>2. QED
          BY <1>1, <2>1, <3>1, <4>1 DEF Admissible, Active
      <3>3. CASE JobSelects
        BY <3>1, <3>3 DEF JobSelects
      <3>4. CASE JobFails
        <4>1. status'[job.run] = status[job.run] \/ status'[job.run] = "failed"
          BY <1>1, <3>4 DEF JobFails
        <4>2. QED
          BY <2>1, <4>1 DEF Executing, Waiting
      <3>5. CASE JobMoves \/ JobStamps \/ JobEnds
        BY <2>1, <3>5 DEF JobMoves, JobStamps, JobEnds
      <3>6. QED
        BY <3>2, <3>3, <3>4, <3>5 DEF WorkerKind
    <2>2. QED
      BY <1>1, <1>3, <2>1 DEF OwnerInv, OneActive, Active
  <1>7. JobSettled'
    <2>1. "failed" \notin Executing /\ "idle" \notin SettledPoint
          /\ "failing" \notin SettledPoint /\ "apology" \in SettledPoint
          /\ SettledPoint \cap ExecutionPoint = {}
          /\ Terminal \cap Executing = {}
      BY DEF Executing, SettledPoint, ExecutionPoint, Terminal
    <2>2. CASE JobMoves
      <3>1. job'.at \in SettledPoint => job.at \in SettledPoint
        BY <2>1, <2>2 DEF JobMoves, ExecutionPoint
      <3>2. QED
        BY <2>2, <3>1 DEF JobMoves, SameJob, OwnerInv, JobSettled
    <2>3. CASE JobCommits
      BY <1>1, <2>1, <2>3 DEF JobCommits, SameJob, JobSettled
    <2>4. CASE JobStamps
      BY <2>1, <2>4, NoJobIdle DEF JobStamps, SameJob, OwnerInv, JobSettled
    <2>5. CASE JobSelects
      BY <2>1, <2>5 DEF JobSelects, JobSettled
    <2>6. CASE JobFails
      BY <1>1, <2>1, <2>6 DEF JobFails, SameJob, JobSettled
    <2>7. CASE JobEnds
      BY <2>1, <2>7, NoJobIdle DEF JobEnds, JobSettled
    <2>8. QED
      BY <2>2, <2>3, <2>4, <2>5, <2>6, <2>7 DEF WorkerKind
  <1>8. AcceptedIsOwned'
    <2> SUFFICES ASSUME NEW run \in Requests, status'[run] \in Executing, OfRun(run)' # {}
                 PROVE  Owned(run)' \/ run \in abandoned'
      BY DEF AcceptedIsOwned
    <2>1. OfRun(run) # {}
      BY <1>1 DEF OfRun
    <2>2. CASE run # job.run
      <3>1. Owned(run) \/ run \in abandoned
        BY <1>3, <2>1, <2>2 DEF OwnerInv, AcceptedIsOwned
      <3>2. Owned(run) => Owned(run)'
        BY <1>1, <1>3, <2>2 DEF Owned
      <3>3. QED
        BY <1>3, <3>1, <3>2
    <2>3. CASE run = job.run
      <3>1. CASE job'.run = job.run
        BY <2>3, <3>1 DEF Owned
      <3>2. CASE job' = NoJob
        <4>1. status' = status
          BY <1>1, <3>2, NoJobIdle, NoneIsNoValue
             DEF WorkerKind, JobMoves, JobCommits, JobStamps, JobSelects, JobFails, JobEnds,
                 SameJob
        <4>2. job.at \in SettledPoint \/ job.run \in abandoned'
          BY <1>1, <3>2, NoJobIdle, NoneIsNoValue
             DEF WorkerKind, JobMoves, JobCommits, JobStamps, JobSelects, JobFails, JobEnds,
                 SameJob
        <4>3. job.at \notin SettledPoint
          BY <2>3, <4>1 DEF OwnerInv, JobSettled
        <4>4. QED
          BY <2>3, <4>2, <4>3
      <3>3. QED
        BY <3>1, <3>2
           DEF WorkerKind, JobMoves, JobCommits, JobStamps, JobSelects, JobFails, JobEnds,
               SameJob
    <2>4. QED
      BY <2>2, <2>3
  <1>9. QED
    BY <1>5, <1>6, <1>7, <1>8 DEF OwnerInv

\* A job that is taken from the queue keeps its run owned.
LEMMA TakeJobOwner ==
    ASSUME TypeInv, OwnerInv, TakeJob
    PROVE  OwnerInv'
  <1>1. /\ UNCHANGED <<status, version, checkpoint, messages, pc, ask, abandoned>>
        /\ queue' = Tail(queue) /\ queue \in Seq(QueuedJob) /\ queue # <<>>
        /\ job = NoJob
    BY DEF TakeJob, runVars, requestVars, TypeInv, TypeOK
  <1>2. job'.run = Head(queue).run /\ job'.at \in {"failing", "route"}
    BY DEF TakeJob
  <1>3. /\ 1 \in DOMAIN queue /\ Head(queue) = queue[1]
        /\ \A i \in DOMAIN queue' : i + 1 \in DOMAIN queue /\ queue'[i] = queue[i + 1]
        /\ \A i \in DOMAIN queue : i # 1 =>
               \E j \in DOMAIN queue' : queue'[j] = queue[i]
    <2>1. /\ 1 \in DOMAIN queue /\ Head(queue) = queue[1]
          /\ \A i \in DOMAIN queue' : i + 1 \in DOMAIN queue /\ queue'[i] = queue[i + 1]
      BY <1>1
    <2>2. ASSUME NEW i \in DOMAIN queue, i # 1
          PROVE  \E j \in DOMAIN queue' : queue'[j] = queue[i]
      <3>1. i - 1 \in DOMAIN queue' /\ queue'[i - 1] = queue[i]
        BY <1>1, <2>2
      <3>2. QED
        BY <3>1
    <2>3. QED
      BY <2>1, <2>2
  <1>4. \A run \in Requests : OfRun(run)' = OfRun(run)
    BY <1>1 DEF OfRun
  <1>5. ASSUME NEW run \in Requests, Untouched(run)
        PROVE  Untouched(run)'
    <2>1. job'.run # run
      BY <1>2, <1>3, <1>5 DEF Untouched
    <2>2. QED
      BY <1>1, <1>3, <1>4, <1>5, <2>1, UntouchedStays DEF Untouched
  <1>6. FirstMessage'
    BY <1>1, <1>5 DEF OwnerInv, FirstMessage
  <1>7. OneActive'
    BY <1>1 DEF OwnerInv, OneActive, Active
  <1>8. JobSettled'
    BY <1>2 DEF JobSettled, SettledPoint
  <1>9. AcceptedIsOwned'
    <2> SUFFICES ASSUME NEW run \in Requests, status[run] \in Executing, OfRun(run) # {}
                 PROVE  Owned(run)' \/ run \in abandoned
      BY <1>1, <1>4 DEF AcceptedIsOwned
    <2>1. Owned(run) \/ run \in abandoned
      BY DEF OwnerInv, AcceptedIsOwned
    <2>2. job.run # run
      BY <1>1, NoJobIdle, NoneIsNoValue
    <2>3. CASE \E i \in DOMAIN queue : queue[i].run = run
      BY <1>2, <1>3, <2>3 DEF Owned
    <2>4. QED
      BY <1>1, <2>1, <2>2, <2>3 DEF Owned
  <1>10. QED
    BY <1>6, <1>7, <1>8, <1>9 DEF OwnerInv

\* A message that is stored belongs to the run its request is about.
LEMMA StoreOfRun ==
    ASSUME TypeInv, NEW m \in Message, messages' = Append(messages, m),
           NEW run \in Requests, run # m.run
    PROVE  OfRun(run)' = OfRun(run)
  <1>1. messages \in Seq(Message)
    BY DEF TypeInv, TypeOK
  <1>2. /\ DOMAIN messages = 1 .. Len(messages)
        /\ DOMAIN messages' = 1 .. (Len(messages) + 1)
        /\ Len(messages) \in Nat
        /\ messages'[Len(messages) + 1] = m
        /\ \A i \in 1 .. Len(messages) : messages'[i] = messages[i]
    BY <1>1
  <1>3. QED
    BY <1>2 DEF OfRun

\* A job that is submitted is of the run its request is about.
LEMMA SubmitQueue ==
    ASSUME TypeInv, NEW item \in QueuedJob, queue' = Append(queue, item)
    PROVE  /\ \A i \in DOMAIN queue' : queue'[i].run = item.run
                                         \/ (i \in DOMAIN queue /\ queue'[i] = queue[i])
           /\ \A i \in DOMAIN queue : i \in DOMAIN queue' /\ queue'[i] = queue[i]
           /\ \E i \in DOMAIN queue' : queue'[i] = item
  <1>1. queue \in Seq(QueuedJob)
    BY DEF TypeInv, TypeOK
  <1>2. /\ DOMAIN queue = 1 .. Len(queue)
        /\ DOMAIN queue' = 1 .. (Len(queue) + 1)
        /\ Len(queue) \in Nat
        /\ queue'[Len(queue) + 1] = item
        /\ \A i \in 1 .. Len(queue) : queue'[i] = queue[i]
    BY <1>1
  <1>3. QED
    BY <1>2

\* The steps of a request keep every run owned.
LEMMA RequestOwner ==
    ASSUME TypeInv, OwnerInv, NEW q \in Requests, RequestKind(q)
    PROVE  OwnerInv'
  <1>1. /\ job' = job /\ abandoned' = abandoned
        /\ \A r \in Requests \ {q} : pc'[r] = pc[r] /\ ask'[r] = ask[r]
    BY DEF RequestKind, Elsewhere
  <1>2. /\ status \in [Requests -> RunStatus \cup {"absent"}]
        /\ checkpoint \in [Requests -> Context]
        /\ "none" \notin Requests /\ NoAsk.run = "none"
    BY NoneIsNoValue DEF TypeInv, TypeOK, NoAsk
  <1>3. /\ "created" \in Executing /\ "cancelled" \notin Executing \cup Waiting
        /\ "absent" \notin Executing \cup Waiting /\ Terminal \cap (Executing \cup Waiting) = {}
        /\ "absent" \notin Terminal
    BY DEF Executing, Waiting, Terminal
  \* It goes on, and the rows stay.
  <1>4. CASE RequestLooks(q)
    <2>1. UNCHANGED <<status, checkpoint, messages, queue>>
      BY <1>4 DEF RequestLooks
    <2>2. \A run \in Requests : OfRun(run)' = OfRun(run)
      BY <2>1 DEF OfRun
    <2>3. ASSUME NEW run \in Requests, run # q, Untouched(run),
                 status[run] \in {"absent", "created"}
          PROVE  Untouched(run)'
      <3>1. ask'[q].run # run
        BY <1>2, <1>4, <2>3 DEF RequestLooks, Untouched
      <3>2. QED
        BY <1>1, <2>1, <2>2, <2>3, <3>1, UntouchedStays DEF Untouched
    <2>4. Untouched(q) => Untouched(q)'
      BY <1>1, <2>1, <2>2, UntouchedStays DEF Untouched
    <2>5. status[q] = "absent" => ask'[q].run # q
      BY <1>2, <1>4 DEF RequestLooks, OwnerInv, FirstMessage, Untouched
    <2>6. pc'[q] \in {"idle", "active", "create"} => status[q] = "absent"
      BY <1>4 DEF RequestLooks, OwnerInv, FirstMessage
    <2>7. pc'[q] \in {"append", "release"} =>
            status[q] = "created" /\ Untouched(q) /\ ask'[q].run = q
      BY <1>4 DEF RequestLooks, OwnerInv, FirstMessage
    <2>8. FirstMessage'
      <3> SUFFICES ASSUME NEW r \in Requests
                   PROVE  /\ pc'[r] \in {"idle", "active", "create"} => status'[r] = "absent"
                          /\ status'[r] = "absent" => Untouched(r)' /\ ask'[r].run # r
                          /\ pc'[r] \in {"append", "release"} =>
                               status'[r] = "created" /\ Untouched(r)' /\ ask'[r].run = r
        BY DEF FirstMessage
      <3>1. CASE r = q
        BY <2>1, <2>4, <2>5, <2>6, <2>7, <3>1 DEF OwnerInv, FirstMessage
      <3>2. CASE r # q
        BY <1>1, <2>1, <2>3, <3>2 DEF OwnerInv, FirstMessage
      <3>3. QED
        BY <3>1, <3>2
    <2>9. OneActive' /\ JobSettled'
      BY <1>1, <2>1 DEF OwnerInv, OneActive, Active, JobSettled
    <2>10. AcceptedIsOwned'
      <3> SUFFICES ASSUME NEW run \in Requests, status[run] \in Executing, OfRun(run) # {}
                   PROVE  Owned(run)' \/ run \in abandoned'
        BY <2>1, <2>2 DEF AcceptedIsOwned
      <3>1. Owned(run) \/ run \in abandoned
        BY DEF OwnerInv, AcceptedIsOwned
      <3>2. CASE ask[q].run = run /\ pc[q] \in {"append", "release", "submit"}
        <4>1. pc[q] = "append" /\ run = q /\ OfRun(q) = {}
          BY <1>4, <3>2 DEF RequestLooks, OwnerInv, FirstMessage, Untouched
        <4>2. QED
          BY <4>1
      <3>3. CASE ~(ask[q].run = run /\ pc[q] \in {"append", "release", "submit"})
        BY <1>1, <2>1, <3>1, <3>3 DEF Owned
      <3>4. QED
        BY <3>2, <3>3
    <2>11. QED
      BY <2>8, <2>9, <2>10 DEF OwnerInv
  \* It stores the message of a run that is touched, or of its own.
  <1>5. CASE RequestStores(q)
    <2>1. /\ UNCHANGED <<status, checkpoint, queue>>
          /\ pc[q] \in {"answer", "append"} /\ pc'[q] = "submit" /\ ask'[q] = ask[q]
      BY <1>5 DEF RequestStores
    <2>2. \A run \in Requests : run # ask[q].run => OfRun(run)' = OfRun(run)
      BY <1>5, StoreOfRun DEF RequestStores
    <2>3. ASSUME NEW run \in Requests, run # ask[q].run, Untouched(run)
          PROVE  Untouched(run)'
      <3>1. \A p \in Requests : ask'[p] = ask[p]
        BY <1>1, <2>1
      <3>2. QED
        BY <1>1, <2>1, <2>2, <2>3, <3>1, UntouchedStays DEF Untouched
    <2>4. FirstMessage'
      <3> SUFFICES ASSUME NEW r \in Requests
                   PROVE  /\ pc'[r] \in {"idle", "active", "create"} => status'[r] = "absent"
                          /\ status'[r] = "absent" => Untouched(r)' /\ ask'[r].run # r
                          /\ pc'[r] \in {"append", "release"} =>
                               status'[r] = "created" /\ Untouched(r)' /\ ask'[r].run = r
        BY DEF FirstMessage
      <3>1. CASE r = q
        BY <2>1, <2>3, <3>1 DEF OwnerInv, FirstMessage
      <3>2. CASE r # q
        <4>1. Untouched(r) => ask[q].run # r
          BY <3>2 DEF Untouched
        <4>2. QED
          BY <1>1, <2>1, <2>3, <3>2, <4>1 DEF OwnerInv, FirstMessage
      <3>3. QED
        BY <3>1, <3>2
    <2>5. OneActive' /\ JobSettled'
      BY <1>1, <2>1 DEF OwnerInv, OneActive, Active, JobSettled
    <2>6. AcceptedIsOwned'
      <3> SUFFICES ASSUME NEW run \in Requests, status[run] \in Executing, OfRun(run)' # {}
                   PROVE  Owned(run)' \/ run \in abandoned'
        BY <2>1 DEF AcceptedIsOwned
      <3>1. CASE run = ask[q].run
        BY <2>1, <3>1 DEF Owned
      <3>2. CASE run # ask[q].run
        <4>1. Owned(run) \/ run \in abandoned
          BY <2>2, <3>2 DEF OwnerInv, AcceptedIsOwned
        <4>2. QED
          BY <1>1, <2>1, <3>2, <4>1 DEF Owned
      <3>3. QED
        BY <3>1, <3>2
    <2>7. QED
      BY <2>4, <2>5, <2>6 DEF OwnerInv
  \* It creates its run, when no other is active.
  <1>6. CASE RequestCreates(q)
    <2>1. /\ UNCHANGED <<checkpoint, messages, queue>>
          /\ pc[q] = "create" /\ pc'[q] = "append" /\ ask'[q].run = q
          /\ status'[q] = "created"
          /\ \A run \in Requests \ {q} : status'[run] = status[run]
          /\ \A run \in Requests \ {q} : status[run] \notin Executing \cup Waiting
      BY <1>2, <1>3, <1>6 DEF RequestCreates, Admissible, Active
    <2>2. \A run \in Requests : OfRun(run)' = OfRun(run)
      BY <2>1 DEF OfRun
    <2>3. status[q] = "absent" /\ Untouched(q)
      BY <2>1 DEF OwnerInv, FirstMessage
    <2>4. ASSUME NEW run \in Requests, Untouched(run)
          PROVE  Untouched(run)'
      <3>1. \A p \in Requests \ {run} : ask'[p].run # run
        BY <1>1, <2>1, <2>4 DEF Untouched
      <3>2. QED
        BY <1>1, <2>1, <2>2, <2>4, <3>1, UntouchedStays DEF Untouched
    <2>5. FirstMessage'
      <3> SUFFICES ASSUME NEW r \in Requests
                   PROVE  /\ pc'[r] \in {"idle", "active", "create"} => status'[r] = "absent"
                          /\ status'[r] = "absent" => Untouched(r)' /\ ask'[r].run # r
                          /\ pc'[r] \in {"append", "release"} =>
                               status'[r] = "created" /\ Untouched(r)' /\ ask'[r].run = r
        BY DEF FirstMessage
      <3>1. CASE r = q
        BY <2>1, <2>3, <2>4, <3>1
      <3>2. CASE r # q
        BY <1>1, <2>1, <2>4, <3>2 DEF OwnerInv, FirstMessage
      <3>3. QED
        BY <3>1, <3>2
    <2>6. OneActive'
      BY <2>1 DEF OneActive, Active
    <2>7. JobSettled'
      <3>1. job.run # q
        BY <2>3 DEF Untouched
      <3>2. job.at \in SettledPoint => job.run \in Requests
        BY JobTyped, JobRun DEF SettledPoint
      <3>3. QED
        BY <1>1, <2>1, <3>1, <3>2 DEF OwnerInv, JobSettled
    <2>8. AcceptedIsOwned'
      BY <1>3, <2>1, <2>2, <2>3 DEF AcceptedIsOwned, Untouched
    <2>9. QED
      BY <2>5, <2>6, <2>7, <2>8 DEF OwnerInv
  \* It takes its run back.
  <1>7. CASE RequestReleases(q)
    <2>1. /\ UNCHANGED <<checkpoint, messages, queue>>
          /\ pc[q] = "release" /\ pc'[q] = "over" /\ ask'[q] = NoAsk
          /\ \A run \in Requests \ {q} : status'[run] = status[run]
      BY <1>2, <1>7 DEF RequestReleases
    <2>2. status[q] = "created" /\ Untouched(q)
      BY <2>1 DEF OwnerInv, FirstMessage
    <2>3. status'[q] = "cancelled"
      BY <1>2, <1>7, <2>2 DEF RequestReleases
    <2>4. \A run \in Requests : OfRun(run)' = OfRun(run)
      BY <2>1 DEF OfRun
    <2>5. ASSUME NEW run \in Requests, Untouched(run)
          PROVE  Untouched(run)'
      <3>1. \A p \in Requests \ {run} : ask'[p].run # run
        BY <1>1, <1>2, <2>1, <2>5 DEF Untouched
      <3>2. QED
        BY <1>1, <2>1, <2>4, <2>5, <3>1, UntouchedStays DEF Untouched
    <2>6. FirstMessage'
      <3> SUFFICES ASSUME NEW r \in Requests
                   PROVE  /\ pc'[r] \in {"idle", "active", "create"} => status'[r] = "absent"
                          /\ status'[r] = "absent" => Untouched(r)' /\ ask'[r].run # r
                          /\ pc'[r] \in {"append", "release"} =>
                               status'[r] = "created" /\ Untouched(r)' /\ ask'[r].run = r
        BY DEF FirstMessage
      <3>1. CASE r = q
        BY <2>1, <2>3, <3>1
      <3>2. CASE r # q
        BY <1>1, <2>1, <2>5, <3>2 DEF OwnerInv, FirstMessage
      <3>3. QED
        BY <3>1, <3>2
    <2>7. OneActive'
      BY <1>3, <2>1, <2>3 DEF OwnerInv, OneActive, Active
    <2>8. JobSettled'
      <3>1. job.run # q
        BY <2>2 DEF Untouched
      <3>2. job.at \in SettledPoint => job.run \in Requests
        BY JobTyped, JobRun DEF SettledPoint
      <3>3. QED
        BY <1>1, <2>1, <3>1, <3>2 DEF OwnerInv, JobSettled
    <2>9. AcceptedIsOwned'
      <3> SUFFICES ASSUME NEW run \in Requests, status'[run] \in Executing, OfRun(run) # {}
                   PROVE  Owned(run)' \/ run \in abandoned'
        BY <2>4 DEF AcceptedIsOwned
      <3>1. run # q /\ (Owned(run) \/ run \in abandoned)
        BY <1>3, <2>1, <2>3 DEF OwnerInv, AcceptedIsOwned
      <3>2. ask[q].run = q
        BY <2>1 DEF OwnerInv, FirstMessage
      <3>3. QED
        BY <1>1, <2>1, <3>1, <3>2 DEF Owned
    <2>10. QED
      BY <2>6, <2>7, <2>8, <2>9 DEF OwnerInv
  \* It hands its run to the queue.
  <1>8. CASE RequestSubmits(q)
    <2>1. /\ UNCHANGED <<status, checkpoint, messages>>
          /\ pc[q] = "submit" /\ pc'[q] = "over" /\ ask'[q] = NoAsk
      BY <1>8 DEF RequestSubmits
    <2>2. \A run \in Requests : OfRun(run)' = OfRun(run)
      BY <2>1 DEF OfRun
    <2>3. /\ \A i \in DOMAIN queue' : queue'[i].run = ask[q].run
                                        \/ (i \in DOMAIN queue /\ queue'[i] = queue[i])
          /\ \A i \in DOMAIN queue : i \in DOMAIN queue' /\ queue'[i] = queue[i]
          /\ \E i \in DOMAIN queue' : queue'[i].run = ask[q].run
      <3>1. PICK item \in QueuedJob : item.run = ask[q].run /\ queue' = Append(queue, item)
        BY <1>8 DEF RequestSubmits
      <3>2. /\ \A i \in DOMAIN queue' : queue'[i].run = item.run
                                          \/ (i \in DOMAIN queue /\ queue'[i] = queue[i])
            /\ \A i \in DOMAIN queue : i \in DOMAIN queue' /\ queue'[i] = queue[i]
            /\ \E i \in DOMAIN queue' : queue'[i] = item
        BY <3>1, SubmitQueue
      <3>3. QED
        BY <3>1, <3>2
    <2>4. ASSUME NEW run \in Requests, run # ask[q].run, Untouched(run)
          PROVE  Untouched(run)'
      <3>1. \A p \in Requests \ {run} : ask'[p].run # run
        BY <1>1, <1>2, <2>1, <2>4 DEF Untouched
      <3>2. QED
        BY <1>1, <2>1, <2>2, <2>3, <2>4, <3>1, UntouchedStays DEF Untouched
    <2>5. FirstMessage'
      <3> SUFFICES ASSUME NEW r \in Requests
                   PROVE  /\ pc'[r] \in {"idle", "active", "create"} => status'[r] = "absent"
                          /\ status'[r] = "absent" => Untouched(r)' /\ ask'[r].run # r
                          /\ pc'[r] \in {"append", "release"} =>
                               status'[r] = "created" /\ Untouched(r)' /\ ask'[r].run = r
        BY DEF FirstMessage
      <3>1. CASE r = q
        BY <1>2, <2>1, <2>4, <3>1 DEF OwnerInv, FirstMessage
      <3>2. CASE r # q
        <4>1. Untouched(r) => ask[q].run # r
          BY <3>2 DEF Untouched
        <4>2. QED
          BY <1>1, <2>1, <2>4, <3>2, <4>1 DEF OwnerInv, FirstMessage
      <3>3. QED
        BY <3>1, <3>2
    <2>6. OneActive' /\ JobSettled'
      BY <1>1, <2>1 DEF OwnerInv, OneActive, Active, JobSettled
    <2>7. AcceptedIsOwned'
      <3> SUFFICES ASSUME NEW run \in Requests, status[run] \in Executing, OfRun(run) # {}
                   PROVE  Owned(run)' \/ run \in abandoned'
        BY <2>1, <2>2 DEF AcceptedIsOwned
      <3>1. Owned(run) \/ run \in abandoned
        BY DEF OwnerInv, AcceptedIsOwned
      <3>2. CASE run = ask[q].run
        BY <2>3, <3>2 DEF Owned
      <3>3. CASE run # ask[q].run
        BY <1>1, <2>3, <3>1, <3>3 DEF Owned
      <3>4. QED
        BY <3>2, <3>3
    <2>8. QED
      BY <2>5, <2>6, <2>7 DEF OwnerInv
  \* It ends a run that is touched, or stamps a reason on it.
  <1>9. CASE RequestEnds(q) \/ RequestStamps(q)
    <2>1. /\ UNCHANGED <<messages, queue>>
          /\ pc[q] \in {"withdraw", "decide", "reason", "stamp"}
          /\ pc'[q] \in {"reason", "settle", "publish", "over"}
          /\ ask'[q] = ask[q] \/ ask'[q] = NoAsk
      BY <1>9 DEF RequestEnds, RequestStamps
    <2>2. ask[q].run \in Requests
      BY <2>1 DEF TypeInv, AskShape, Serving
    <2>3. /\ \A run \in Requests : run # ask[q].run =>
                 status'[run] = status[run] /\ checkpoint'[run] = checkpoint[run]
          /\ status'[ask[q].run] = status[ask[q].run] \/ status'[ask[q].run] \in Terminal
      BY <1>2, <1>9, <2>2 DEF RequestEnds, RequestStamps
    <2>4. \A run \in Requests : OfRun(run)' = OfRun(run)
      BY <2>1 DEF OfRun
    <2>5. ASSUME NEW run \in Requests, run # ask[q].run, Untouched(run)
          PROVE  Untouched(run)'
      <3>1. \A p \in Requests \ {run} : ask'[p].run # run
        BY <1>1, <1>2, <2>1, <2>5 DEF Untouched
      <3>2. QED
        BY <1>1, <2>1, <2>3, <2>4, <2>5, <3>1, UntouchedStays DEF Untouched
    <2>6. status[ask[q].run] # "absent"
      BY <2>2 DEF OwnerInv, FirstMessage, Untouched
    <2>7. FirstMessage'
      <3> SUFFICES ASSUME NEW r \in Requests
                   PROVE  /\ pc'[r] \in {"idle", "active", "create"} => status'[r] = "absent"
                          /\ status'[r] = "absent" => Untouched(r)' /\ ask'[r].run # r
                          /\ pc'[r] \in {"append", "release"} =>
                               status'[r] = "created" /\ Untouched(r)' /\ ask'[r].run = r
        BY DEF FirstMessage
      <3>1. CASE r = ask[q].run
        <4>1. status'[r] # "absent"
          BY <1>3, <2>3, <2>6, <3>1
        <4>2. pc'[r] \notin {"idle", "active", "create", "append", "release"}
          <5>1. CASE r = q
            BY <2>1, <5>1
          <5>2. CASE r # q
            <6>1. ~Untouched(r) /\ pc'[r] = pc[r]
              BY <1>1, <3>1, <5>2 DEF Untouched
            <6>2. QED
              BY <6>1 DEF OwnerInv, FirstMessage
          <5>3. QED
            BY <5>1, <5>2
        <4>3. QED
          BY <4>1, <4>2
      <3>2. CASE r # ask[q].run
        <4>1. CASE r = q
          BY <1>2, <2>1, <2>3, <2>5, <3>2, <4>1 DEF OwnerInv, FirstMessage
        <4>2. CASE r # q
          BY <1>1, <2>3, <2>5, <3>2, <4>2 DEF OwnerInv, FirstMessage
        <4>3. QED
          BY <4>1, <4>2
      <3>3. QED
        BY <3>1, <3>2
    <2>8. OneActive'
      BY <1>3, <2>2, <2>3 DEF OwnerInv, OneActive, Active
    <2>9. JobSettled'
      <3>1. job.at \in SettledPoint => job.run \in Requests
        BY JobTyped, JobRun DEF SettledPoint
      <3>2. QED
        BY <1>1, <1>3, <2>3, <3>1 DEF OwnerInv, JobSettled
    <2>10. AcceptedIsOwned'
      <3> SUFFICES ASSUME NEW run \in Requests, status'[run] \in Executing, OfRun(run) # {}
                   PROVE  Owned(run)' \/ run \in abandoned'
        BY <2>4 DEF AcceptedIsOwned
      <3>1. status[run] \in Executing
        BY <1>3, <2>3
      <3>2. Owned(run) \/ run \in abandoned
        BY <3>1 DEF OwnerInv, AcceptedIsOwned
      <3>3. QED
        BY <1>1, <2>1, <3>2 DEF Owned
    <2>11. QED
      BY <2>7, <2>8, <2>9, <2>10 DEF OwnerInv
  <1>10. QED
    BY <1>4, <1>5, <1>6, <1>7, <1>8, <1>9 DEF RequestKind

\* The startup hook queues the one run that was being executed.
LEMMA RestartOwner ==
    ASSUME TypeInv, OwnerInv, NEW late \in SUBSET Runs, Restart(late)
    PROVE  OwnerInv'
  <1> DEFINE left == Recoverable \ late
  <1>1. /\ late \subseteq Recoverable
        /\ status' = [run \in Requests |-> IF run \in late THEN "expired" ELSE status[run]]
        /\ job' = NoJob
        /\ ask' = [q \in Requests |-> NoAsk]
        /\ pc' = [q \in Requests |-> IF pc[q] \in Serving THEN "over" ELSE pc[q]]
        /\ UNCHANGED <<checkpoint, messages, abandoned>>
    BY DEF Restart
  <1>2. "none" \notin Requests /\ NoAsk.run = "none" /\ NoJob.run = "none"
        /\ NoJob.at = "idle" /\ pc \in [Requests -> Serving \cup {"idle", "over"}]
    BY NoneIsNoValue, NoJobIdle DEF NoAsk, TypeInv, TypeOK
  <1>3. "expired" \notin Executing \cup Waiting \cup {"absent"}
        /\ {"active", "create", "append", "release"} \subseteq Serving
        /\ "absent" \notin Executing
    BY DEF Executing, Waiting, Serving
  <1>4. CASE left = {} /\ queue' = <<>>
    <2>1. \A i \in DOMAIN queue' : FALSE
      BY <1>4
    <2>2. FirstMessage'
      <3> SUFFICES ASSUME NEW r \in Requests
                   PROVE  /\ pc'[r] \in {"idle", "active", "create"} => status'[r] = "absent"
                          /\ status'[r] = "absent" => Untouched(r)' /\ ask'[r].run # r
                          /\ pc'[r] \in {"append", "release"} =>
                               status'[r] = "created" /\ Untouched(r)' /\ ask'[r].run = r
        BY DEF FirstMessage
      <3>1. pc'[r] \notin {"active", "create", "append", "release"}
            /\ (pc'[r] = "idle" => pc[r] = "idle")
        BY <1>1, <1>2, <1>3
      <3>2. status[r] = "absent" => r \notin late
        BY <1>1, <1>3 DEF Recoverable
      <3>3. status'[r] = "absent" => status[r] = "absent"
        BY <1>1, <1>3
      <3>4. OfRun(r)' = OfRun(r)
        BY <1>1 DEF OfRun
      <3>5. Untouched(r) => Untouched(r)'
        BY <1>1, <1>2, <2>1, <3>4 DEF Untouched
      <3>6. QED
        BY <1>1, <1>2, <3>1, <3>2, <3>3, <3>5 DEF OwnerInv, FirstMessage
    <2>3. AcceptedIsOwned'
      <3>1. \A run \in Requests : status'[run] \notin Executing
        BY <1>1, <1>3, <1>4 DEF Recoverable
      <3>2. QED
        BY <3>1 DEF AcceptedIsOwned
    <2>4. OneActive'
      BY <1>1, <1>3 DEF OwnerInv, OneActive, Active
    <2>5. JobSettled'
      BY <1>1, <1>2 DEF JobSettled, SettledPoint
    <2>6. QED
      BY <2>2, <2>3, <2>4, <2>5 DEF OwnerInv
  <1>5. CASE left # {}
    <2>1. PICK one \in left : one = CHOOSE run \in left : TRUE
      BY <1>5
    <2>2. one \in Requests /\ status[one] \in Executing /\ one \notin late
      BY <2>1 DEF Recoverable
    <2>3. PICK text : queue' = <<[run |-> one, text |-> text]>>
      <3> DEFINE txt == IF messages = <<>> THEN "none" ELSE messages[Len(messages)].text
      <3>1. queue' = IF left = {} THEN <<>>
                     ELSE <<[run |-> CHOOSE run \in left : TRUE, text |-> txt]>>
        BY DEF Restart
      <3> HIDE DEF left, txt
      <3>2. queue' = <<[run |-> one, text |-> txt]>>
        BY <1>5, <2>1, <3>1
      <3>3. QED
        BY <3>2
    <2>4. DOMAIN queue' = {1} /\ queue'[1].run = one
      BY <2>3
    <2>5. \A run \in left : run = one
      BY <2>2 DEF OwnerInv, OneActive, Active, Recoverable
    <2>6. FirstMessage'
      <3> SUFFICES ASSUME NEW r \in Requests
                   PROVE  /\ pc'[r] \in {"idle", "active", "create"} => status'[r] = "absent"
                          /\ status'[r] = "absent" => Untouched(r)' /\ ask'[r].run # r
                          /\ pc'[r] \in {"append", "release"} =>
                               status'[r] = "created" /\ Untouched(r)' /\ ask'[r].run = r
        BY DEF FirstMessage
      <3>1. pc'[r] \notin {"active", "create", "append", "release"}
            /\ (pc'[r] = "idle" => pc[r] = "idle")
        BY <1>1, <1>2, <1>3
      <3>2. status[r] = "absent" => r \notin late /\ r # one
        BY <1>1, <1>3, <2>2 DEF Recoverable
      <3>3. status'[r] = "absent" => status[r] = "absent"
        BY <1>1, <1>3
      <3>4. OfRun(r)' = OfRun(r)
        BY <1>1 DEF OfRun
      <3>5. r # one /\ Untouched(r) => Untouched(r)'
        BY <1>1, <1>2, <2>4, <3>4 DEF Untouched
      <3>6. QED
        BY <1>1, <1>2, <3>1, <3>2, <3>3, <3>5 DEF OwnerInv, FirstMessage
    <2>7. AcceptedIsOwned'
      <3> SUFFICES ASSUME NEW run \in Requests, status'[run] \in Executing
                   PROVE  Owned(run)'
        BY DEF AcceptedIsOwned
      <3>1. run \in left
        BY <1>1, <1>3 DEF Recoverable
      <3>2. QED
        BY <2>4, <2>5, <3>1 DEF Owned
    <2>8. OneActive'
      BY <1>1, <1>3 DEF OwnerInv, OneActive, Active
    <2>9. JobSettled'
      BY <1>1, <1>2 DEF JobSettled, SettledPoint
    <2>10. QED
      BY <2>6, <2>7, <2>8, <2>9 DEF OwnerInv
  <1>6. QED
    BY <1>4, <1>5 DEF Restart

\* OwnerInv is inductive.
LEMMA OwnerStep ==
    ASSUME TypeInv, OwnerInv, [Next]_vars
    PROVE  OwnerInv'
  <1>1. CASE UNCHANGED vars
    <2>1. UNCHANGED <<status, checkpoint, messages, job, queue, ask, pc, abandoned>>
      BY <1>1 DEF vars
    <2>2. QED
      BY <2>1 DEF OwnerInv, FirstMessage, Untouched, OfRun, OneActive, Active, JobSettled,
                  AcceptedIsOwned, Owned
  <1>2. ASSUME NEW q \in Requests, RequestArrives(q) \/ RequestStep(q)
        PROVE  OwnerInv'
    BY <1>2, ArrivalKind, RequestIsKind, RequestOwner
  <1>3. CASE WorkerStep \/ WorkerRaises
    BY <1>3, WorkerIsKind, WorkerOwner, TakeJobOwner
  <1>4. ASSUME NEW late \in SUBSET Runs, Restart(late)
        PROVE  OwnerInv'
    BY <1>4, RestartOwner
  <1>5. QED
    BY <1>1, <1>2, <1>3, <1>4 DEF Next

\* Nobody has anything to do with a run at the start.
LEMMA OwnerInit ==
    ASSUME Init
    PROVE  OwnerInv
  <1>1. \A r \in Requests : status[r] = "absent" /\ ask[r] = NoAsk /\ pc[r] = "idle"
        /\ checkpoint[r] = NoCheckpoint
    BY DEF Init
  <1>2. messages = <<>> /\ queue = <<>> /\ job = NoJob
    BY DEF Init
  <1>3. "none" \notin Requests /\ NoAsk.run = "none" /\ NoJob.run = "none"
    BY NoneIsNoValue DEF NoAsk, NoJob
  <1>4. \A r \in Requests : Untouched(r)
    <2>1. DOMAIN messages = {} /\ DOMAIN queue = {}
      BY <1>2
    <2>2. QED
      BY <1>1, <1>2, <1>3, <2>1 DEF Untouched, OfRun
  <1>5. FirstMessage
    BY <1>1, <1>3, <1>4 DEF FirstMessage
  <1>6. OneActive /\ AcceptedIsOwned
    BY <1>1 DEF OneActive, Active, AcceptedIsOwned, Executing, Waiting
  <1>7. JobSettled
    BY <1>2, NoJobIdle DEF JobSettled, SettledPoint
  <1>8. QED
    BY <1>5, <1>6, <1>7 DEF OwnerInv

\* OwnerInv is an invariant.
LEMMA OwnerAlways == Spec => [](TypeInv /\ OwnerInv)
  BY TypeInvInit, TypeInvStep, OwnerInit, OwnerStep, PTL DEF Spec

\* send_message, recover_active_runs: for any requests, faults and crashes, a run
\* that carries a message and has neither ended nor paused is queued, executed or
\* about to be submitted, unless its failure could not be recorded either.
THEOREM AcceptedRunsAreOwned == Spec => []AcceptedIsOwned
  <1>1. OwnerInv => AcceptedIsOwned
    BY DEF OwnerInv
  <1>2. QED
    BY <1>1, OwnerAlways, PTL

-------------------------------------------------------------------------------
(***************************************************************************)
(* What has ended                                                          *)
(***************************************************************************)

\* No step takes a run out of its end but the checkpoint of a safety handoff.
EndsOnce ==
    \A run \in Runs :
        status[run] \in Terminal /\ status'[run] # status[run] =>
            /\ status'[run] = "waiting_human"
            /\ job.run = run /\ At("park") /\ job.text \in Unsafe

\* The worker is never up to date with a run that has ended while it executes it.
LEMMA WorkerEnd ==
    ASSUME TypeInv, OwnerInv, EndInv, WorkerKind
    PROVE  EndInv' /\ EndsOnce
  <1>1. /\ job \in Job /\ job.run \in Requests /\ job.at # "idle"
        /\ job.ctx \in Context /\ job.ctx.version \in Nat
        /\ UNCHANGED <<pc, ask>>
    BY JobRun DEF WorkerKind, JobPoint, Context
  <1>2. /\ status \in [Requests -> RunStatus \cup {"absent"}]
        /\ version \in [Requests -> Nat] /\ checkpoint \in [Requests -> Context]
        /\ \A run \in Requests : checkpoint[run].version \in Nat
        /\ \A q \in Requests : pc[q] \in HoldsContext =>
               ask[q].run \in Requests /\ ask[q].ctx.version \in Nat
    BY DEF TypeInv, TypeOK, AskShape, Ask, Context, Serving
  <1>3. job.ctx.version <= version[job.run]
    BY <1>1 DEF EndInv, JobKnows
  <1>4. status[job.run] # "absent"
    BY <1>1, JobIsTouched
  <1>5. CASE JobMoves
    <2>1. UNCHANGED <<status, version, checkpoint>>
      BY <1>5 DEF JobMoves
    <2>2. CheckpointKnows' /\ AskKnows' /\ EndsOnce
      BY <1>1, <2>1 DEF EndInv, CheckpointKnows, AskKnows, EndsOnce
    <2>3. JobKnows'
      BY <1>1, <1>5 DEF EndInv, JobKnows, JobMoves, SameJob, ExecutionPoint, SettledPoint
    <2>4. QED
      BY <2>2, <2>3 DEF EndInv
  <1>6. CASE JobCommits
    <2>1. PICK ctx \in Context :
              /\ version[job.run] = job.ctx.version
              /\ ctx.version = job.ctx.version + 1 /\ ctx.status # "created"
              /\ status' = [status EXCEPT ![job.run] = ctx.status]
              /\ version' = [version EXCEPT ![job.run] = @ + 1]
              /\ checkpoint' = [checkpoint EXCEPT ![job.run] = ctx]
              /\ SameJob /\ job'.ctx = ctx
              /\ job.at \in ExecutionPoint \ {"handoff"}
              /\ job.at = "park" => ctx.status = "waiting_human"
              /\ \/ job'.at \in SettledPoint
                 \/ job'.at \in ExecutionPoint /\ ctx.status \notin Terminal
      BY <1>6 DEF JobCommits
    <2>2. /\ status'[job.run] = ctx.status /\ version'[job.run] = version[job.run] + 1
          /\ checkpoint'[job.run] = ctx
          /\ \A run \in Requests \ {job.run} :
                 /\ status'[run] = status[run] /\ version'[run] = version[run]
                 /\ checkpoint'[run] = checkpoint[run]
      BY <1>1, <1>2, <2>1
    <2>3. CheckpointKnows'
      <3> SUFFICES ASSUME NEW run \in Requests
                   PROVE  /\ checkpoint'[run].version <= version'[run]
                          /\ status'[run] = "created" => checkpoint'[run] = NoCheckpoint
                          /\ checkpoint'[run] # NoCheckpoint
                               /\ checkpoint'[run].version = version'[run] =>
                               status'[run] = checkpoint'[run].status
        BY DEF CheckpointKnows
      <3>1. CASE run = job.run
        BY <1>1, <2>1, <2>2, <3>1
      <3>2. CASE run # job.run
        BY <2>2, <3>2 DEF EndInv, CheckpointKnows
      <3>3. QED
        BY <3>1, <3>2
    <2>4. AskKnows'
      BY <1>1, <1>2, <2>2 DEF EndInv, AskKnows
    <2>5. JobKnows'
      <3>1. job'.at # "route"
        BY <2>1 DEF SettledPoint, ExecutionPoint
      <3>2. job'.ctx.version = version'[job'.run]
        BY <2>1, <2>2 DEF SameJob
      <3>3. job'.at \in ExecutionPoint => status'[job'.run] \notin Terminal
        BY <2>1, <2>2 DEF SameJob, SettledPoint, ExecutionPoint
      <3>4. job'.ctx.version <= version'[job'.run]
        BY <1>1, <1>2, <2>1, <2>2 DEF SameJob
      <3>5. QED
        BY <3>1, <3>3, <3>4 DEF JobKnows
    <2>6. EndsOnce
      <3> SUFFICES ASSUME NEW run \in Requests, status[run] \in Terminal,
                          status'[run] # status[run]
                   PROVE  /\ status'[run] = "waiting_human"
                          /\ job.run = run /\ At("park") /\ job.text \in Unsafe
        BY DEF EndsOnce
      <3>1. run = job.run
        BY <2>2
      <3>2. job.at \in {"handoff", "park"} /\ job.text \in Unsafe
        BY <1>1, <2>1, <3>1 DEF EndInv, JobKnows
      <3>3. job.at = "park"
        BY <2>1, <3>2
      <3>4. QED
        BY <2>1, <2>2, <3>1, <3>2, <3>3 DEF At
    <2>7. QED
      BY <2>3, <2>4, <2>5, <2>6 DEF EndInv
  <1>7. CASE JobStamps
    <2>1. /\ UNCHANGED <<status, checkpoint>>
          /\ version'[job.run] = version[job.run] + 1
          /\ \A run \in Requests \ {job.run} : version'[run] = version[run]
      BY <1>1, <1>2, <1>7 DEF JobStamps
    <2>2. CheckpointKnows' /\ AskKnows' /\ EndsOnce
      <3>1. CheckpointKnows'
        BY <1>2, <2>1 DEF EndInv, CheckpointKnows
      <3>2. AskKnows'
        BY <1>1, <1>2, <2>1 DEF EndInv, AskKnows
      <3>3. QED
        BY <2>1, <3>1, <3>2 DEF EndsOnce
    <2>3. JobKnows'
      <3>1. CASE job' = NoJob
        BY <3>1, NoJobIdle DEF JobKnows
      <3>2. CASE SameJob /\ job'.ctx = job.ctx
        BY <1>1, <1>2, <1>3, <2>1, <3>2 DEF JobKnows, SameJob
      <3>3. QED
        BY <1>7, <3>1, <3>2 DEF JobStamps
    <2>4. QED
      BY <2>2, <2>3 DEF EndInv
  <1>8. CASE JobSelects
    <2>1. /\ UNCHANGED <<version, checkpoint>>
          /\ status[job.run] = "created"
          /\ status'[job.run] # "created" /\ status'[job.run] \notin Terminal
          /\ \A run \in Requests \ {job.run} : status'[run] = status[run]
      BY <1>1, <1>2, <1>8 DEF JobSelects
    <2>2. CheckpointKnows'
      BY <2>1 DEF EndInv, CheckpointKnows
    <2>3. AskKnows'
      BY <1>1, <1>2, <2>1 DEF EndInv, AskKnows
    <2>4. EndsOnce
      BY <2>1 DEF EndsOnce, Terminal
    <2>5. JobKnows'
      BY <1>3, <1>8, <2>1 DEF JobKnows, JobSelects, SameJob
    <2>6. QED
      BY <2>2, <2>3, <2>4, <2>5 DEF EndInv
  <1>9. CASE JobFails
    <2>1. /\ UNCHANGED checkpoint
          /\ SameJob /\ job'.ctx = job.ctx /\ job'.at = "apology"
      BY <1>9 DEF JobFails
    <2>2. CASE UNCHANGED <<status, version>>
      <3>1. CheckpointKnows' /\ AskKnows' /\ EndsOnce
        BY <1>1, <2>1, <2>2 DEF EndInv, CheckpointKnows, AskKnows, EndsOnce
      <3>2. JobKnows'
        BY <1>3, <2>1, <2>2 DEF JobKnows, SameJob, ExecutionPoint
      <3>3. QED
        BY <3>1, <3>2 DEF EndInv
    <2>3. CASE /\ status[job.run] \notin Terminal
               /\ status' = [status EXCEPT ![job.run] = "failed"]
               /\ version' = [version EXCEPT ![job.run] = @ + 1]
      <3>1. /\ status'[job.run] = "failed" /\ version'[job.run] = version[job.run] + 1
            /\ \A run \in Requests \ {job.run} :
                   status'[run] = status[run] /\ version'[run] = version[run]
        BY <1>1, <1>2, <2>3
      <3>2. CheckpointKnows'
        BY <1>2, <2>1, <3>1 DEF EndInv, CheckpointKnows
      <3>3. AskKnows'
        BY <1>1, <1>2, <3>1 DEF EndInv, AskKnows
      <3>4. EndsOnce
        BY <2>3, <3>1 DEF EndsOnce
      <3>5. JobKnows'
        BY <1>1, <1>2, <1>3, <2>1, <3>1 DEF JobKnows, SameJob
      <3>6. QED
        BY <3>2, <3>3, <3>4, <3>5 DEF EndInv
    <2>4. QED
      BY <1>9, <2>2, <2>3 DEF JobFails
  <1>10. CASE JobEnds
    <2>1. UNCHANGED <<status, version, checkpoint>> /\ job'.at = "idle"
      BY <1>10, NoJobIdle DEF JobEnds
    <2>2. QED
      BY <1>1, <2>1 DEF EndInv, CheckpointKnows, AskKnows, JobKnows, EndsOnce
  <1>11. QED
    BY <1>5, <1>6, <1>7, <1>8, <1>9, <1>10 DEF WorkerKind

\* A job starts from the newest checkpoint and knows what it knows.
LEMMA TakeJobEnd ==
    ASSUME TypeInv, OwnerInv, EndInv, TakeJob
    PROVE  EndInv' /\ EndsOnce
  <1>1. UNCHANGED <<status, version, checkpoint, pc, ask>>
    BY DEF TakeJob, runVars, requestVars
  <1>2. CheckpointKnows' /\ AskKnows' /\ EndsOnce
    BY <1>1 DEF EndInv, CheckpointKnows, AskKnows, EndsOnce
  <1> DEFINE run == Head(queue).run
             ctx == Resumed(checkpoint[run])
  <1>3. run \in Requests
    <2>1. queue \in Seq(QueuedJob) /\ queue # <<>>
      BY DEF TakeJob, TypeInv, TypeOK
    <2>2. Head(queue) \in QueuedJob
      BY <2>1
    <2>3. QED
      BY <2>2 DEF QueuedJob
  <1>4. job'.run = run /\ job'.ctx = ctx /\ job'.at \in {"failing", "route"}
    BY DEF TakeJob
  <1>5. checkpoint[run] \in Context
    BY <1>3 DEF TypeInv, TypeOK
  <1>6. /\ ctx.version = checkpoint[run].version
        /\ checkpoint[run].status # "waiting_user" => ctx.status = checkpoint[run].status
    BY <1>5 DEF Resumed, Context
  <1>7. ASSUME ctx.version = version[run], status[run] \in Terminal
        PROVE  ctx.status \notin {"running_readonly", "running_workflow"}
    <2>1. CASE checkpoint[run] = NoCheckpoint
      <3>1. checkpoint[run].status = "created"
        BY <2>1 DEF NoCheckpoint
      <3>2. QED
        BY <1>6, <3>1
    <2>2. CASE checkpoint[run] # NoCheckpoint
      <3>1. checkpoint[run].status \in Terminal
        BY <1>3, <1>6, <1>7, <2>2 DEF EndInv, CheckpointKnows
      <3>2. QED
        BY <1>6, <3>1 DEF Terminal
    <2>3. QED
      BY <2>1, <2>2
  <1>8. ctx.version <= version[run]
    BY <1>3, <1>6 DEF EndInv, CheckpointKnows
  <1> HIDE DEF ctx, run
  <1>9. JobKnows'
    BY <1>1, <1>4, <1>7, <1>8 DEF JobKnows, ExecutionPoint
  <1>10. QED
    BY <1>2, <1>9 DEF EndInv

\* A request ends a run only when it is up to date with it, and creates and takes
\* back no run that has ended.
LEMMA RequestEnd ==
    ASSUME TypeInv, OwnerInv, EndInv, NEW q \in Requests, RequestKind(q)
    PROVE  EndInv' /\ EndsOnce
  <1>1. /\ job' = job
        /\ \A r \in Requests \ {q} : pc'[r] = pc[r] /\ ask'[r] = ask[r]
    BY DEF RequestKind, Elsewhere
  <1>2. /\ status \in [Requests -> RunStatus \cup {"absent"}]
        /\ version \in [Requests -> Nat] /\ checkpoint \in [Requests -> Context]
        /\ \A run \in Requests : checkpoint[run].version \in Nat
        /\ \A r \in Requests : pc[r] \in HoldsContext =>
               ask[r].run \in Requests /\ ask[r].ctx.version \in Nat
    BY DEF TypeInv, TypeOK, AskShape, Ask, Context, Serving
  <1>3. job.at # "idle" => job.run \in Requests /\ job.ctx.version \in Nat
    BY JobTyped, JobRun DEF Context
  <1>4. CASE RequestLooks(q)
    <2>1. UNCHANGED <<status, version, checkpoint>>
      BY <1>4 DEF RequestLooks
    <2>2. CheckpointKnows' /\ JobKnows' /\ EndsOnce
      BY <1>1, <2>1 DEF EndInv, CheckpointKnows, JobKnows, EndsOnce
    <2>3. AskKnows'
      <3> SUFFICES ASSUME NEW r \in Requests, pc'[r] \in HoldsContext
                   PROVE  /\ ask'[r].ctx.version <= version[ask'[r].run]
                          /\ ask'[r].ctx.version = version[ask'[r].run] =>
                               status[ask'[r].run] \notin Terminal
        BY <2>1 DEF AskKnows
      <3>1. CASE r = q
        <4>1. /\ ask'[q].run \in Requests /\ ask'[q].ctx = checkpoint[ask'[q].run]
              /\ checkpoint[ask'[q].run] # NoCheckpoint /\ ask'[q].ctx.status \notin Terminal
          BY <1>4, <3>1 DEF RequestLooks
        <4>2. QED
          BY <3>1, <4>1 DEF EndInv, CheckpointKnows
      <3>2. CASE r # q
        BY <1>1, <3>2 DEF EndInv, AskKnows
      <3>3. QED
        BY <3>1, <3>2
    <2>4. QED
      BY <2>2, <2>3 DEF EndInv
  <1>5. CASE RequestStores(q) \/ RequestSubmits(q)
    <2>1. UNCHANGED <<status, version, checkpoint>> /\ pc'[q] \notin HoldsContext
      BY <1>5 DEF RequestStores, RequestSubmits
    <2>2. QED
      BY <1>1, <2>1 DEF EndInv, CheckpointKnows, AskKnows, JobKnows, EndsOnce
  <1>6. CASE RequestCreates(q) \/ RequestReleases(q)
    <2>1. /\ UNCHANGED <<version, checkpoint>> /\ pc'[q] \notin HoldsContext
          /\ \A run \in Requests \ {q} : status'[run] = status[run]
      BY <1>2, <1>6 DEF RequestCreates, RequestReleases
    <2>2. Untouched(q) /\ status[q] \in {"absent", "created"}
      BY <1>6 DEF RequestCreates, RequestReleases, OwnerInv, FirstMessage
    <2>3. checkpoint[q] = NoCheckpoint /\ job.run # q
          /\ \A p \in Requests \ {q} : ask[p].run # q
      BY <2>2 DEF Untouched
    <2>4. CheckpointKnows'
      BY <2>1, <2>3 DEF EndInv, CheckpointKnows
    <2>5. AskKnows'
      BY <1>1, <1>2, <2>1, <2>3 DEF EndInv, AskKnows
    <2>6. JobKnows'
      BY <1>1, <1>3, <2>1, <2>3 DEF EndInv, JobKnows
    <2>7. EndsOnce
      BY <2>1, <2>2 DEF EndsOnce, Terminal
    <2>8. QED
      BY <2>4, <2>5, <2>6, <2>7 DEF EndInv
  <1>7. CASE RequestEnds(q)
    <2>1. PICK ctx \in Context :
              /\ ctx.status \in Terminal /\ ctx.version = ask[q].ctx.version + 1
              /\ version[ask[q].run] = ask[q].ctx.version
              /\ status' = [status EXCEPT ![ask[q].run] = ctx.status]
              /\ version' = [version EXCEPT ![ask[q].run] = @ + 1]
              /\ checkpoint' = [checkpoint EXCEPT ![ask[q].run] = ctx]
              /\ pc[q] \in HoldsContext /\ pc'[q] \in {"reason", "settle"}
      BY <1>7 DEF RequestEnds
    <2>2. ask[q].run \in Requests
      BY <1>2, <2>1
    <2>3. /\ status'[ask[q].run] = ctx.status /\ checkpoint'[ask[q].run] = ctx
          /\ version'[ask[q].run] = version[ask[q].run] + 1
          /\ \A run \in Requests : run # ask[q].run =>
                 /\ status'[run] = status[run] /\ version'[run] = version[run]
                 /\ checkpoint'[run] = checkpoint[run]
      BY <1>2, <2>1, <2>2
    <2>4. CheckpointKnows'
      <3> SUFFICES ASSUME NEW run \in Requests
                   PROVE  /\ checkpoint'[run].version <= version'[run]
                          /\ status'[run] = "created" => checkpoint'[run] = NoCheckpoint
                          /\ checkpoint'[run] # NoCheckpoint
                               /\ checkpoint'[run].version = version'[run] =>
                               status'[run] = checkpoint'[run].status
        BY DEF CheckpointKnows
      <3>1. CASE run = ask[q].run
        BY <1>2, <2>1, <2>2, <2>3, <3>1 DEF Terminal
      <3>2. CASE run # ask[q].run
        BY <2>3, <3>2 DEF EndInv, CheckpointKnows
      <3>3. QED
        BY <3>1, <3>2
    <2>5. AskKnows'
      <3> SUFFICES ASSUME NEW r \in Requests, pc'[r] \in HoldsContext
                   PROVE  /\ ask'[r].ctx.version <= version'[ask'[r].run]
                          /\ ask'[r].ctx.version = version'[ask'[r].run] =>
                               status'[ask'[r].run] \notin Terminal
        BY DEF AskKnows
      <3>1. r # q /\ pc[r] \in HoldsContext /\ ask'[r] = ask[r]
        BY <1>1, <2>1
      <3>2. QED
        BY <1>2, <2>2, <2>3, <3>1 DEF EndInv, AskKnows
    <2>6. JobKnows'
      BY <1>1, <1>2, <1>3, <2>2, <2>3 DEF EndInv, JobKnows
    <2>7. EndsOnce
      BY <2>1, <2>3 DEF EndsOnce, EndInv, AskKnows
    <2>8. QED
      BY <2>4, <2>5, <2>6, <2>7 DEF EndInv
  <1>8. CASE RequestStamps(q)
    <2>1. /\ version' = [version EXCEPT ![ask[q].run] = @ + 1]
          /\ UNCHANGED <<status, checkpoint>> /\ pc'[q] \notin HoldsContext
          /\ pc[q] \in {"reason", "stamp"}
      BY <1>8 DEF RequestStamps
    <2>2. ask[q].run \in Requests
      BY <2>1 DEF TypeInv, AskShape, Serving
    <2>3. /\ version'[ask[q].run] = version[ask[q].run] + 1
          /\ \A run \in Requests : run # ask[q].run => version'[run] = version[run]
      BY <1>2, <2>1, <2>2
    <2>4. CheckpointKnows'
      BY <1>2, <2>1, <2>3 DEF EndInv, CheckpointKnows
    <2>5. AskKnows'
      <3> SUFFICES ASSUME NEW r \in Requests, pc'[r] \in HoldsContext
                   PROVE  /\ ask'[r].ctx.version <= version'[ask'[r].run]
                          /\ ask'[r].ctx.version = version'[ask'[r].run] =>
                               status'[ask'[r].run] \notin Terminal
        BY DEF AskKnows
      <3>1. r # q /\ pc[r] \in HoldsContext /\ ask'[r] = ask[r]
        BY <1>1, <2>1
      <3>2. QED
        BY <1>2, <2>1, <2>2, <2>3, <3>1 DEF EndInv, AskKnows
    <2>6. JobKnows'
      BY <1>1, <1>2, <1>3, <2>1, <2>2, <2>3 DEF EndInv, JobKnows
    <2>7. QED
      BY <2>1, <2>4, <2>5, <2>6 DEF EndInv, EndsOnce
  <1>9. QED
    BY <1>4, <1>5, <1>6, <1>7, <1>8 DEF RequestKind

\* The startup hook expires only what was being executed.
LEMMA RestartEnd ==
    ASSUME TypeInv, OwnerInv, EndInv, NEW late \in SUBSET Runs, Restart(late)
    PROVE  EndInv' /\ EndsOnce
  <1> DEFINE ended == [run \in Runs |-> IF run \in late THEN "expired" ELSE status[run]]
             silent == {run \in Runs : /\ ended[run] \in Terminal
                                       /\ reply[run] = "none"
                                       /\ ~Overrun(run)}
  <1>1. /\ late \subseteq Recoverable
        /\ status' = ended
        /\ version' = [run \in Runs |->
               version[run] + (IF run \in late THEN 1 ELSE 0)
                 + (IF run \in silent /\ checkpoint[run].reason = "stop" THEN 1 ELSE 0)]
        /\ job' = NoJob /\ checkpoint' = checkpoint
        /\ pc' = [q \in Requests |-> IF pc[q] \in Serving THEN "over" ELSE pc[q]]
    BY DEF Restart
  <1> HIDE DEF silent
  <1>2. /\ version \in [Requests -> Nat] /\ pc \in [Requests -> Serving \cup {"idle", "over"}]
        /\ \A run \in Requests : checkpoint[run].version \in Nat
    BY DEF TypeInv, TypeOK, Context
  <1>3. \A run \in Requests :
            /\ status'[run] = IF run \in late THEN "expired" ELSE status[run]
            /\ version'[run] \in Nat /\ version'[run] >= version[run]
            /\ run \in late => version'[run] > version[run]
    BY <1>1, <1>2
  <1>4. CheckpointKnows'
    <2> SUFFICES ASSUME NEW run \in Requests
                 PROVE  /\ checkpoint[run].version <= version'[run]
                        /\ status'[run] = "created" => checkpoint[run] = NoCheckpoint
                        /\ checkpoint[run] # NoCheckpoint
                             /\ checkpoint[run].version = version'[run] =>
                             status'[run] = checkpoint[run].status
      BY <1>1 DEF CheckpointKnows
    <2>1. version[run] \in Nat /\ checkpoint[run].version \in Nat
      BY <1>2
    <2>2. checkpoint[run].version = version'[run] =>
            version[run] = checkpoint[run].version /\ run \notin late
      BY <1>3, <2>1 DEF EndInv, CheckpointKnows
    <2>3. QED
      BY <1>3, <2>1, <2>2 DEF EndInv, CheckpointKnows
  <1>5. AskKnows'
    <2>1. \A q \in Requests : pc'[q] \in {"idle", "over"}
      BY <1>1, <1>2
    <2>2. QED
      BY <2>1 DEF AskKnows
  <1>6. JobKnows'
    BY <1>1, NoJobIdle DEF JobKnows
  <1>7. EndsOnce
    BY <1>1, <1>3 DEF EndsOnce, Recoverable, Executing, Terminal
  <1>8. QED
    BY <1>4, <1>5, <1>6, <1>7 DEF EndInv

\* EndInv is inductive, and nothing that has ended goes on.
LEMMA EndStep ==
    ASSUME TypeInv, OwnerInv, EndInv, [Next]_vars
    PROVE  EndInv' /\ EndsOnce
  <1>1. CASE UNCHANGED vars
    <2>1. UNCHANGED <<status, version, checkpoint, job, ask, pc>>
      BY <1>1 DEF vars
    <2>2. QED
      BY <2>1 DEF EndInv, CheckpointKnows, AskKnows, JobKnows, EndsOnce
  <1>2. ASSUME NEW q \in Requests, RequestArrives(q) \/ RequestStep(q)
        PROVE  EndInv' /\ EndsOnce
    BY <1>2, ArrivalKind, RequestIsKind, RequestEnd
  <1>3. CASE WorkerStep \/ WorkerRaises
    BY <1>3, WorkerIsKind, WorkerEnd, TakeJobEnd
  <1>4. ASSUME NEW late \in SUBSET Runs, Restart(late)
        PROVE  EndInv' /\ EndsOnce
    BY <1>4, RestartEnd
  <1>5. QED
    BY <1>1, <1>2, <1>3, <1>4 DEF Next

\* At the start nothing is known of any run.
LEMMA EndInit ==
    ASSUME Init
    PROVE  EndInv
  <1>1. \A r \in Requests : /\ status[r] = "absent" /\ version[r] = 0 /\ pc[r] = "idle"
                            /\ checkpoint[r] = NoCheckpoint
    BY DEF Init
  <1>2. job.at = "idle"
    BY NoJobIdle DEF Init
  <1>3. NoCheckpoint.version = 0
    BY DEF NoCheckpoint
  <1>4. QED
    BY <1>1, <1>2, <1>3 DEF EndInv, CheckpointKnows, AskKnows, JobKnows

\* commit_step, _mark_failed, recover_active_runs: for any requests, faults and
\* crashes, a run that has ended is not executed again; the one way back is the
\* checkpoint of a safety handoff for an answer that was still queued.
THEOREM EndedForGood == Spec => EndedStaysEnded
  <1>1. TypeInv /\ OwnerInv /\ EndInv /\ [Next]_vars => EndInv'
    BY EndStep
  <1>2. TypeInv /\ OwnerInv /\ EndInv /\ [Next]_vars =>
          [\A run \in Runs :
              status[run] \in Terminal /\ status'[run] # status[run] =>
                  /\ status'[run] = "waiting_human"
                  /\ job.run = run /\ At("park") /\ job.text \in Unsafe]_vars
    BY EndStep DEF EndsOnce
  <1>3. QED
    BY <1>1, <1>2, EndInit, OwnerAlways, PTL DEF Spec, EndedStaysEnded
===============================================================================
