--------------------------- MODULE AgentLoopProofs ---------------------------
(***************************************************************************)
(* The readonly loop for any tools, evidence, proposals and bounds: the    *)
(* journal is in order, an answer cites only what was retrieved, a late    *)
(* adapter answers no attempt but its own, and a call that was started is  *)
(* published.  To the executor of RunControl the loop is what its model    *)
(* of a readonly run says.                                                 *)
(***************************************************************************)
EXTENDS LoopExits, SequenceTheorems, TLAPS

-------------------------------------------------------------------------------
(***************************************************************************)
(* The inductive invariant                                                 *)
(***************************************************************************)

Places == {"step", "post", "decided", "attempt", "wait", "reduce", "stuck",
           "done", "raised"}

RunStatus == {"running_readonly", "waiting_user", "waiting_human", "completed",
              "failed", "cancelled"}
Outcome == {"none", "fail", "continue", "wait_user", "wait_human", "complete"}
Reason == Exhausted \cup
          {"none", "cancelled", "model_unavailable", "model_audit_failed",
           "decision_rejected", "readonly_write_tool_forbidden",
           "tool_execution_failed", "readonly_loop_no_progress"}
Code == {"none", "ok", "RESOURCE_NOT_FOUND", "INTERNAL_ERROR", "INVALID_ARGUMENT",
         "UPSTREAM_TIMEOUT"}

Result == [code : Code, data : SUBSET Evidence, retryable : BOOLEAN,
           maker : {<<>>} \cup (Nat \X Nat)]

\* The part of the loop's state the arguments below rest on, and its types.
LoopTypeOK ==
    /\ pc \in Places
    /\ request \in [repair : BOOLEAN, post : Nat, second : BOOLEAN]
    /\ decision \in Decision \cup {NoDecision}
    /\ outcome \in [status : Outcome, reason : Reason]
    /\ call \in [attempts : Nat, started : Nat, result : Result]
    /\ threads \in SUBSET (Nat \X Nat)
    /\ ctx \in [status : RunStatus, version : Nat, steps : Nat, tools : SUBSET (Tools \cup {"none"}),
                evidence : SUBSET Evidence, reason : Reason]
    /\ retrieved \in SUBSET Evidence /\ given \in SUBSET Evidence

\* The stages a step has recorded when it is at a place.
Asked == <<"build_prompt">>
Answered == <<"build_prompt", "request_decision">>
Vetted == <<"build_prompt", "request_decision", "validate">>
Observed == <<"build_prompt", "request_decision", "validate", "execute", "observe">>

\* Where the loop is says which stages are in the journal.
JournalShape ==
    /\ pc = "post" => journal = IF request.second THEN Answered ELSE Asked
    /\ pc = "decided" => journal = Answered
    /\ pc \in {"attempt", "wait"} => journal = Vetted
    /\ pc = "reduce" => journal = Observed
    /\ pc = "step" => journal \in {<<>>, PIPELINE_ORDER}
    /\ pc \in {"stuck", "done", "raised"} => journal = PIPELINE_ORDER

\* Outside the execution of a tool there is no call; an adapter that was started
\* counts as an attempt, and the step it was started in continues unless the
\* executor raised after it.
CallShape ==
    /\ pc \notin {"attempt", "wait", "reduce"} => call = NoCall
    /\ call.started <= call.attempts
    /\ pc = "reduce" /\ call.started > 0 =>
          \/ outcome.status = "continue"
          \/ outcome.status = "fail" /\ outcome.reason = "tool_execution_failed"

\* What the loop trusts was retrieved, and a step that completes the run cites
\* nothing else.
EvidenceShape ==
    /\ pc \notin {"done", "raised"} => ctx.status = "running_readonly"
    /\ Trusted \subseteq retrieved
    /\ pc = "reduce" /\ outcome.status = "complete" => decision.cites \subseteq Trusted

LoopInv ==
    /\ LoopTypeOK
    /\ JournalShape
    /\ CallShape
    /\ EvidenceShape
    /\ AnswerOfItsAttempt
    /\ CitesOnlyRetrieved

-------------------------------------------------------------------------------
(***************************************************************************)
(* The journal's stages                                                    *)
(***************************************************************************)

Stages == {"build_prompt", "request_decision", "validate", "execute", "observe",
           "reduce", "checkpoint", "terminate"}

\* A concatenation is known by its length and its elements.
LEMMA Joined ==
    ASSUME NEW s \in Seq(Stages), NEW t \in Seq(Stages), NEW u \in Seq(Stages),
           Len(u) = Len(s) + Len(t),
           \A i \in 1..Len(s) : u[i] = s[i],
           \A i \in 1..Len(t) : u[Len(s) + i] = t[i]
    PROVE  s \o t = u
  <1>1. /\ s \o t \in Seq(Stages)
        /\ Len(s \o t) = Len(s) + Len(t)
        /\ \A i \in 1 .. Len(s) + Len(t) :
              (s \o t)[i] = IF i <= Len(s) THEN s[i] ELSE t[i - Len(s)]
    BY ConcatProperties
  <1>2. ASSUME NEW i \in 1 .. Len(s \o t)
        PROVE  (s \o t)[i] = u[i]
    <2>1. CASE i <= Len(s)
      BY <1>1, <2>1
    <2>2. CASE i > Len(s)
      <3>1. i - Len(s) \in 1..Len(t)
        BY <1>1, <2>2
      <3>2. u[Len(s) + (i - Len(s))] = t[i - Len(s)]
        BY <3>1
      <3> QED  BY <1>1, <2>2, <3>2
    <2> QED  BY <2>1, <2>2, <1>1
  <1> QED  BY <1>1, <1>2, SeqEqual

\* The concatenations the loop's actions perform, one for each path of a step.
LEMMA RecordSkipped == Answered \o Skipped = Observed
  <1>1. /\ Answered \in Seq(Stages)
        /\ Skipped \in Seq(Stages)
        /\ Observed \in Seq(Stages)
    BY DEF Answered, Skipped, Observed, Stages
  <1>2. Len(Answered) = 2 /\ Len(Skipped) = 3 /\ Len(Observed) = 5
    BY DEF Answered, Skipped, Observed
  <1>3. Len(Observed) = Len(Answered) + Len(Skipped)
    BY <1>2
  <1>4. \A i \in 1..Len(Answered) : Observed[i] = Answered[i]
    BY <1>2 DEF Answered, Skipped, Observed
  <1>5. \A i \in 1..Len(Skipped) : Observed[Len(Answered) + i] = Skipped[i]
    BY <1>2 DEF Answered, Skipped, Observed
  <1> QED  BY <1>1, <1>3, <1>4, <1>5, Joined

LEMMA RecordRequest ==
    <<"request_decision">> \o Skipped
      = <<"request_decision", "validate", "execute", "observe">>
  <1>1. /\ <<"request_decision">> \in Seq(Stages)
        /\ Skipped \in Seq(Stages)
        /\ <<"request_decision", "validate", "execute", "observe">> \in Seq(Stages)
    BY DEF Skipped, Stages
  <1>2. /\ Len(<<"request_decision">>) = 1
        /\ Len(Skipped) = 3
        /\ Len(<<"request_decision", "validate", "execute", "observe">>) = 4
    BY DEF Skipped
  <1>3. /\ Len(<<"request_decision", "validate", "execute", "observe">>) = Len(<<"request_decision">>) + Len(Skipped)
    BY <1>2
  <1>4. \A i \in 1..Len(<<"request_decision">>) :
           <<"request_decision", "validate", "execute", "observe">>[i] = <<"request_decision">>[i]
    BY <1>2 DEF Skipped
  <1>5. \A i \in 1..Len(Skipped) :
           <<"request_decision", "validate", "execute", "observe">>[Len(<<"request_decision">>) + i] = Skipped[i]
    BY <1>2 DEF Skipped
  <1> QED  BY <1>1, <1>3, <1>4, <1>5, Joined

LEMMA RecordRequestSkipped ==
    Asked \o <<"request_decision", "validate", "execute", "observe">> = Observed
  <1>1. /\ Asked \in Seq(Stages)
        /\ <<"request_decision", "validate", "execute", "observe">> \in Seq(Stages)
        /\ Observed \in Seq(Stages)
    BY DEF Asked, Observed, Stages
  <1>2. /\ Len(Asked) = 1
        /\ Len(<<"request_decision", "validate", "execute", "observe">>) = 4
        /\ Len(Observed) = 5
    BY DEF Asked, Observed
  <1>3. /\ Len(Observed) = Len(Asked) + Len(<<"request_decision", "validate", "execute", "observe">>)
    BY <1>2
  <1>4. \A i \in 1..Len(Asked) : Observed[i] = Asked[i]
    BY <1>2 DEF Asked, Observed
  <1>5. \A i \in 1..Len(<<"request_decision", "validate", "execute", "observe">>) :
           Observed[Len(Asked) + i] = <<"request_decision", "validate", "execute", "observe">>[i]
    BY <1>2 DEF Asked, Observed
  <1> QED  BY <1>1, <1>3, <1>4, <1>5, Joined

LEMMA RecordAnswer == Asked \o <<"request_decision">> = Answered
  <1>1. /\ Asked \in Seq(Stages)
        /\ <<"request_decision">> \in Seq(Stages)
        /\ Answered \in Seq(Stages)
    BY DEF Asked, Answered, Stages
  <1>2. Len(Asked) = 1 /\ Len(<<"request_decision">>) = 1 /\ Len(Answered) = 2
    BY DEF Asked, Answered
  <1>3. Len(Answered) = Len(Asked) + Len(<<"request_decision">>)
    BY <1>2
  <1>4. \A i \in 1..Len(Asked) : Answered[i] = Asked[i]
    BY <1>2 DEF Asked, Answered
  <1>5. \A i \in 1..Len(<<"request_decision">>) :
           Answered[Len(Asked) + i] = <<"request_decision">>[i]
    BY <1>2 DEF Asked, Answered
  <1> QED  BY <1>1, <1>3, <1>4, <1>5, Joined

LEMMA RecordValidate == Answered \o <<"validate">> = Vetted
  <1>1. /\ Answered \in Seq(Stages)
        /\ <<"validate">> \in Seq(Stages)
        /\ Vetted \in Seq(Stages)
    BY DEF Answered, Vetted, Stages
  <1>2. Len(Answered) = 2 /\ Len(<<"validate">>) = 1 /\ Len(Vetted) = 3
    BY DEF Answered, Vetted
  <1>3. Len(Vetted) = Len(Answered) + Len(<<"validate">>)
    BY <1>2
  <1>4. \A i \in 1..Len(Answered) : Vetted[i] = Answered[i]
    BY <1>2 DEF Answered, Vetted
  <1>5. \A i \in 1..Len(<<"validate">>) :
           Vetted[Len(Answered) + i] = <<"validate">>[i]
    BY <1>2 DEF Answered, Vetted
  <1> QED  BY <1>1, <1>3, <1>4, <1>5, Joined

LEMMA RecordExecute == Vetted \o <<"execute", "observe">> = Observed
  <1>1. /\ Vetted \in Seq(Stages)
        /\ <<"execute", "observe">> \in Seq(Stages)
        /\ Observed \in Seq(Stages)
    BY DEF Vetted, Observed, Stages
  <1>2. Len(Vetted) = 3 /\ Len(<<"execute", "observe">>) = 2 /\ Len(Observed) = 5
    BY DEF Vetted, Observed
  <1>3. Len(Observed) = Len(Vetted) + Len(<<"execute", "observe">>)
    BY <1>2
  <1>4. \A i \in 1..Len(Vetted) : Observed[i] = Vetted[i]
    BY <1>2 DEF Vetted, Observed
  <1>5. \A i \in 1..Len(<<"execute", "observe">>) :
           Observed[Len(Vetted) + i] = <<"execute", "observe">>[i]
    BY <1>2 DEF Vetted, Observed
  <1> QED  BY <1>1, <1>3, <1>4, <1>5, Joined

LEMMA RecordCheckpoint ==
    Observed \o <<"reduce", "checkpoint", "terminate">> = PIPELINE_ORDER
  <1>1. /\ Observed \in Seq(Stages)
        /\ <<"reduce", "checkpoint", "terminate">> \in Seq(Stages)
        /\ PIPELINE_ORDER \in Seq(Stages)
    BY DEF Observed, PIPELINE_ORDER, Stages
  <1>2. /\ Len(Observed) = 5
        /\ Len(<<"reduce", "checkpoint", "terminate">>) = 3
        /\ Len(PIPELINE_ORDER) = 8
    BY DEF Observed, PIPELINE_ORDER
  <1>3. /\ Len(PIPELINE_ORDER) = Len(Observed) + Len(<<"reduce", "checkpoint", "terminate">>)
    BY <1>2
  <1>4. \A i \in 1..Len(Observed) : PIPELINE_ORDER[i] = Observed[i]
    BY <1>2 DEF Observed, PIPELINE_ORDER
  <1>5. \A i \in 1..Len(<<"reduce", "checkpoint", "terminate">>) :
           PIPELINE_ORDER[Len(Observed) + i] = <<"reduce", "checkpoint", "terminate">>[i]
    BY <1>2 DEF Observed, PIPELINE_ORDER
  <1> QED  BY <1>1, <1>3, <1>4, <1>5, Joined

LEMMA AppendAnswer == Append(Asked, "request_decision") = Answered
  <1>1. Asked \in Seq(Stages) /\ "request_decision" \in Stages
    BY DEF Asked, Stages
  <1>2. Append(Asked, "request_decision") = Asked \o <<"request_decision">>
    BY <1>1, AppendIsConcat
  <1> QED  BY <1>2, RecordAnswer

LEMMA RecordNothing == <<>> \o Skipped = Skipped
  <1>1. Skipped \in Seq(Stages)
    BY DEF Skipped, Stages
  <1> QED  BY <1>1, ConcatEmptySeq

LEMMA PrefixesOfOrder ==
    /\ IsPrefix(<<>>, PIPELINE_ORDER) /\ Len(<<>>) = 0
    /\ IsPrefix(Asked, PIPELINE_ORDER)
    /\ IsPrefix(Answered, PIPELINE_ORDER)
    /\ IsPrefix(Vetted, PIPELINE_ORDER)
    /\ IsPrefix(Observed, PIPELINE_ORDER) /\ Len(Observed) = 5
    /\ IsPrefix(PIPELINE_ORDER, PIPELINE_ORDER)
  <1>1. IsPrefix(<<>>, PIPELINE_ORDER) /\ Len(<<>>) = 0
    BY DEF IsPrefix, PIPELINE_ORDER
  <1>2. IsPrefix(Asked, PIPELINE_ORDER)
    BY DEF IsPrefix, PIPELINE_ORDER, Asked
  <1>3. IsPrefix(Answered, PIPELINE_ORDER)
    BY DEF IsPrefix, PIPELINE_ORDER, Answered
  <1>4. IsPrefix(Vetted, PIPELINE_ORDER)
    BY DEF IsPrefix, PIPELINE_ORDER, Vetted
  <1>5. IsPrefix(Observed, PIPELINE_ORDER) /\ Len(Observed) = 5
    BY DEF IsPrefix, PIPELINE_ORDER, Observed
  <1>6. IsPrefix(PIPELINE_ORDER, PIPELINE_ORDER)
    BY DEF IsPrefix, PIPELINE_ORDER
  <1> QED  BY <1>1, <1>2, <1>3, <1>4, <1>5, <1>6

-------------------------------------------------------------------------------
(***************************************************************************)
(* Every step preserves the invariant                                      *)
(***************************************************************************)

\* A step that ends before its tool is executed: it has recorded five stages,
\* it has no call, and if it completes the run its decision was validated.
LEMMA EndsWithoutCall ==
    ASSUME LoopInv, pc \in {"step", "post", "decided"},
           NEW verdict \in Outcome, NEW reason \in Reason, Finish(verdict, reason),
           verdict = "complete" => decision'.cites \subseteq Trusted,
           journal' = Observed,
           request' = request, decision' \in Decision \cup {NoDecision},
           UNCHANGED <<ctx, call, threads, answer, retrieved, given>>
    PROVE  LoopInv'
  <1>1. pc' = "reduce" /\ outcome' = [status |-> verdict, reason |-> reason]
    BY DEF Finish
  <1>2. outcome'.status = verdict
    BY <1>1
  <1>3. LoopTypeOK'
    BY <1>1 DEF LoopInv, LoopTypeOK, Places
  <1>4. JournalShape'
    BY <1>1 DEF JournalShape
  <1>5. call = NoCall
    BY DEF LoopInv, CallShape
  <1>6. call.started = 0
    BY <1>5 DEF NoCall
  <1>7. CallShape'
    BY <1>1, <1>6 DEF LoopInv, CallShape
  <1>8. EvidenceShape'
    BY <1>1, <1>2 DEF LoopInv, EvidenceShape, Trusted
  <1> QED
    BY <1>3, <1>4, <1>7, <1>8 DEF LoopInv, AnswerOfItsAttempt, CitesOnlyRetrieved

\* A step that ends with the result of its tool execution.
LEMMA EndsWithResult ==
    ASSUME LoopInv, pc \in {"attempt", "wait"},
           NEW r \in Result,
           r.maker # <<>> => r.maker = <<ctx.steps, call.attempts>>,
           Return(r), UNCHANGED <<modelVars, ctx, threads, answer, retrieved, given>>
    PROVE  LoopInv'
  <1>1. /\ pc' = "reduce" /\ outcome' = [status |-> "continue", reason |-> "none"]
        /\ call' = [call EXCEPT !.result = r]
        /\ journal' = Observed
    BY RecordExecute DEF Return, Finish, Record, LoopInv, JournalShape
  <1>2. outcome'.status = "continue"
    BY <1>1
  <1>3. /\ call' \in [attempts : Nat, started : Nat, result : Result]
        /\ call'.attempts = call.attempts /\ call'.started = call.started
        /\ call'.result = r
    BY <1>1 DEF LoopInv, LoopTypeOK
  <1>4. LoopTypeOK'
    BY <1>1, <1>3 DEF LoopInv, LoopTypeOK, Places, Outcome, Reason, modelVars
  <1>5. JournalShape'
    BY <1>1 DEF JournalShape
  <1>6. CallShape'
    BY <1>1, <1>2, <1>3 DEF LoopInv, CallShape
  <1>7. EvidenceShape'
    BY <1>1, <1>2 DEF LoopInv, EvidenceShape, Trusted
  <1>8. AnswerOfItsAttempt'
    BY <1>3 DEF AnswerOfItsAttempt
  <1> QED
    BY <1>4, <1>5, <1>6, <1>7, <1>8 DEF LoopInv, CitesOnlyRetrieved

\* A step begins with its prompt and asks the model, or ends at a gate.
LEMMA BeginStepKeeps ==
    ASSUME LoopInv, BeginStep
    PROVE  LoopInv'
  <1>1. CASE Gate = "none"
    <2>1. /\ pc' = "post" /\ journal' = Asked /\ request' = [NoRequest EXCEPT !.post = 1]
          /\ UNCHANGED <<outcome, ctx, decision, call, threads, answer, retrieved, given>>
      BY <1>1 DEF BeginStep, Asked
    <2>2. /\ request' \in [repair : BOOLEAN, post : Nat, second : BOOLEAN]
          /\ ~request'.second
      BY <2>1 DEF NoRequest
    <2>3. LoopTypeOK'
      BY <2>1, <2>2 DEF LoopInv, LoopTypeOK, Places
    <2>4. JournalShape'
      BY <2>1, <2>2 DEF JournalShape
    <2>5. pc = "step"
      BY DEF BeginStep
    <2>6. CallShape' /\ EvidenceShape' /\ AnswerOfItsAttempt' /\ CitesOnlyRetrieved'
      BY <2>1, <2>5 DEF LoopInv, CallShape, EvidenceShape, Trusted, AnswerOfItsAttempt,
                        CitesOnlyRetrieved
    <2> QED  BY <2>3, <2>4, <2>6 DEF LoopInv
  <1>2. CASE Gate # "none"
    <2>1. /\ pc = "step" /\ journal' = Observed /\ Finish("fail", Gate)
          /\ request' = request /\ decision' = decision
          /\ UNCHANGED <<ctx, call, threads, answer, retrieved, given>>
      BY <1>2, RecordSkipped DEF BeginStep, Answered
    <2>2. Gate \in Reason /\ "fail" \in Outcome
      BY DEF Gate, Reason, Exhausted, Outcome
    <2>3. decision \in Decision \cup {NoDecision}
      BY DEF LoopInv, LoopTypeOK
    <2> QED  BY <2>1, <2>2, <2>3, EndsWithoutCall
  <1> QED  BY <1>1, <1>2

LEMMA BuildFailsKeeps ==
    ASSUME LoopInv, BuildFails
    PROVE  LoopInv'
  BY DEF BuildFails, modelVars, LoopInv, LoopTypeOK, JournalShape, CallShape,
         EvidenceShape, Trusted, AnswerOfItsAttempt, CitesOnlyRetrieved, Places

LEMMA PostKeeps ==
    ASSUME LoopInv, PostAgain \/ Repair
    PROVE  LoopInv'
  <1>1. /\ request' \in [repair : BOOLEAN, post : Nat, second : BOOLEAN]
        /\ request'.second = request.second
    <2>1. request \in [repair : BOOLEAN, post : Nat, second : BOOLEAN]
      BY DEF LoopInv, LoopTypeOK
    <2>2. CASE request' = [request EXCEPT !.post = @ + 1]
      BY <2>1, <2>2
    <2>3. CASE request' = [request EXCEPT !.repair = TRUE, !.post = 1]
      <3>1. TRUE \in BOOLEAN /\ 1 \in Nat
        OBVIOUS
      <3> QED  BY <2>1, <2>3, <3>1
    <2> QED  BY <2>2, <2>3 DEF PostAgain, Repair
  <1>2. UNCHANGED <<ctx, pc, decision, outcome, call, threads, journal, answer, retrieved, given>>
    BY DEF PostAgain, Repair
  <1> QED
    BY <1>1, <1>2 DEF LoopInv, LoopTypeOK, JournalShape, CallShape, EvidenceShape, Trusted,
                      AnswerOfItsAttempt, CitesOnlyRetrieved

LEMMA ModelFailsKeeps ==
    ASSUME LoopInv, ModelFails
    PROVE  LoopInv'
  <1>1. /\ pc = "post" /\ request' = request /\ decision' = decision
        /\ UNCHANGED <<ctx, call, threads, answer, retrieved, given>>
    BY DEF ModelFails, modelVars
  <1>2. "fail" \in Outcome /\ decision \in Decision \cup {NoDecision}
    BY DEF Outcome, LoopInv, LoopTypeOK
  <1>3. journal' = Observed
    BY <1>1, RecordSkipped, RecordRequest, RecordRequestSkipped
       DEF ModelFails, Record, LoopInv, JournalShape
  <1>4. PICK reason \in Reason : Finish("fail", reason)
    BY DEF ModelFails, Audited, Reason
  <1> QED  BY <1>1, <1>2, <1>3, <1>4, EndsWithoutCall

\* What the model decided is a decision, rebound or not.
LEMMA BindIsDecision ==
    ASSUME NEW d \in Proposals
    PROVE  Bind(d) \in Decision /\ d \in Decision
  <1>1. d \in Decision
    BY LoopAssumption
  <1> QED  BY <1>1 DEF Bind, Decision, Arguments

LEMMA ModelDecidesKeeps ==
    ASSUME LoopInv, ModelDecides
    PROVE  LoopInv'
  <1>1. /\ pc = "post" /\ request' = request
        /\ UNCHANGED <<ctx, call, threads, answer, retrieved, given>>
    BY DEF ModelDecides
  <1>2. decision' \in Decision
    BY BindIsDecision DEF ModelDecides
  <1>3. journal = IF request.second THEN Answered ELSE Asked
    BY <1>1 DEF LoopInv, JournalShape
  <1>4. CASE pc' = "decided" /\ UNCHANGED outcome
               /\ journal' = (IF request.second THEN journal
                              ELSE Append(journal, "request_decision"))
    <2>1. journal' = Answered
      BY <1>3, <1>4, AppendAnswer
    <2>2. LoopTypeOK'
      BY <1>1, <1>2, <1>4 DEF LoopInv, LoopTypeOK, Places
    <2>3. JournalShape'
      BY <1>4, <2>1 DEF JournalShape
    <2> QED
      BY <1>1, <1>4, <2>2, <2>3 DEF LoopInv, CallShape, EvidenceShape, Trusted,
         AnswerOfItsAttempt, CitesOnlyRetrieved
  <1>5. CASE /\ Finish("fail", "model_audit_failed")
             /\ Record((IF request.second THEN <<>> ELSE <<"request_decision">>)
                       \o Skipped)
    <2>1. journal' = Observed
      BY <1>3, <1>5, RecordSkipped, RecordRequest, RecordRequestSkipped, RecordNothing
         DEF Record
    <2>2. "fail" \in Outcome /\ "model_audit_failed" \in Reason
      BY DEF Outcome, Reason
    <2> QED  BY <1>1, <1>2, <1>5, <2>1, <2>2, EndsWithoutCall
  <1> QED  BY <1>4, <1>5 DEF ModelDecides

LEMMA InterruptedKeeps ==
    ASSUME LoopInv, Interrupted
    PROVE  LoopInv'
  <1>1. /\ pc = "decided" /\ request' = request /\ decision' = decision
        /\ Finish("fail", "cancelled")
        /\ UNCHANGED <<ctx, call, threads, answer, retrieved, given>>
    BY DEF Interrupted, modelVars
  <1>2. journal' = Observed
    BY RecordSkipped DEF Interrupted, Record, LoopInv, JournalShape
  <1>3. /\ "fail" \in Outcome /\ "cancelled" \in Reason
        /\ decision \in Decision \cup {NoDecision}
    BY DEF Outcome, Reason, LoopInv, LoopTypeOK
  <1> QED  BY <1>1, <1>2, <1>3, EndsWithoutCall

LEMMA ChooseToolKeeps ==
    ASSUME LoopInv, ChooseTool
    PROVE  LoopInv'
  <1>1. /\ pc = "decided" /\ request' = request /\ decision' = decision
        /\ UNCHANGED <<ctx, call, threads, answer, retrieved, given>>
    BY DEF ChooseTool, Going, modelVars
  <1>2. /\ journal = Answered
        /\ {"fail", "wait_human"} \subseteq Outcome
        /\ {"decision_rejected", "readonly_write_tool_forbidden"} \subseteq Reason
        /\ decision \in Decision \cup {NoDecision}
    BY <1>1 DEF LoopInv, JournalShape, LoopTypeOK, Outcome, Reason
  <1>3. CASE Finish("fail", "decision_rejected") /\ Record(Skipped)
    <2>1. journal' = Observed
      BY <1>2, <1>3, RecordSkipped DEF Record
    <2> QED  BY <1>1, <1>2, <1>3, <2>1, EndsWithoutCall
  <1>4. CASE Finish("wait_human", "readonly_write_tool_forbidden") /\ Record(Skipped)
    <2>1. journal' = Observed
      BY <1>2, <1>4, RecordSkipped DEF Record
    <2> QED  BY <1>1, <1>2, <1>4, <2>1, EndsWithoutCall
  <1>5. CASE pc' = "attempt" /\ Record(<<"validate">>) /\ UNCHANGED outcome
    <2>1. journal' = Vetted
      BY <1>2, <1>5, RecordValidate DEF Record
    <2>2. LoopTypeOK'
      BY <1>1, <1>5 DEF LoopInv, LoopTypeOK, Places
    <2>3. JournalShape'
      BY <1>5, <2>1 DEF JournalShape
    <2> QED
      BY <1>1, <1>5, <2>2, <2>3 DEF LoopInv, CallShape, EvidenceShape, Trusted,
         AnswerOfItsAttempt, CitesOnlyRetrieved
  <1> QED  BY <1>3, <1>4, <1>5 DEF ChooseTool

LEMMA AskAgainKeeps ==
    ASSUME LoopInv, AskAgain
    PROVE  LoopInv'
  BY DEF AskAgain, Going, LoopInv, LoopTypeOK, JournalShape, CallShape, EvidenceShape, Trusted,
         AnswerOfItsAttempt, CitesOnlyRetrieved, Places

\* Only a decision that passed the validator, evidence included, completes the
\* run: the first answer and the second are held to the same test.
LEMMA ConcludeKeeps ==
    ASSUME LoopInv, Conclude
    PROVE  LoopInv'
  <1>1. /\ pc = "decided" /\ request' = request /\ decision' = decision
        /\ UNCHANGED <<ctx, call, threads, answer, retrieved, given>>
    BY DEF Conclude, Going, modelVars
  <1>2. journal' = Observed
    BY <1>1, RecordSkipped DEF Conclude, Record, LoopInv, JournalShape
  <1>3. decision \in Decision \cup {NoDecision}
    BY DEF LoopInv, LoopTypeOK
  <1>4. CASE ValidEnd(decision)
    <2>1. Refusal(decision) = "none"
      BY <1>4 DEF ValidEnd
    <2>2. decision.cites \subseteq Trusted
      BY <2>1 DEF Refusal
    <2>3. Verdict(decision.type) \in Outcome /\ "none" \in Reason
      BY DEF Verdict, Outcome, Reason
    <2>4. Finish(Verdict(decision.type), "none")
      BY <1>4 DEF Conclude
    <2> QED  BY <1>1, <1>2, <1>3, <2>2, <2>3, <2>4, EndsWithoutCall
  <1>5. CASE ~ValidEnd(decision)
    <2>1. "fail" \in Outcome /\ "decision_rejected" \in Reason
      BY DEF Outcome, Reason
    <2>2. Finish("fail", "decision_rejected")
      BY <1>5 DEF Conclude
    <2> QED  BY <1>1, <1>2, <1>3, <2>1, <2>2, EndsWithoutCall
  <1> QED  BY <1>4, <1>5

\* An error of the executor is nobody's answer.
LEMMA ErrorIsResult ==
    ASSUME NEW code \in Code
    PROVE  /\ Error(code) \in Result /\ Error(code).maker = <<>>
           /\ TimedOut \in Result /\ TimedOut.maker = <<>>
           /\ NoResult \in Result /\ NoResult.maker = <<>>
  <1>1. Error(code) \in Result /\ Error(code).maker = <<>>
    BY DEF Error, Result
  <1>2. "UPSTREAM_TIMEOUT" \in Code /\ "none" \in Code
    BY DEF Code
  <1>3. TimedOut \in Result /\ TimedOut.maker = <<>>
    BY <1>2 DEF TimedOut, Error, Result
  <1>4. NoResult \in Result /\ NoResult.maker = <<>>
    BY <1>2 DEF NoResult, Result
  <1> QED  BY <1>1, <1>3, <1>4

LEMMA DenyKeeps ==
    ASSUME LoopInv, Deny
    PROVE  LoopInv'
  <1>1. pc = "attempt" /\ UNCHANGED <<modelVars, ctx, threads, answer, retrieved, given>>
    BY DEF Deny
  <1>2. PICK code \in Code : Return(Error(code))
    <2>1. Denied(decision) \in Code /\ "UPSTREAM_TIMEOUT" \in Code
      BY DEF Denied, Code
    <2> QED  BY <2>1 DEF Deny
  <1>3. Error(code) \in Result /\ Error(code).maker = <<>>
    BY ErrorIsResult
  <1> QED  BY <1>1, <1>2, <1>3, EndsWithResult

\* A new attempt forgets the answer of the one before it.
LEMMA AttemptKeeps ==
    ASSUME LoopInv, Attempt
    PROVE  LoopInv'
  <1>1. NoResult \in Result /\ NoResult.maker = <<>> /\ "none" \in Code
    BY ErrorIsResult DEF Code
  <1> QED
    BY <1>1 DEF Attempt, modelVars, LoopInv, LoopTypeOK, JournalShape, CallShape,
       EvidenceShape, Trusted, AnswerOfItsAttempt, CitesOnlyRetrieved, Places

LEMMA NoTimeLeftKeeps ==
    ASSUME LoopInv, NoTimeLeft
    PROVE  LoopInv'
  <1>1. TimedOut \in Result /\ TimedOut.maker = <<>>
    <2>1. "none" \in Code
      BY DEF Code
    <2> QED  BY <2>1, ErrorIsResult
  <1>2. /\ pc' = "wait" /\ pc = "attempt"
        /\ call' = [call EXCEPT !.attempts = @ + 1, !.result = TimedOut]
        /\ UNCHANGED <<request, decision, ctx, outcome, threads, journal, answer,
                       retrieved, given>>
    BY DEF NoTimeLeft, modelVars
  <1>3. /\ call' \in [attempts : Nat, started : Nat, result : Result]
        /\ call'.attempts = call.attempts + 1 /\ call'.started = call.started
        /\ call'.result = TimedOut
    <2>1. /\ call \in [attempts : Nat, started : Nat, result : Result]
          /\ call.attempts + 1 \in Nat
      BY DEF LoopInv, LoopTypeOK
    <2>2. call' = [call EXCEPT !.attempts = call.attempts + 1, !.result = TimedOut]
      BY <1>2, <2>1
    <2> HIDE DEF TimedOut
    <2> QED  BY <1>1, <2>1, <2>2
  <1>4. LoopTypeOK'
    BY <1>2, <1>3 DEF LoopInv, LoopTypeOK, Places
  <1>5. CallShape'
    BY <1>2, <1>3 DEF LoopInv, CallShape, LoopTypeOK
  <1>6. AnswerOfItsAttempt'
    BY <1>1, <1>3 DEF AnswerOfItsAttempt
  <1> QED
    BY <1>2, <1>4, <1>5, <1>6 DEF LoopInv, JournalShape, EvidenceShape, Trusted,
       CitesOnlyRetrieved

LEMMA ExecutorRaisesKeeps ==
    ASSUME LoopInv, ExecutorRaises
    PROVE  LoopInv'
  <1>1. journal' = Observed
    BY RecordExecute DEF ExecutorRaises, Record, LoopInv, JournalShape
  <1> QED
    BY <1>1 DEF ExecutorRaises, Finish, modelVars, LoopInv, LoopTypeOK,
       JournalShape, CallShape, EvidenceShape, Trusted, AnswerOfItsAttempt, CitesOnlyRetrieved,
       Places, Outcome, Reason

LEMMA AwaitAnswerKeeps ==
    ASSUME LoopInv, AwaitAnswer
    PROVE  LoopInv'
  <1>1. pc = "wait" /\ UNCHANGED <<modelVars, ctx, threads, answer, retrieved, given>>
    BY DEF AwaitAnswer
  <1>2. PICK r \in Result : /\ r.maker # <<>> => r.maker = <<ctx.steps, call.attempts>>
                            /\ Collect(r)
    <2>1. CASE Collect(call.result)
      BY <2>1 DEF LoopInv, LoopTypeOK, AnswerOfItsAttempt
    <2>2. CASE Collect(TimedOut)
      <3>1. "none" \in Code
        BY DEF Code
      <3> QED  BY <2>2, <3>1, ErrorIsResult
    <2> QED  BY <2>1, <2>2 DEF AwaitAnswer
  <1>3. CASE pc' = "attempt" /\ UNCHANGED <<outcome, journal, call>>
    BY <1>1, <1>3 DEF LoopInv, LoopTypeOK, Places, JournalShape, CallShape, modelVars,
       EvidenceShape, Trusted, AnswerOfItsAttempt, CitesOnlyRetrieved
  <1>4. CASE Return(r)
    BY <1>1, <1>2, <1>4, EndsWithResult
  <1> QED  BY <1>2, <1>3, <1>4 DEF Collect

\* A run is answered only when its step completed: the other outcomes have other
\* targets, and a step that goes on leaves the run in running_readonly.
LEMMA CompletedTarget ==
    ASSUME LoopInv, pc = "reduce"
    PROVE  /\ Target \in RunStatus
           /\ Target = "completed" => outcome.status = "complete"
  <1>1. ctx.status = "running_readonly" /\ outcome.status \in Outcome
    BY DEF LoopInv, EvidenceShape, Trusted, LoopTypeOK
  <1> QED  BY <1>1 DEF Target, RunStatus, Outcome

LEMMA ReducedTyped ==
    ASSUME LoopInv, pc = "reduce"
    PROVE  /\ Reduced \in [status : RunStatus, version : Nat, steps : Nat,
                           tools : SUBSET (Tools \cup {"none"}), evidence : SUBSET Evidence,
                           reason : Reason]
           /\ Reduced.status = Target
  <1>1. Target \in RunStatus /\ outcome.reason \in Reason
    BY CompletedTarget DEF LoopInv, LoopTypeOK
  <1>2. ctx.version + 1 \in Nat /\ ctx.steps + 1 \in Nat
    BY DEF LoopInv, LoopTypeOK
  <1>3. (IF Succeeded /\ decision.tool = "knowledge" THEN call.result.data
         ELSE ctx.evidence) \in SUBSET Evidence
    BY DEF LoopInv, LoopTypeOK, Result
  <1>4. (IF Succeeded THEN ctx.tools \cup {decision.tool} ELSE ctx.tools)
          \in SUBSET (Tools \cup {"none"})
    <2>1. ctx.tools \in SUBSET (Tools \cup {"none"})
      BY DEF LoopInv, LoopTypeOK
    <2>2. decision.tool \in Tools \cup {"none"}
      BY DEF LoopInv, LoopTypeOK, Decision, NoDecision
    <2> QED  BY <2>1, <2>2
  <1> QED  BY <1>1, <1>2, <1>3, <1>4 DEF Reduced

\* The locals of a step go with it.
LEMMA ForgetEffect ==
    ASSUME Forget
    PROVE  /\ request' \in [repair : BOOLEAN, post : Nat, second : BOOLEAN]
           /\ decision' \in Decision \cup {NoDecision}
           /\ outcome' \in [status : Outcome, reason : Reason]
           /\ call' \in [attempts : Nat, started : Nat, result : Result]
           /\ call' = NoCall /\ call'.started = 0 /\ call'.attempts = 0
           /\ call'.result.maker = <<>>
  <1>1. NoResult \in Result /\ NoResult.maker = <<>>
    <2>1. "none" \in Code
      BY DEF Code
    <2> QED  BY <2>1, ErrorIsResult
  <1>2. /\ call' = NoCall /\ call'.started = 0 /\ call'.attempts = 0
        /\ call'.result = NoResult
    BY DEF Forget, NoCall
  <1>3. call' \in [attempts : Nat, started : Nat, result : Result]
    BY <1>1 DEF Forget, NoCall
  <1> QED
    BY <1>1, <1>2, <1>3 DEF Forget, NoRequest, NoOutcome, Outcome, Reason

LEMMA CheckpointKeeps ==
    ASSUME LoopInv, Checkpoint
    PROVE  LoopInv'
  <1>1. /\ pc = "reduce" /\ ctx' = Reduced /\ Forget
        /\ retrieved' = retrieved \cup Reduced.evidence
        /\ answer' = (IF Target = "completed" THEN decision.cites ELSE answer)
        /\ pc' = (IF Target # "running_readonly" THEN "done"
                  ELSE IF Signature # NoDecision /\ Signature = previous THEN "stuck"
                  ELSE "step")
        /\ UNCHANGED <<threads, given>>
    BY DEF Checkpoint
  <1>2. journal' = PIPELINE_ORDER
    BY <1>1, RecordCheckpoint DEF Checkpoint, LoopInv, JournalShape
  <1>3. /\ pc' \in {"step", "stuck", "done"}
        /\ pc' # "done" => Target = "running_readonly"
    BY <1>1
  <1>4. Reduced.evidence \in SUBSET Evidence /\ Reduced.status = Target
    BY <1>1, ReducedTyped
  <1>5. LoopTypeOK'
    BY <1>1, <1>3, <1>4, ReducedTyped, ForgetEffect DEF LoopInv, LoopTypeOK, Places
  <1>6. JournalShape'
    BY <1>2, <1>3 DEF JournalShape
  <1>7. CallShape' /\ AnswerOfItsAttempt'
    BY <1>1, <1>3, ForgetEffect DEF CallShape, AnswerOfItsAttempt
  <1>8. EvidenceShape'
    BY <1>1, <1>3, <1>4 DEF LoopInv, EvidenceShape, Trusted
  <1>9. CitesOnlyRetrieved'
    <2>1. CASE Target = "completed"
      <3>1. decision.cites \subseteq Trusted /\ Trusted \subseteq retrieved
        BY <1>1, <2>1, CompletedTarget DEF LoopInv, EvidenceShape
      <3> QED  BY <1>1, <2>1, <3>1 DEF CitesOnlyRetrieved
    <2>2. CASE Target # "completed"
      BY <1>1, <2>2 DEF LoopInv, CitesOnlyRetrieved
    <2> QED  BY <2>1, <2>2
  <1> QED  BY <1>5, <1>6, <1>7, <1>8, <1>9 DEF LoopInv

LEMMA FramesGone ==
    ASSUME LoopInv, CheckpointFails \/ ModelRaises
    PROVE  LoopInv'
  <1>1. /\ pc' = "raised" /\ journal' = PIPELINE_ORDER /\ Forget
        /\ UNCHANGED <<ctx, threads, answer, retrieved, given>>
    BY DEF CheckpointFails, ModelRaises
  <1>2. LoopTypeOK'
    BY <1>1, ForgetEffect DEF LoopInv, LoopTypeOK, Places
  <1>3. CallShape' /\ AnswerOfItsAttempt'
    BY <1>1, ForgetEffect DEF CallShape, AnswerOfItsAttempt
  <1> QED
    BY <1>1, <1>2, <1>3 DEF LoopInv, JournalShape, EvidenceShape, Trusted, CitesOnlyRetrieved

LEMMA HandOffKeeps ==
    ASSUME LoopInv, HandOff
    PROVE  LoopInv'
  <1>1. /\ pc = "stuck" /\ pc' = "done"
        /\ ctx' = [ctx EXCEPT !.status = "waiting_human", !.version = @ + 1,
                              !.steps = @ + 1, !.reason = "readonly_loop_no_progress"]
        /\ UNCHANGED <<request, decision, outcome, call, threads, journal, answer,
                       retrieved, given>>
    BY DEF HandOff, modelVars
  <1>2. "waiting_human" \in RunStatus /\ "readonly_loop_no_progress" \in Reason
    BY DEF RunStatus, Reason
  <1>3. /\ ctx' \in [status : RunStatus, version : Nat, steps : Nat,
                     tools : SUBSET (Tools \cup {"none"}), evidence : SUBSET Evidence,
                     reason : Reason]
        /\ ctx'.evidence = ctx.evidence
    <2>1. /\ ctx \in [status : RunStatus, version : Nat, steps : Nat,
                      tools : SUBSET (Tools \cup {"none"}), evidence : SUBSET Evidence,
                      reason : Reason]
          /\ ctx.version + 1 \in Nat /\ ctx.steps + 1 \in Nat
      BY DEF LoopInv, LoopTypeOK
    <2>2. ctx' = [ctx EXCEPT !.status = "waiting_human", !.version = ctx.version + 1,
                     !.steps = ctx.steps + 1, !.reason = "readonly_loop_no_progress"]
      BY <1>1, <2>1
    <2> QED  BY <1>2, <2>1, <2>2
  <1>4. LoopTypeOK'
    BY <1>1, <1>3 DEF LoopInv, LoopTypeOK, Places
  <1>5. call = NoCall /\ call.result.maker = <<>>
    BY <1>1 DEF LoopInv, CallShape, NoCall, NoResult
  <1> QED
    BY <1>1, <1>3, <1>4, <1>5 DEF LoopInv, JournalShape, CallShape, EvidenceShape, Trusted,
       AnswerOfItsAttempt, CitesOnlyRetrieved

\* A thread's answer is taken only by the attempt it was started for.
LEMMA ThreadReturnsKeeps ==
    ASSUME LoopInv, NEW t \in threads, ThreadReturns(t)
    PROVE  LoopInv'
  <1>1. /\ threads' = threads \ {t} /\ t \in Nat \X Nat
        /\ UNCHANGED <<request, decision, ctx, pc, outcome, journal, answer, retrieved, given>>
    BY DEF ThreadReturns, modelVars, LoopInv, LoopTypeOK
  <1>2. CASE pc = "wait" /\ t = <<ctx.steps, call.attempts>> /\ call.result = NoResult
    <2>1. PICK r \in Answers(t) : call' = [call EXCEPT !.result = r]
      BY <1>2 DEF ThreadReturns
    <2>2. /\ r \in [code : {"ok", "RESOURCE_NOT_FOUND", "INTERNAL_ERROR"},
                    data : Citable(decision.tool), retryable : BOOLEAN, maker : {t}]
      BY <2>1 DEF Answers
    <2>3. Citable(decision.tool) \subseteq SUBSET Evidence
      BY DEF Citable
    <2>4. r \in Result /\ r.maker = t
      BY <1>1, <2>2, <2>3 DEF Result, Code
    <2>5. /\ call' \in [attempts : Nat, started : Nat, result : Result]
          /\ call'.attempts = call.attempts /\ call'.started = call.started
          /\ call'.result = r
      BY <2>1, <2>4 DEF LoopInv, LoopTypeOK
    <2>6. LoopTypeOK'
      BY <1>1, <2>5 DEF LoopInv, LoopTypeOK
    <2>7. CallShape'
      BY <1>1, <1>2, <2>5 DEF LoopInv, CallShape
    <2>8. AnswerOfItsAttempt'
      BY <1>1, <1>2, <2>4, <2>5 DEF AnswerOfItsAttempt
    <2> QED
      BY <1>1, <2>6, <2>7, <2>8 DEF LoopInv, JournalShape, EvidenceShape, Trusted,
         CitesOnlyRetrieved
  <1>3. CASE UNCHANGED call
    BY <1>1, <1>3 DEF LoopInv, LoopTypeOK, JournalShape, CallShape, EvidenceShape, Trusted,
       AnswerOfItsAttempt, CitesOnlyRetrieved
  <1> QED  BY <1>2, <1>3 DEF ThreadReturns

LEMMA EnvironmentKeeps ==
    ASSUME LoopInv, CancelRun \/ Signal \/ Elapse \/ UNCHANGED vars
    PROVE  LoopInv'
  <1>1. UNCHANGED <<ctx, pc, request, decision, outcome, call, threads, journal, answer,
                    retrieved, given>>
    BY DEF CancelRun, Signal, Elapse, vars, modelVars
  <1> QED
    BY <1>1 DEF LoopInv, LoopTypeOK, JournalShape, CallShape, EvidenceShape, Trusted,
       AnswerOfItsAttempt, CitesOnlyRetrieved

LEMMA InitLoop == Init => LoopInv
  <1> SUFFICES ASSUME Init
               PROVE  LoopInv
    OBVIOUS
  <1>1. NoResult \in Result /\ NoResult.maker = <<>>
    <2>1. "none" \in Code
      BY DEF Code
    <2> QED  BY <2>1, ErrorIsResult
  <1>2. /\ call = NoCall /\ call \in [attempts : Nat, started : Nat, result : Result]
        /\ call.started = 0 /\ call.attempts = 0 /\ call.result = NoResult
    BY <1>1 DEF Init, NoCall
  <1>3. PICK start \in Start :
           /\ ctx = [status |-> "running_readonly", version |-> 1,
                     steps |-> start.steps, tools |-> start.tools,
                     evidence |-> start.evidence, reason |-> "none"]
           /\ given = start.evidence /\ retrieved = start.evidence
    BY LoopAssumption DEF Init
  <1>4. LoopTypeOK
    <2>1. /\ start.steps \in Nat /\ start.tools \in SUBSET (Tools \cup {"none"})
          /\ start.evidence \in SUBSET Evidence
      BY LoopAssumption DEF Start
    <2>2. /\ ctx \in [status : RunStatus, version : Nat, steps : Nat,
                      tools : SUBSET (Tools \cup {"none"}), evidence : SUBSET Evidence,
                      reason : Reason]
          /\ retrieved \in SUBSET Evidence /\ given \in SUBSET Evidence
      BY <1>3, <2>1 DEF RunStatus, Reason
    <2> QED
      BY <1>2, <2>2 DEF Init, LoopTypeOK, Places, NoRequest, NoOutcome, Outcome, Reason
  <1>5. ctx.status = "running_readonly" /\ Trusted \subseteq retrieved
    BY <1>3 DEF Trusted
  <1> QED
    BY <1>1, <1>2, <1>4, <1>5 DEF Init, LoopInv, JournalShape, CallShape, EvidenceShape, Trusted,
       AnswerOfItsAttempt, CitesOnlyRetrieved

LEMMA StepLoop ==
    ASSUME LoopInv, [Next]_vars
    PROVE  LoopInv'
  <1>1. ASSUME AskModel PROVE LoopInv'
    BY <1>1, BeginStepKeeps, BuildFailsKeeps, PostKeeps, ModelFailsKeeps,
       FramesGone, ModelDecidesKeeps DEF AskModel
  <1>2. ASSUME Validate PROVE LoopInv'
    BY <1>2, InterruptedKeeps, ChooseToolKeeps, AskAgainKeeps, ConcludeKeeps
       DEF Validate
  <1>3. ASSUME ExecuteTool PROVE LoopInv'
    BY <1>3, DenyKeeps, AttemptKeeps, NoTimeLeftKeeps, ExecutorRaisesKeeps,
       AwaitAnswerKeeps DEF ExecuteTool
  <1>4. ASSUME Commit PROVE LoopInv'
    BY <1>4, CheckpointKeeps, FramesGone, HandOffKeeps DEF Commit
  <1> QED
    BY <1>1, <1>2, <1>3, <1>4, ThreadReturnsKeeps, EnvironmentKeeps DEF Next, Loop

-------------------------------------------------------------------------------
(***************************************************************************)
(* Theorems                                                                *)
(***************************************************************************)

\* The invariant the others rest on: at every place of a step the journal, the
\* call and the evidence are what the path to that place has made them.
THEOREM LoopInvariant == Spec => []LoopInv
  <1>1. LoopInv /\ [Next]_vars => LoopInv'
    BY StepLoop
  <1> QED  BY InitLoop, <1>1, PTL DEF Spec

\* Every path of a step records the stages in the order PipelineJournal demands,
\* with any proposals, failures and timeouts.
THEOREM JournalIsInOrder == Spec => []JournalInOrder
  <1>1. LoopInv => JournalInOrder
    <2> SUFFICES ASSUME LoopInv
                 PROVE  JournalInOrder
      OBVIOUS
    <2>1. pc \in Places
      BY DEF LoopInv, LoopTypeOK
    <2>2. journal \in {<<>>, Asked, Answered, Vetted, Observed, PIPELINE_ORDER}
      BY <2>1 DEF LoopInv, JournalShape, Places
    <2>3. IsPrefix(journal, PIPELINE_ORDER)
      BY <2>2, PrefixesOfOrder
    <2>4. pc = "reduce" => Len(journal) = 5
      BY PrefixesOfOrder DEF LoopInv, JournalShape
    <2>5. pc \in {"step", "done"} => Len(journal) \in {0, Len(PIPELINE_ORDER)}
      BY PrefixesOfOrder DEF LoopInv, JournalShape
    <2> QED  BY <2>3, <2>4, <2>5 DEF JournalInOrder
  <1> QED  BY LoopInvariant, <1>1, PTL

\* The answer that ends a run cites only evidence a checkpointed observation of
\* this run has held, whatever the model proposes, twice if need be.
THEOREM AnswersCiteRetrieved == Spec => []CitesOnlyRetrieved
  <1>1. LoopInv => CitesOnlyRetrieved
    BY DEF LoopInv
  <1> QED  BY LoopInvariant, <1>1, PTL

\* A thread of an attempt that was given up answers no other attempt and no
\* other step, however late it comes back and however many are under way.
THEOREM LateAnswersAreDropped == Spec => []AnswerOfItsAttempt
  <1>1. LoopInv => AnswerOfItsAttempt
    BY DEF LoopInv
  <1> QED  BY LoopInvariant, <1>1, PTL

\* A checkpoint of a step in which an adapter was started says so in its events,
\* or fails the run because the executor raised.
LEMMA PublishedStep ==
    ASSUME LoopInv, [Next]_vars, ctx'.steps # ctx.steps, pc = "reduce", call.started > 0
    PROVE  \/ "tool_called" \in events'
           \/ status' = "failed" /\ ctx'.reason = "tool_execution_failed"
  <1>1. Checkpoint
    <2>1. ctx' # ctx
      OBVIOUS
    <2>2. ~UNCHANGED vars /\ ~AskModel /\ ~Validate /\ ~ExecuteTool
      BY <2>1 DEF vars, AskModel, BeginStep, BuildFails, PostAgain, Repair, ModelFails,
         ModelRaises, ModelDecides, Validate, Interrupted, ChooseTool, AskAgain, Conclude,
         ExecuteTool, Deny, Attempt, NoTimeLeft, ExecutorRaises, AwaitAnswer
    <2>3. ~CancelRun /\ ~Signal /\ ~Elapse /\ ~\E t \in threads : ThreadReturns(t)
      BY <2>1 DEF CancelRun, Signal, Elapse, ThreadReturns
    <2>4. ~CheckpointFails /\ ~HandOff
      BY <2>1 DEF CheckpointFails, HandOff
    <2> QED  BY <2>2, <2>3, <2>4 DEF Next, Loop, Commit
  <1>2. call.attempts > 0
    BY DEF LoopInv, CallShape, LoopTypeOK
  <1>3. CASE outcome.status = "continue"
    BY <1>1, <1>2, <1>3 DEF Checkpoint, EventsFor, Executed
  <1>4. CASE outcome.status = "fail" /\ outcome.reason = "tool_execution_failed"
    <2>1. Target = "failed"
      BY <1>4 DEF Target, Exhausted
    <2> QED  BY <1>1, <1>4, <2>1 DEF Checkpoint, Reduced
  <1> QED  BY <1>3, <1>4 DEF LoopInv, CallShape

\* A call that reached an adapter is published with the step that made it,
\* whether it answered, failed or timed out, unless the executor raised at a
\* later attempt: the run then fails with that step, and its reason says so.
THEOREM StartedCallsArePublished == Spec => CallsArePublished
  <1>1. LoopInv /\ [Next]_vars =>
          [ctx'.steps # ctx.steps /\ pc = "reduce" /\ call.started > 0
             => \/ "tool_called" \in events'
                \/ status' = "failed" /\ ctx'.reason = "tool_execution_failed"]_vars
    BY PublishedStep
  <1> QED  BY LoopInvariant, <1>1, PTL DEF Spec, CallsArePublished

-------------------------------------------------------------------------------
(***************************************************************************)
(* The loop behind the executor                                            *)
(***************************************************************************)

\* The row is at the version the loop knows, or a handler of the API has cancelled
\* the run on top of that.
RowShape ==
    \/ version = ctx.version
    \/ version = ctx.version + 1 /\ status = "cancelled"

\* Past its gate a step is within the step budget; only a stop that says so, or
\* the caller's signal, ends a step that is not.
BudgetShape ==
    /\ pc \in {"post", "decided", "attempt", "wait"} => ctx.steps < MaxSteps
    /\ pc = "reduce" /\ outcome.reason \notin Exhausted \cup {"cancelled"} =>
           ctx.steps < MaxSteps

\* A step continues only with a tool call; it stops with a reason, and a decision
\* that ends the run has none.
EndShape ==
    /\ pc \in {"attempt", "wait"} => decision.type = "call_tool"
    /\ pc = "reduce" =>
           \/ /\ outcome.status = "continue" /\ outcome.reason = "none"
              /\ decision.type = "call_tool"
           \/ outcome.status \in {"wait_user", "complete"} /\ outcome.reason = "none"
           \/ /\ outcome.status = "wait_human"
              /\ outcome.reason \in {"none", "readonly_write_tool_forbidden"}
           \/ outcome.status = "fail" /\ outcome.reason # "none"
    /\ pc = "reduce" /\ outcome.reason = "cancelled" => signal

ExitInv == RowShape /\ BudgetShape /\ EndShape

\* A step that ends within its budget, without having executed a tool.
LEMMA EndsWithVerdict ==
    ASSUME ExitInv, NEW verdict, NEW reason, Finish(verdict, reason),
           reason \notin Exhausted \cup {"cancelled"} => ctx.steps < MaxSteps,
           \/ verdict \in {"wait_user", "complete"} /\ reason = "none"
           \/ verdict = "wait_human" /\ reason \in {"none", "readonly_write_tool_forbidden"}
           \/ verdict = "fail" /\ reason # "none",
           reason = "cancelled" => signal,
           UNCHANGED <<status, version, ctx, signal>>
    PROVE  ExitInv'
  <1>1. /\ pc' = "reduce" /\ outcome'.status = verdict /\ outcome'.reason = reason
    BY DEF Finish
  <1> QED  BY <1>1 DEF ExitInv, RowShape, BudgetShape, EndShape

LEMMA AskModelExits ==
    ASSUME LoopInv, ExitInv, AskModel
    PROVE  ExitInv'
  <1>1. ASSUME BeginStep PROVE ExitInv'
    <2>1. CASE Gate = "none"
      BY <1>1, <2>1, LoopAssumption DEF BeginStep, Gate, rowVars, ExitInv, RowShape,
         BudgetShape, EndShape, LoopInv, LoopTypeOK
    <2>2. CASE Gate # "none"
      <3>1. Finish("fail", Gate) /\ UNCHANGED <<status, version, ctx, signal>>
        BY <1>1, <2>2 DEF BeginStep, rowVars
      <3>2. Gate \in Exhausted \cup {"cancelled"} /\ (Gate = "cancelled" => signal)
        BY <2>2 DEF Gate, Exhausted
      <3> QED  BY <2>2, <3>1, <3>2, EndsWithVerdict
    <2> QED  BY <2>1, <2>2
  <1>2. ASSUME BuildFails \/ PostAgain \/ Repair PROVE ExitInv'
    BY <1>2 DEF BuildFails, PostAgain, Repair, rowVars, modelVars, ExitInv, RowShape,
       BudgetShape, EndShape
  <1>3. ASSUME ModelFails PROVE ExitInv'
    <2>1. /\ UNCHANGED <<status, version, ctx, signal>> /\ ctx.steps < MaxSteps
          /\ \E reason \in {"decision_rejected", "model_unavailable",
                             "model_audit_failed"} : Finish("fail", reason)
      BY <1>3 DEF ModelFails, Audited, rowVars, ExitInv, BudgetShape
    <2> QED  BY <2>1, EndsWithVerdict
  <1>4. ASSUME ModelDecides PROVE ExitInv'
    <2>1. UNCHANGED <<status, version, ctx, signal>> /\ ctx.steps < MaxSteps
      BY <1>4 DEF ModelDecides, rowVars, ExitInv, BudgetShape
    <2>2. CASE pc' = "decided"
      BY <2>1, <2>2 DEF ExitInv, RowShape, BudgetShape, EndShape
    <2>3. CASE Finish("fail", "model_audit_failed")
      BY <2>1, <2>3, EndsWithVerdict
    <2> QED  BY <1>4, <2>2, <2>3 DEF ModelDecides
  <1>5. ASSUME ModelRaises PROVE ExitInv'
    BY <1>5 DEF ModelRaises, rowVars, ExitInv, RowShape, BudgetShape, EndShape
  <1> QED  BY <1>1, <1>2, <1>3, <1>4, <1>5 DEF AskModel

LEMMA ValidateExits ==
    ASSUME LoopInv, ExitInv, Validate
    PROVE  ExitInv'
  <1>1. /\ pc = "decided" /\ ctx.steps < MaxSteps
        /\ UNCHANGED <<status, version, ctx, signal>>
    BY DEF Validate, Interrupted, ChooseTool, AskAgain, Conclude, Going, rowVars, ExitInv,
       BudgetShape
  <1>2. ASSUME Interrupted PROVE ExitInv'
    BY <1>1, <1>2, EndsWithVerdict DEF Interrupted
  <1>3. ASSUME ChooseTool PROVE ExitInv'
    <2>1. CASE Finish("fail", "decision_rejected")
      BY <1>1, <2>1, EndsWithVerdict
    <2>2. CASE Finish("wait_human", "readonly_write_tool_forbidden")
      BY <1>1, <2>2, EndsWithVerdict
    <2>3. CASE pc' = "attempt"
      BY <1>1, <1>3, <2>3 DEF ChooseTool, modelVars, ExitInv, RowShape, BudgetShape,
         EndShape
    <2> QED  BY <1>3, <2>1, <2>2, <2>3 DEF ChooseTool
  <1>4. ASSUME AskAgain PROVE ExitInv'
    BY <1>1, <1>4 DEF AskAgain, ExitInv, RowShape, BudgetShape, EndShape
  <1>5. ASSUME Conclude PROVE ExitInv'
    <2>1. CASE Finish("fail", "decision_rejected")
      BY <1>1, <2>1, EndsWithVerdict
    <2>2. CASE Finish(Verdict(decision.type), "none")
      <3>1. Verdict(decision.type) \in {"wait_user", "wait_human", "complete"}
        BY DEF Verdict
      <3> QED  BY <1>1, <2>2, <3>1, EndsWithVerdict
    <2> QED  BY <1>5, <2>1, <2>2 DEF Conclude
  <1> QED  BY <1>2, <1>3, <1>4, <1>5 DEF Validate

LEMMA ExecuteToolExits ==
    ASSUME LoopInv, ExitInv, ExecuteTool
    PROVE  ExitInv'
  <1>1. /\ pc \in {"attempt", "wait"} /\ ctx.steps < MaxSteps
        /\ decision.type = "call_tool"
        /\ UNCHANGED <<status, version, ctx, decision, signal>>
    BY DEF ExecuteTool, Deny, Attempt, NoTimeLeft, ExecutorRaises, AwaitAnswer, rowVars,
       modelVars, ExitInv, BudgetShape, EndShape
  <1>2. CASE pc' \in {"attempt", "wait"}
    BY <1>1, <1>2 DEF ExitInv, RowShape, BudgetShape, EndShape
  <1>3. CASE Finish("continue", "none")
    <2>1. pc' = "reduce" /\ outcome'.status = "continue" /\ outcome'.reason = "none"
      BY <1>3 DEF Finish
    <2> QED  BY <1>1, <2>1 DEF ExitInv, RowShape, BudgetShape, EndShape
  <1>4. CASE Finish("fail", "tool_execution_failed")
    BY <1>1, <1>4, EndsWithVerdict
  <1> QED
    BY <1>2, <1>3, <1>4 DEF ExecuteTool, Deny, Attempt, NoTimeLeft, ExecutorRaises,
       AwaitAnswer, Collect, Return

LEMMA CommitExits ==
    ASSUME LoopInv, ExitInv, Commit
    PROVE  ExitInv'
  <1>1. ASSUME Checkpoint PROVE ExitInv'
    <2>1. /\ pc' \in {"done", "stuck", "step"}
          /\ version' = ctx'.version /\ status' = ctx'.status
      BY <1>1 DEF Checkpoint, Fresh, Reduced
    <2> QED  BY <2>1 DEF ExitInv, RowShape, BudgetShape, EndShape
  <1>2. ASSUME CheckpointFails PROVE ExitInv'
    BY <1>2 DEF CheckpointFails, rowVars, ExitInv, RowShape, BudgetShape, EndShape
  <1>3. ASSUME HandOff PROVE ExitInv'
    <2>1. /\ pc' = "done" /\ version' = ctx'.version /\ status' = ctx'.status
      BY <1>3 DEF HandOff, Fresh, LoopInv, LoopTypeOK
    <2> QED  BY <2>1 DEF ExitInv, RowShape, BudgetShape, EndShape
  <1> QED  BY <1>1, <1>2, <1>3 DEF Commit

\* The API cancels only a run whose row waits for the user: that row is at the loop's
\* version, for on top of it the row would be cancelled already.
LEMMA StepExits ==
    ASSUME LoopInv, ExitInv, [Next]_vars
    PROVE  ExitInv'
  <1>1. ASSUME CancelRun PROVE ExitInv'
    BY <1>1 DEF CancelRun, modelVars, ExitInv, RowShape, BudgetShape, EndShape
  <1>2. ASSUME NEW t \in threads, ThreadReturns(t) PROVE ExitInv'
    BY <1>2 DEF ThreadReturns, rowVars, modelVars, ExitInv, RowShape, BudgetShape, EndShape
  <1>3. ASSUME Signal \/ Elapse \/ UNCHANGED vars PROVE ExitInv'
    BY <1>3 DEF Signal, Elapse, vars, rowVars, modelVars, ExitInv, RowShape, BudgetShape,
       EndShape
  <1> QED
    BY <1>1, <1>2, <1>3, AskModelExits, ValidateExits, ExecuteToolExits, CommitExits
       DEF Next, Loop

\* Two jobs with the same fields are the same job.
LEMMA SameJob ==
    ASSUME NEW Points, NEW Contexts, NEW s, NEW t,
           s \in [run : {Run}, text : {"none"}, at : Points, ctx : Contexts],
           t \in [run : {Run}, text : {"none"}, at : Points, ctx : Contexts],
           s.at = t.at, s.ctx = t.ctx
    PROVE  s = t
  OBVIOUS

\* A checkpoint of the loop is RunControl's checkpoint: the version compares, the row
\* and the newest checkpoint are the next context, and the job moves with it.
LEMMA CheckpointIs ==
    ASSUME NEW next, NEW reason, NEW after,
           version = ctx.version, version' = version + 1, status' = next,
           LoopContext' = [status |-> next, version |-> ctx.version + 1,
                           steps |-> ctx.steps + 1, flow |-> "readonly",
                           reason |-> reason],
           Point' = after, version' = ctx'.version,
           pc # "raised", pc' # "raised"
    PROVE  Executor!CheckpointAt(Point, next, reason, after)
  <1>1. LoopContext.version = ctx.version /\ LoopContext.steps = ctx.steps /\ LoopContext.flow = "readonly"
    BY DEF LoopContext
  <1>2. Executor!Advanced(LoopContext, next, reason) = LoopContext'
    BY <1>1 DEF Executor!Advanced
  <1>3. Executor!Committable(Run, LoopContext, next)
    BY <1>1 DEF Executor!Committable, Executor!Fresh, Executor!Admissible, Executor!Runs
  <1>4. Stored' = LoopContext' /\ LoopContext'.status = next
    <2>1. /\ version' = ctx.version + 1 /\ ctx'.steps = ctx.steps + 1
          /\ LoopContext'.reason = reason
      BY DEF LoopContext
    <2>2. Stored' = [status |-> next, version |-> ctx.version + 1,
                     steps |-> ctx.steps + 1, flow |-> "readonly", reason |-> reason]
      BY <2>1 DEF Stored
    <2> QED  BY <2>2
  <1>5. Executor!CommitStep(Run, LoopContext')
    BY <1>4 DEF Executor!CommitStep
  <1>6. Executor!Checkpoint(next, reason, after)
    <2> DEFINE job == [run |-> Run, text |-> "none", at |-> Point, ctx |-> LoopContext]
    <2>1. job.run = Run /\ job.ctx = LoopContext
      OBVIOUS
    <2>2. job' = [job EXCEPT !.ctx = LoopContext', !.at = after]
      <3> DEFINE Jobs == [run : {Run}, text : {"none"}, at : {Point, after},
                          ctx : {LoopContext, LoopContext'}]
                 next_job == [job EXCEPT !.ctx = LoopContext', !.at = after]
      <3>1. job \in Jobs
        OBVIOUS
      <3>2. job' \in Jobs /\ job'.at = after /\ job'.ctx = LoopContext'
        OBVIOUS
      <3>3. next_job \in Jobs /\ next_job.at = after /\ next_job.ctx = LoopContext'
        <4> HIDE DEF job
        <4> QED  BY <3>1
      <3>4. job' = next_job
        <4> HIDE DEF job, next_job
        <4> QED  BY <3>2, <3>3, SameJob
      <3> QED  BY <3>4
    <2>3. Executor!Advanced(job.ctx, next, reason) = LoopContext'
      BY <1>2, <2>1
    <2>4. Executor!Committable(job.run, job.ctx, next) /\ Executor!CommitStep(job.run, LoopContext')
      BY <1>3, <1>5, <2>1
    <2> QED
      BY <2>2, <2>3, <2>4 DEF Executor!Checkpoint
  <1>7. Executor!At(Point)
    BY DEF Executor!At
  <1> QED BY <1>6, <1>7 DEF Executor!CheckpointAt, Executor!sideVars, Executor!requestVars

\* Everything that is said of a step that reaches its checkpoint.
LEMMA CheckpointEffect ==
    ASSUME LoopInv, ExitInv, Checkpoint
    PROVE  /\ pc = "reduce" /\ ctx.status = "running_readonly"
           /\ version = ctx.version /\ version' = version + 1 /\ version' = ctx'.version
           /\ status' = Target /\ ctx'.status = Target /\ ctx'.reason = outcome.reason
           /\ LoopContext' = [status |-> Target, version |-> ctx.version + 1,
                              steps |-> ctx.steps + 1, flow |-> "readonly",
                              reason |-> IF outcome.reason = "none" THEN "none" ELSE "stop"]
           /\ Point \in {"loop", "again"} /\ (Point = "loop" <=> previous = NoDecision)
           /\ pc' \in {"step", "stuck", "done"}
  <1>1. /\ pc = "reduce" /\ ctx.status = "running_readonly"
        /\ version = ctx.version /\ version' = version + 1 /\ status' = Target
        /\ ctx' = Reduced /\ pc' \in {"step", "stuck", "done"}
    BY DEF Checkpoint, Fresh, LoopInv, EvidenceShape
  <1>2. /\ ctx'.status = Target /\ ctx'.version = ctx.version + 1
        /\ ctx'.steps = ctx.steps + 1 /\ ctx'.reason = outcome.reason
    BY <1>1 DEF Reduced
  <1>3. Point = IF previous = NoDecision THEN "loop" ELSE "again"
    BY <1>1 DEF Point
  <1> QED  BY <1>1, <1>2, <1>3 DEF LoopContext

\* A step that continues is a turn that is followed by another, or by the stop of
\* a loop without progress.
LEMMA ContinuesAsTurn ==
    ASSUME LoopInv, ExitInv, Checkpoint, outcome.status = "continue"
    PROVE  Turn
  <1>1. outcome.reason = "none" /\ decision.type = "call_tool" /\ ctx.steps < MaxSteps
    BY CheckpointEffect DEF ExitInv, EndShape, BudgetShape, Exhausted
  <1>2. Target = "running_readonly"
    BY <1>1, CheckpointEffect DEF Target
  <1>3. Signature.type = "call_tool" /\ NoDecision.type = "none"
    BY <1>1 DEF Signature, Executed, NoDecision
  <1>4. previous' # NoDecision /\ previous' = Signature
    BY <1>3 DEF Checkpoint
  <1>5. LoopContext' = [status |-> "running_readonly", version |-> ctx.version + 1,
                        steps |-> ctx.steps + 1, flow |-> "readonly", reason |-> "none"]
    BY <1>1, <1>2, CheckpointEffect
  <1>6. Executor!WithinBudget
    BY <1>1 DEF Executor!WithinBudget, LoopContext
  <1>7. CASE pc' = "stuck"
    <2>1. Point = "again"
      BY <1>2, <1>3, <1>7, CheckpointEffect DEF Checkpoint
    <2>2. Point' = "no_progress"
      BY <1>7 DEF Point
    <2>3. Executor!CheckpointAt(Point, "running_readonly", "none", "no_progress")
      BY <1>2, <1>5, <1>7, <2>2, CheckpointEffect, CheckpointIs
    <2> QED  BY <1>6, <2>1, <2>3 DEF Turn, Executor!LoopRepeats
  <1>8. CASE pc' = "step"
    <2>1. Point' = "again"
      BY <1>4, <1>8 DEF Point
    <2>2. Executor!CheckpointAt(Point, "running_readonly", "none", "again")
      BY <1>2, <1>5, <1>8, <2>1, CheckpointEffect, CheckpointIs
    <2>3. Point \in Executor!LoopPoint
      BY CheckpointEffect DEF Executor!LoopPoint
    <2> QED  BY <1>6, <2>2, <2>3 DEF Turn, Executor!LoopContinues
  <1> QED  BY <1>2, <1>7, <1>8 DEF Checkpoint

\* The model's decision ends the loop without a reason.
LEMMA DecidesAsTurn ==
    ASSUME LoopInv, ExitInv, Checkpoint, outcome.status # "continue",
           outcome.reason = "none"
    PROVE  Turn
  <1>1. /\ outcome.status \in {"wait_user", "complete", "wait_human"}
        /\ ctx.steps < MaxSteps
    BY CheckpointEffect DEF ExitInv, EndShape, BudgetShape, Exhausted
  <1>2. Target \in {"waiting_user", "waiting_human", "completed"}
    BY <1>1 DEF Target
  <1>3. pc' = "done" /\ ctx'.reason = "none" /\ status' = Target /\ ctx'.status = Target
    BY <1>2, CheckpointEffect DEF Checkpoint
  <1>4. Point' = IF Target = "completed" THEN "publish" ELSE "prompt"
    BY <1>3 DEF Point
  <1>5. LoopContext' = [status |-> Target, version |-> ctx.version + 1,
                        steps |-> ctx.steps + 1, flow |-> "readonly", reason |-> "none"]
    BY CheckpointEffect
  <1>6. Executor!CheckpointAt(Point, Target, "none", Point')
    BY <1>3, <1>5, CheckpointEffect, CheckpointIs
  <1>7. Executor!WithinBudget
    BY <1>1 DEF Executor!WithinBudget, LoopContext
  <1>8. Point \in Executor!LoopPoint
    BY CheckpointEffect DEF Executor!LoopPoint
  <1>9. Executor!LoopDecides(Point, status')
    BY <1>2, <1>3, <1>4, <1>6, <1>7, <1>8 DEF Executor!LoopDecides
  <1> QED  BY <1>9 DEF Turn

\* A stop is stored with its reason; outside the step budget it hands over.
LEMMA StopsAsTurn ==
    ASSUME LoopInv, ExitInv, Checkpoint, outcome.status # "continue",
           outcome.reason # "none", ~signal
    PROVE  Turn
  <1>1. /\ outcome.status \in {"fail", "wait_human"} /\ outcome.reason # "cancelled"
        /\ outcome.reason \notin Exhausted => ctx.steps < MaxSteps
        /\ outcome.status = "wait_human" => outcome.reason \notin Exhausted
    BY CheckpointEffect DEF ExitInv, EndShape, BudgetShape, Exhausted
  <1>2. \/ Target = "waiting_human"
        \/ Target = "failed" /\ ctx.steps < MaxSteps
    BY <1>1 DEF Target
  <1>3. pc' = "done" /\ ctx'.reason = outcome.reason /\ status' = Target
    BY <1>2, CheckpointEffect DEF Checkpoint
  <1>4. Point' = "reason"
    BY <1>3 DEF Point
  <1>5. LoopContext' = [status |-> Target, version |-> ctx.version + 1,
                        steps |-> ctx.steps + 1, flow |-> "readonly", reason |-> "stop"]
    BY CheckpointEffect
  <1>6. Executor!CheckpointAt(Point, Target, "stop", "reason")
    BY <1>3, <1>4, <1>5, CheckpointEffect, CheckpointIs
  <1>7. ctx.steps < MaxSteps => Executor!WithinBudget
    BY DEF Executor!WithinBudget, LoopContext
  <1>8. Point \in Executor!LoopPoint
    BY CheckpointEffect DEF Executor!LoopPoint
  <1>9. Executor!LoopStops(Point, status')
    BY <1>2, <1>3, <1>6, <1>7, <1>8 DEF Executor!LoopStops
  <1> QED  BY <1>9 DEF Turn

LEMMA HandOffAsTurn ==
    ASSUME LoopInv, ExitInv, HandOff
    PROVE  Turn
  <1>1. /\ pc = "stuck" /\ pc' = "done" /\ version = ctx.version
        /\ version' = version + 1 /\ status' = "waiting_human"
        /\ ctx' = [ctx EXCEPT !.status = "waiting_human", !.version = @ + 1,
                              !.steps = @ + 1, !.reason = "readonly_loop_no_progress"]
    BY DEF HandOff, Fresh
  <1>2. /\ ctx'.status = "waiting_human" /\ ctx'.version = ctx.version + 1
        /\ ctx'.steps = ctx.steps + 1 /\ ctx'.reason = "readonly_loop_no_progress"
    BY <1>1 DEF LoopInv, LoopTypeOK
  <1>3. LoopContext' = [status |-> "waiting_human", version |-> ctx.version + 1,
                        steps |-> ctx.steps + 1, flow |-> "readonly", reason |-> "stop"]
    BY <1>2 DEF LoopContext
  <1>4. Point = "no_progress" /\ Point' = "reason"
    BY <1>1, <1>2 DEF Point
  <1>5. Executor!CheckpointAt(Point, "waiting_human", "stop", "reason")
    BY <1>1, <1>2, <1>3, <1>4, CheckpointIs
  <1> QED  BY <1>4, <1>5 DEF Turn, Executor!NoProgress

\* A failure leaves the row as it is and the job in the executor's handler.
LEMMA RaisesAsWorker ==
    ASSUME LoopInv, ExitInv, BuildFails \/ ModelRaises \/ CheckpointFails
    PROVE  Executor!WorkerRaises
  <1> DEFINE job == [run |-> Run, text |-> "none", at |-> Point, ctx |-> LoopContext]
             failed_job == [job EXCEPT !.at = "failing"]
             Jobs == [run : {Run}, text : {"none"}, at : {Point, "failing"},
                      ctx : {LoopContext}]
  <1>1. /\ pc \in {"step", "post", "reduce", "stuck"} /\ pc' = "raised"
        /\ UNCHANGED <<status, version, ctx>>
    BY DEF BuildFails, ModelRaises, CheckpointFails, rowVars
  <1>2. /\ Point \in {"loop", "again", "no_progress"} /\ Point' = "failing"
    BY <1>1 DEF Point
  <1>3. LoopContext' = LoopContext /\ Stored' = Stored
    BY <1>1 DEF LoopContext, Stored
  <1>4. job \in Jobs /\ job.at = Point /\ job.ctx = LoopContext
    OBVIOUS
  <1>5. job' \in Jobs /\ job'.at = "failing" /\ job'.ctx = LoopContext
    BY <1>2, <1>3
  <1>6. failed_job \in Jobs /\ failed_job.at = "failing" /\ failed_job.ctx = LoopContext
    <2> HIDE DEF job
    <2> QED  BY <1>4
  <1>7. job' = failed_job
    <2> HIDE DEF job, failed_job
    <2> QED  BY <1>5, <1>6, SameJob
  <1>8. ~Executor!At("failing")
    BY <1>2 DEF Executor!At
  <1>9. UNCHANGED Executor!runVars
    BY <1>1, <1>3 DEF Executor!runVars
  <1> QED
    BY <1>1, <1>2, <1>4, <1>7, <1>8, <1>9 DEF Executor!WorkerRaises, Executor!sideVars,
       Executor!requestVars

LEMMA CancelAsWithdrawal ==
    ASSUME LoopInv, ExitInv, CancelRun
    PROVE  Withdrawn
  <1>1. /\ version = ctx.version /\ status' = "cancelled" /\ version' = version + 1
        /\ UNCHANGED <<ctx, pc, previous>> /\ version \in Nat
    BY DEF CancelRun, ExitInv, RowShape, LoopInv, LoopTypeOK
  <1>2. LoopContext' = LoopContext /\ Point' = Point
    BY <1>1 DEF LoopContext, Point
  <1>3. Stored' = Executor!Advanced(Stored, "cancelled", Stored.reason)
    <2>1. /\ Stored.version = version /\ Stored.steps = ctx.steps
          /\ Stored.flow = "readonly" /\ Stored.reason = LoopContext.reason
      BY <1>1 DEF Stored
    <2>2. Stored' = [status |-> "cancelled", version |-> version + 1,
                     steps |-> ctx.steps + 1, flow |-> "readonly",
                     reason |-> LoopContext.reason]
      BY <1>1, <1>2 DEF Stored
    <2> QED  BY <2>1, <2>2 DEF Executor!Advanced
  <1>4. Stored'.status = "cancelled"
    BY <1>3 DEF Executor!Advanced
  <1>5. Executor!CommitStep(Run, Stored')
    BY <1>1, <1>4 DEF Executor!CommitStep
  <1> QED  BY <1>1, <1>2, <1>3, <1>5 DEF Withdrawn

\* Between two checkpoints the executor sees nothing of the loop.
LEMMA QuietSteps ==
    ASSUME LoopInv, ExitInv,
           \/ BeginStep \/ PostAgain \/ Repair \/ ModelFails \/ ModelDecides
           \/ Validate \/ ExecuteTool \/ (\E t \in threads : ThreadReturns(t))
           \/ Signal \/ Elapse \/ UNCHANGED vars
    PROVE  UNCHANGED exitVars
  <1>1. /\ UNCHANGED <<status, version, ctx, previous>>
        /\ \/ pc' = pc
           \/ /\ pc \in {"step", "post", "decided", "attempt", "wait"}
              /\ pc' \in {"post", "decided", "attempt", "wait", "reduce"}
    BY DEF BeginStep, PostAgain, Repair, ModelFails, ModelDecides, Validate, Interrupted,
       ChooseTool, AskAgain, Conclude, Going, ExecuteTool, Deny, Attempt, NoTimeLeft,
       ExecutorRaises, AwaitAnswer, Collect, Return, ThreadReturns, Signal, Elapse, vars,
       rowVars, modelVars, Finish
  <1>2. Point' = Point
    BY <1>1 DEF Point
  <1> QED  BY <1>1, <1>2 DEF exitVars

LEMMA StepOfExecutor ==
    ASSUME LoopInv, ExitInv, [Next]_vars
    PROVE  [~signal => Turn \/ Executor!WorkerRaises \/ Withdrawn]_exitVars
  <1>1. ASSUME Checkpoint, ~signal PROVE Turn
    BY <1>1, ContinuesAsTurn, DecidesAsTurn, StopsAsTurn
  <1> QED
    BY <1>1, HandOffAsTurn, RaisesAsWorker, CancelAsWithdrawal, QuietSteps
       DEF Next, Loop, AskModel, Commit

\* The turns are steps of the worker that RunControl explores.
LEMMA TurnIsWorkerStep ==
    ASSUME Turn
    PROVE  Executor!WorkerStep
  <1>1. CASE Executor!LoopContinues(Point)
    BY <1>1 DEF Executor!LoopContinues, Executor!WorkerStep
  <1>2. CASE Executor!LoopDecides(Point, status')
    <2>1. Point \in Executor!LoopPoint /\ status' \in Executor!RunStatus
      BY <1>2 DEF Executor!LoopDecides, Executor!RunStatus, Executor!Terminal,
         Executor!Waiting
    <2> QED  BY <1>2, <2>1 DEF Executor!WorkerStep
  <1>3. CASE Executor!LoopStops(Point, status')
    <2>1. Point \in Executor!LoopPoint /\ status' \in Executor!RunStatus
      BY <1>3 DEF Executor!LoopStops, Executor!RunStatus, Executor!Terminal,
         Executor!Waiting
    <2> QED  BY <1>3, <2>1 DEF Executor!WorkerStep
  <1>4. CASE Executor!LoopRepeats \/ Executor!NoProgress
    BY <1>4 DEF Executor!WorkerStep
  <1> QED  BY <1>1, <1>2, <1>3, <1>4 DEF Turn

LEMMA InitExits == Init => ExitInv /\ Executor!At("loop")
  <1> SUFFICES ASSUME Init
               PROVE  ExitInv /\ Executor!At("loop")
    OBVIOUS
  <1>1. ExitInv
    BY DEF Init, ExitInv, RowShape, BudgetShape, EndShape
  <1>2. Point = "loop"
    BY DEF Init, Point
  <1> QED  BY <1>1, <1>2 DEF Executor!At

\* A readonly run is to RunControl's executor what its model of the loop says: every
\* step of AgentLoop that changes what the executor reads is one of the turns its
\* worker takes, an exception, or a cancellation by the API.
THEOREM LoopImplementsExecutor == Spec => LoopIsExecutor
  <1>1. LoopInv /\ ExitInv /\ [Next]_vars => ExitInv'
    BY StepExits
  <1>2. Spec => []ExitInv
    BY LoopInvariant, InitExits, <1>1, PTL DEF Spec
  <1>3. LoopInv /\ ExitInv /\ [Next]_vars
          => [~signal => Turn \/ Executor!WorkerRaises \/ Withdrawn]_exitVars
    BY StepOfExecutor
  <1> QED
    BY LoopInvariant, <1>2, <1>3, InitExits, PTL DEF Spec, LoopIsExecutor

===============================================================================
