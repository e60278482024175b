------------------------- MODULE MutationTokenProofs --------------------------
(***************************************************************************)
(* Types, the one chance a run has of being committed, and the reservation *)
(* behind every spent token, for any sets of runs, requests and keys and   *)
(* any number of crashes and failures.                                     *)
(***************************************************************************)
EXTENDS MutationCommit, TLAPS

-------------------------------------------------------------------------------
(***************************************************************************)
(* Types                                                                   *)
(***************************************************************************)

\* A request has a job from the moment it begins, and the completion it is to
\* record once the business system has answered.
JobKnown ==
    \A r \in Requests :
        /\ pc[r] = "idle" => job[r] = NoJob
        /\ pc[r] # "idle" => job[r] \in Job
        /\ pc[r] = "observe" => seen[r] \in {"succeeded", "failed", "unknown"}

TypeInv == TypeOK /\ JobKnown

\* The tables a run starts with are well typed.
LEMMA TypeInit == Init => TypeInv
BY LimitIsNat, CrashesIsNat
DEF Init, TypeInv, TypeOK, JobKnown, Context, NoContext, RunStatus, Tokens,
    TokenStatus

\* commit_step writes a run row and a checkpoint of the right types.
LEMMA CommitStepType ==
    ASSUME TypeOK, NEW run \in Runs, NEW context \in Context,
           NEW next \in RunStatus, CommitStep(run, context, next)
    PROVE  /\ status' \in [Runs -> RunStatus]
           /\ version' \in [Runs -> Nat]
           /\ checkpoint' \in [Runs -> Context]
BY DEF TypeOK, CommitStep, Context

\* The worker's steps touch no request.
LEMMA WorkType ==
    ASSUME TypeInv, NEW run \in Runs, Work(run)
    PROVE  TypeInv'
<1> USE DEF TypeInv
<1>1. CASE IssueToken(run)
  BY <1>1 DEF IssueToken, TypeOK, JobKnown, runVars, effectVars, requestVars,
              Tokens, TokenStatus
<1>2. CASE PrepareMutation(run)
  <2>1. NoContext \in Context /\ "waiting_confirmation" \in RunStatus
    BY DEF NoContext, Context, RunStatus
  <2>2. /\ status' \in [Runs -> RunStatus]
        /\ version' \in [Runs -> Nat]
        /\ checkpoint' \in [Runs -> Context]
    BY <1>2, <2>1, CommitStepType DEF PrepareMutation
  <2> QED
    BY <1>2, <2>2 DEF PrepareMutation, TypeOK, JobKnown, tokenVars, effectVars,
                      requestVars
<1>3. CASE PublishPrompt(run)
  BY <1>3 DEF PublishPrompt, TypeOK, JobKnown, runVars, tokenVars, effectVars,
              requestVars
<1>4. CASE WorkerRaises(run)
  BY <1>4 DEF WorkerRaises, TypeOK, JobKnown, runVars, tokenVars, effectVars,
              requestVars
<1>5. CASE MarkFailed(run)
  BY <1>5 DEF MarkFailed, BumpVersion, TypeOK, JobKnown, tokenVars, effectVars,
              requestVars, RunStatus, Terminal
<1>6. CASE PublishFailure(run)
  BY <1>6 DEF PublishFailure, Announce, TypeOK, JobKnown, runVars, tokenVars,
              effectVars, requestVars, Terminal
<1>7. CASE StampFailure(run)
  BY <1>7 DEF StampFailure, BumpVersion, TypeOK, JobKnown, tokenVars, effectVars,
              requestVars
<1> QED
  BY <1>1, <1>2, <1>3, <1>4, <1>5, <1>6, <1>7 DEF Work

\* So does a last checkpoint, which neither starts a request nor takes it
\* back to the outcome it has to record.
LEMMA LastCommitType ==
    ASSUME TypeInv, NEW r \in Requests, NEW next \in RunStatus,
           NEW step \in (Serving \cup Ended) \ {"observe"}, pc[r] # "idle",
           LastCommit(r, next, step)
    PROVE  /\ status' \in [Runs -> RunStatus]
           /\ version' \in [Runs -> Nat]
           /\ checkpoint' \in [Runs -> Context]
           /\ ctx' \in [Requests -> Context]
           /\ pc' \in [Requests -> {"idle"} \cup Serving \cup Ended]
           /\ \A q \in Requests : pc'[q] = "idle" <=> pc[q] = "idle"
           /\ \A q \in Requests : pc'[q] = "observe" => pc[q] = "observe"
<1>1. job[r].run \in Runs
  BY DEF TypeInv, JobKnown, Job
<1>2. ctx[r] \in Context
  BY DEF TypeInv, TypeOK
<1>3. CASE Fresh(r)
  <2>1. CommitStep(job[r].run, ctx[r], next)
    BY <1>3 DEF LastCommit
  <2>2. /\ status' \in [Runs -> RunStatus]
        /\ version' \in [Runs -> Nat]
        /\ checkpoint' \in [Runs -> Context]
    BY <2>1, <1>1, <1>2, CommitStepType DEF TypeInv
  <2>3. ctx' = [ctx EXCEPT ![r].status = next] /\ pc' = [pc EXCEPT ![r] = step]
    BY <1>3 DEF LastCommit, Goto
  <2>4. ctx' \in [Requests -> Context]
    BY <1>2, <2>3 DEF TypeInv, TypeOK, Context
  <2>5. /\ pc' \in [Requests -> {"idle"} \cup Serving \cup Ended]
        /\ \A q \in Requests : pc'[q] = "idle" <=> pc[q] = "idle"
        /\ \A q \in Requests : pc'[q] = "observe" => pc[q] = "observe"
    BY <2>3 DEF TypeInv, TypeOK, Serving, Ended
  <2> QED
    BY <2>2, <2>4, <2>5
<1>4. CASE ~Fresh(r)
  BY <1>4 DEF LastCommit, Goto, TypeInv, TypeOK, runVars, Ended, Serving
<1> QED
  BY <1>3, <1>4

\* One step of a request, whichever it is, keeps every variable in its type.
LEMMA AdvanceType ==
    ASSUME TypeInv, NEW r \in Requests, Advance(r)
    PROVE  TypeInv'
<1> USE DEF TypeInv
<1>0. job[r] \in Job \/ pc[r] = "idle"
  BY DEF JobKnown
<1>1. CASE LoadContext(r)
  BY <1>0, <1>1, SMTT(30) DEF LoadContext, Goto, AfterLoad, TypeOK, JobKnown, runVars,
      tokenVars, effectVars, Serving, Ended, Job, Kinds
<1>2. CASE LoadToken(r)
  BY <1>2 DEF LoadToken, Goto, TypeOK, JobKnown, runVars, tokenVars, effectVars,
      Serving, Ended
<1>3. CASE LookupKey(r)
  BY <1>3 DEF LookupKey, Reused, Goto, TypeOK, JobKnown, runVars, tokenVars,
      effectVars, Serving, Ended
<1>4. CASE ConsumeAndReserve(r)
  BY <1>4 DEF ConsumeAndReserve, Reused, Goto, TypeOK, JobKnown, runVars,
      Serving, Ended, TokenStatus, ExecutionStatus
<1>5. CASE StartCommit(r)
  <2>1. job[r].run \in Runs /\ ctx[r] \in Context /\ "committing" \in RunStatus
    BY <1>0, <1>5 DEF StartCommit, TypeOK, Job, RunStatus
  <2>2. CASE Fresh(r)
    <3>1. /\ status' \in [Runs -> RunStatus]
          /\ version' \in [Runs -> Nat]
          /\ checkpoint' \in [Runs -> Context]
      BY <1>5, <2>1, <2>2, CommitStepType DEF StartCommit
    <3> QED
      BY <1>5, <2>2, <3>1 DEF StartCommit, Goto, TypeOK, JobKnown, tokenVars,
          effectVars, Serving, Ended
  <2>3. CASE ~Fresh(r)
    BY <1>5, <2>3 DEF StartCommit, Goto, TypeOK, JobKnown, runVars, tokenVars,
        effectVars, Serving, Ended
  <2> QED
    BY <2>2, <2>3
<1>6. CASE RereadVersion(r)
  BY <1>0, <1>6 DEF RereadVersion, Goto, TypeOK, JobKnown, runVars, tokenVars,
      effectVars, Serving, Ended, Context, RunStatus, Job
<1>7. CASE Claim(r)
  BY <1>7 DEF Claim, Goto, TypeOK, JobKnown, runVars, tokenVars, Serving, Ended,
      ExecutionStatus
<1>8. CASE CallAdapter(r)
  <2>1. PICK answer \in Answers :
            /\ seen' = [seen EXCEPT ![r] = Completion(answer)]
            /\ applied' \in {applied, applied \cup {r}}
    BY <1>8 DEF CallAdapter
  <2>2. Completion(answer) \in {"succeeded", "failed", "unknown"}
    BY DEF Answers, Completion
  <2>3. seen' \in [Requests -> {"none", "succeeded", "failed", "unknown", "mismatch"}]
        /\ seen'[r] \in {"succeeded", "failed", "unknown"}
        /\ \A q \in Requests \ {r} : seen'[q] = seen[q]
    BY <2>1, <2>2 DEF TypeOK
  <2>4. applied' \subseteq Requests
    BY <2>1 DEF TypeOK
  <2>5. calls' \in [Requests -> Nat]
    BY <1>8 DEF CallAdapter, TypeOK
  <2>6. pc' = [pc EXCEPT ![r] = "observe"]
    BY <1>8 DEF CallAdapter, Goto
  <2>7. TypeOK'
    BY <1>8, <2>3, <2>4, <2>5, <2>6 DEF CallAdapter, TypeOK, runVars, tokenVars,
        Serving
  <2>8. JobKnown'
    BY <1>0, <1>8, <2>3, <2>6 DEF CallAdapter, TypeOK, JobKnown
  <2> QED
    BY <2>7, <2>8
<1>9. CASE ObserveCommit(r)
  <2>1. job[r].run \in Runs /\ ctx[r] \in Context
    BY <1>0, <1>9 DEF ObserveCommit, TypeOK, Job
  <2>2. CASE Fresh(r)
    <3>1. /\ status' \in [Runs -> RunStatus]
          /\ version' \in [Runs -> Nat]
          /\ checkpoint' \in [Runs -> Context]
      BY <1>9, <2>1, <2>2, CommitStepType DEF ObserveCommit, RunStatus, Terminal
    <3> QED
      BY <1>9, <2>2, <3>1 DEF ObserveCommit, Goto, TypeOK, JobKnown, tokenVars,
          Serving, Ended, ExecutionStatus
  <2>3. CASE ~Fresh(r)
    BY <1>9, <2>3 DEF ObserveCommit, Goto, TypeOK, JobKnown, runVars, tokenVars,
        Serving, Ended
  <2> QED
    BY <2>2, <2>3
<1>10. CASE Verdict(r)
  BY <1>0, <1>10 DEF Verdict, Goto, TypeOK, JobKnown, runVars, tokenVars,
      effectVars, Serving, Ended, Context, RunStatus, Job
<1>11. CASE Verify(r)
  BY <1>11 DEF Verify, Goto, TypeOK, JobKnown, runVars, tokenVars, effectVars,
      Serving, Ended
<1>12. CASE OpenTicket(r)
  BY <1>12 DEF OpenTicket, Goto, TypeOK, JobKnown, runVars, tokenVars, effectVars,
      Serving, Ended
<1>13. CASE Finish(r)
  <2>1. FinalStatus(r) \in RunStatus /\ "publish" \in Serving \ {"observe"}
        /\ pc[r] # "idle"
    BY <1>13 DEF Finish, FinalStatus, RunStatus, Terminal, Serving
  <2> QED
    BY <1>13, <2>1, LastCommitType DEF Finish, TypeOK, JobKnown, tokenVars,
        effectVars
<1>14. CASE RejectToken(r)
  BY <1>14 DEF RejectToken, Goto, TypeOK, JobKnown, runVars, effectVars, Serving,
      Ended, TokenStatus
<1>15. CASE InvalidateTokens(r)
  BY <1>15 DEF InvalidateTokens, Goto, TypeOK, JobKnown, runVars, effectVars,
      Serving, Ended, TokenStatus
<1>16. CASE Withdraw(r)
  <2>1. "cancelled" \in RunStatus /\ {"reason", "publish"} \subseteq Serving \ {"observe"}
        /\ pc[r] # "idle"
    BY <1>16 DEF Withdraw, RunStatus, Terminal, Serving
  <2> QED
    BY <1>16, <2>1, LastCommitType DEF Withdraw, TypeOK, JobKnown, tokenVars,
        effectVars
<1>17. CASE LoadNewest(r)
  BY <1>17 DEF LoadNewest, Goto, TypeOK, JobKnown, runVars, tokenVars, effectVars,
      Serving, Ended
<1>18. CASE Rotate(r)
  BY <1>18, SMTT(30) DEF Rotate, Goto, TypeOK, JobKnown, runVars, effectVars, Serving, Ended,
      Tokens, TokenStatus
<1>19. CASE Reissue(r)
  <2>1. "waiting_confirmation" \in RunStatus /\ "done" \in Ended \ {"observe"} /\ pc[r] # "idle"
    BY <1>19 DEF Reissue, RunStatus, Ended
  <2> QED
    BY <1>19, <2>1, LastCommitType, SMTT(30) DEF Reissue, TypeOK, JobKnown, effectVars
<1>20. CASE ResolveCheckpoint(r)
  <2>1. {"completed", "failed"} \subseteq RunStatus /\ "settle" \in Serving \ {"observe"}
        /\ pc[r] # "idle"
    BY <1>20 DEF ResolveCheckpoint, RunStatus, Terminal, Serving
  <2> QED
    BY <1>20, <2>1, LastCommitType, SMTT(30) DEF ResolveCheckpoint, TypeOK, JobKnown,
        tokenVars, effectVars
<1>21. CASE ResolveTicket(r)
  <2>1. ticket' \in [Requests -> {"absent", "open", "resolved"}]
    BY <1>21 DEF ResolveTicket, TypeOK
  <2>2. PICK step \in {"publish", "refused"} : pc' = [pc EXCEPT ![r] = step]
    BY <1>21 DEF ResolveTicket, Goto
  <2>3. UNCHANGED <<runVars, tokenVars, effectVars, reply, worker, job, ctx, seen,
                    crashes>> /\ pc[r] = "settle"
    BY <1>21, Zenon DEF ResolveTicket
  <2> QED
    BY <2>1, <2>2, <2>3 DEF TypeOK, JobKnown, runVars, tokenVars, effectVars,
        Serving, Ended
<1>22. CASE Publish(r)
  BY <1>22 DEF Publish, Announce, Goto, TypeOK, JobKnown, runVars, tokenVars,
      effectVars, Serving, Ended
<1>23. CASE SetReason(r)
  BY <1>0, <1>23 DEF SetReason, BumpVersion, Goto, TypeOK, JobKnown, tokenVars,
      effectVars, Serving, Ended, Job
<1> QED
  BY <1>1, <1>2, <1>3, <1>4, <1>5, <1>6, <1>7, <1>8, <1>9, <1>10, <1>11, <1>12,
     <1>13, <1>14, <1>15, <1>16, <1>17, <1>18, <1>19, <1>20, <1>21, <1>22, <1>23
  DEF Advance

\* A crash and the startup hook keep every variable in its type.
LEMMA CrashType == TypeInv /\ CrashRestart => TypeInv'
<1> SUFFICES ASSUME TypeInv, CrashRestart PROVE TypeInv'
  OBVIOUS
<1>1. /\ status' \in [Runs -> RunStatus]
      /\ version' \in [Runs -> Nat]
  BY DEF CrashRestart, TypeInv, TypeOK, RunStatus, Terminal
<1>2. reply' \in [Runs -> Terminal \cup {"none"}]
  BY DEF CrashRestart, TypeInv, TypeOK
<1>3. pc' \in [Requests -> {"idle"} \cup Serving \cup Ended]
      /\ \A q \in Requests : /\ pc'[q] = "idle" <=> pc[q] = "idle"
                            /\ pc'[q] # "observe"
  BY DEF CrashRestart, TypeInv, TypeOK, Ended, Serving
<1>4. crashes' \in 0 .. MaxCrashes
  BY CrashesIsNat DEF CrashRestart, TypeInv, TypeOK
<1> QED
  BY <1>1, <1>2, <1>3, <1>4 DEF CrashRestart, TypeInv, TypeOK, JobKnown, tokenVars,
      effectVars

\* Every step keeps every variable in its type.
LEMMA TypeStep == TypeInv /\ [Next]_vars => TypeInv'
<1> SUFFICES ASSUME TypeInv, [Next]_vars PROVE TypeInv'
  OBVIOUS
<1>1. ASSUME NEW run \in Runs, Work(run) PROVE TypeInv'
  BY <1>1, WorkType
<1>2. ASSUME NEW r \in Requests, NEW j \in Job, Begin(r, j) PROVE TypeInv'
  BY <1>2 DEF Begin, Goto, TypeInv, TypeOK, JobKnown, runVars, tokenVars,
      effectVars, Serving
<1>3. ASSUME NEW r \in Requests, Advance(r) PROVE TypeInv'
  BY <1>3, AdvanceType
<1>4. ASSUME NEW t \in Tokens, Lapse(t) PROVE TypeInv'
  BY <1>4 DEF Lapse, TypeInv, TypeOK, JobKnown, runVars, effectVars, requestVars
<1>5. CASE CrashRestart
  BY <1>5, CrashType
<1>6. CASE UNCHANGED vars
  BY <1>6 DEF vars, TypeInv, TypeOK, JobKnown
<1> QED
  BY <1>1, <1>2, <1>3, <1>4, <1>5, <1>6 DEF Next

\* Every table keeps its column types through every handler, worker step,
\* expiry and restart.
THEOREM TypeCorrect == Spec => []TypeOK
<1>1. TypeInv => TypeOK
  BY DEF TypeInv
<1> QED
  BY <1>1, TypeInit, TypeStep, PTL DEF Spec

-------------------------------------------------------------------------------
(***************************************************************************)
(* One reservation per run                                                 *)
(***************************************************************************)

\* The steps of a confirmation that has moved its run to committing.
Passing == {"reread", "claim", "call", "observe", "verdict", "verify", "handoff",
            "finish"}

\* What the position of a request says about its token, record and calls.
StepShape ==
    \A r \in Requests :
        /\ job[r].kind \in {"confirm", "reject"} => job[r].ref \in Requests
        /\ pc[r] = "token" => job[r].kind \in {"confirm", "reject"}
        /\ pc[r] \in {"lookup", "consume", "reject"} =>
               job[r].ref \in Requests /\ TokenRun(job[r].ref) = job[r].run
        /\ pc[r] = "invalidate" => job[r].kind = "cancel"
        /\ pc[r] = "reject" => job[r].kind = "reject"
        /\ token[r] # "absent" => pc[r] \in {"reissue", "done", "error", "crashed"}
        /\ record[r] # "absent" =>
               pc[r] \in Passing \cup {"committing", "publish", "stamp", "done",
                                     "error", "crashed"}
        /\ pc[r] \in Passing \cup {"committing"} => record[r] # "absent"
        /\ pc[r] \in {"committing", "reread", "claim", "call"} => calls[r] = 0
        /\ calls[r] # 0 => calls[r] = 1 /\ record[r] # "absent"

\* Before the worker's checkpoint no request gets past loading it.
NoCheckpointYet ==
    \A run \in Runs :
        /\ worker[run] \in {"issue", "prepare"} => checkpoint[run].status = "none"
        /\ worker[run] = "issue" => token[run] = "absent"
        /\ checkpoint[run].status = "none" =>
               \A r \in Requests : On(r, run) =>
                   /\ pc[r] \in {"load", "refused", "crashed"}
                   /\ token[r] = "absent"
                   /\ record[r] = "absent"

\* A run has one waiting token or one reservation, never two and never both.
OneChance ==
    /\ \A t, u \in Tokens :
          token[t] = "waiting" /\ token[u] = "waiting" /\ TokenRun(t) = TokenRun(u)
              => t = u
    /\ \A t \in Tokens, r \in Requests :
          token[t] = "waiting" /\ record[r] # "absent" =>
              TokenRun(t) # job[r].run
    /\ \A q, r \in Requests :
          record[q] # "absent" /\ record[r] # "absent" /\ job[q].run = job[r].run
              => q = r

TokenInv == TypeInv /\ StepShape /\ NoCheckpointYet /\ OneChance

\* What a refresh does to the tokens.
LEMMA RotateCases ==
    ASSUME NEW r \in Requests, Rotate(r)
    PROVE  \/ UNCHANGED token /\ pc' = [pc EXCEPT ![r] = "error"]
           \/ \E t \in Tokens :
                 /\ token[t] = "waiting"
                 /\ TokenRun(t) = job[r].run
                 /\ token' = [token EXCEPT ![t] = "invalidated", ![r] = "waiting"]
                 /\ pc' = [pc EXCEPT ![r] = "reissue"]
<1>1. ASSUME NEW t \in Tokens, Rotatable(job[r].run) = {t}
      PROVE  token[t] = "waiting" /\ TokenRun(t) = job[r].run
  BY <1>1 DEF Rotatable, Usable
<1> QED
  BY <1>1, Zenon DEF Rotate, Goto

\* A step of a request leaves each request where its token, record and calls
\* say it is.
LEMMA ShapeAdvance ==
    ASSUME TokenInv, NEW r \in Requests, Advance(r)
    PROVE  StepShape'
<1> USE NamesDistinct DEF TokenInv, TypeInv, StepShape, Goto, Passing, TokenRun,
    effectVars, tokenVars, runVars, Tokens, TypeOK
<1>1. CASE LoadContext(r)
  <2>1. job[r] \in Job
    BY <1>1 DEF LoadContext, JobKnown
  <2>2. pc' = [pc EXCEPT ![r] = "refused"] \/ pc' = [pc EXCEPT ![r] = AfterLoad[job[r].kind]]
    BY <1>1 DEF LoadContext
  <2>3. pc'[r] \in {"refused", "token", "newest", "invalidate", "resolve"}
        /\ (pc'[r] = "token" => job[r].kind \in {"confirm", "reject"})
        /\ (pc'[r] = "invalidate" => job[r].kind = "cancel")
    BY <2>1, <2>2 DEF AfterLoad, Job, Kinds
  <2>4. \A q \in Requests \ {r} : pc'[q] = pc[q]
    BY <2>2
  <2> QED
    BY <1>1, <2>3, <2>4 DEF LoadContext
<1>2. CASE LoadToken(r)
  BY <1>2 DEF LoadToken
<1>3. CASE LookupKey(r)
  BY <1>3 DEF LookupKey, Reused
<1>4. CASE ConsumeAndReserve(r)
  <2>1. \A q \in Requests : token'[q] # "absent" <=> token[q] # "absent"
    BY <1>4 DEF ConsumeAndReserve, Usable
  <2>2. \A q \in Requests \ {r} : pc'[q] = pc[q] /\ record'[q] = record[q]
    BY <1>4 DEF ConsumeAndReserve, Reused
  <2>3. \/ pc'[r] \in {"refused", "publish"} /\ record'[r] = record[r]
        \/ pc'[r] = "committing" /\ record'[r] = "reserved"
    BY <1>4 DEF ConsumeAndReserve, Reused
  <2> QED
    BY <1>4, <2>1, <2>2, <2>3 DEF ConsumeAndReserve
<1>5. CASE StartCommit(r)
  BY <1>5 DEF StartCommit
<1>6. CASE RereadVersion(r)
  BY <1>6 DEF RereadVersion
<1>7. CASE Claim(r)
  BY <1>7 DEF Claim
<1>8. CASE CallAdapter(r)
  BY <1>8 DEF CallAdapter
<1>9. CASE ObserveCommit(r)
  BY <1>9 DEF ObserveCommit
<1>10. CASE Verdict(r)
  BY <1>10 DEF Verdict
<1>11. CASE Verify(r)
  BY <1>11 DEF Verify
<1>12. CASE OpenTicket(r)
  BY <1>12 DEF OpenTicket
<1>13. CASE Finish(r)
  BY <1>13 DEF Finish, LastCommit
<1>14. CASE RejectToken(r)
  <2>1. \A q \in Requests : token'[q] # "absent" <=> token[q] # "absent"
    BY <1>14 DEF RejectToken, Usable
  <2> QED
    BY <1>14, <2>1 DEF RejectToken
<1>15. CASE InvalidateTokens(r)
  BY <1>15 DEF InvalidateTokens
<1>16. CASE Withdraw(r)
  BY <1>16 DEF Withdraw, LastCommit
<1>17. CASE LoadNewest(r)
  BY <1>17 DEF LoadNewest
<1>18. CASE Rotate(r)
  <2>1. CASE UNCHANGED token /\ pc' = [pc EXCEPT ![r] = "error"]
    BY <1>18, <2>1 DEF Rotate
  <2>2. ASSUME NEW t \in Tokens, token[t] = "waiting",
               token' = [token EXCEPT ![t] = "invalidated", ![r] = "waiting"],
               pc' = [pc EXCEPT ![r] = "reissue"]
        PROVE  StepShape'
    BY <1>18, <2>2 DEF Rotate
  <2> QED
    BY <1>18, <2>1, <2>2, RotateCases
<1>19. CASE Reissue(r)
  BY <1>19 DEF Reissue, LastCommit
<1>20. CASE ResolveCheckpoint(r)
  BY <1>20 DEF ResolveCheckpoint, LastCommit
<1>21. CASE ResolveTicket(r)
  BY <1>21 DEF ResolveTicket
<1>22. CASE Publish(r)
  BY <1>22 DEF Publish
<1>23. CASE SetReason(r)
  BY <1>23 DEF SetReason
<1> QED
  BY <1>1, <1>2, <1>3, <1>4, <1>5, <1>6, <1>7, <1>8, <1>9, <1>10, <1>11, <1>12,
      <1>13, <1>14, <1>15, <1>16, <1>17, <1>18, <1>19, <1>20, <1>21, <1>22, <1>23,
      Zenon DEF Advance

\* Every step does.
LEMMA ShapeStep == TokenInv /\ [Next]_vars => StepShape'
<1> SUFFICES ASSUME TokenInv, [Next]_vars PROVE StepShape'
  OBVIOUS
<1> USE NamesDistinct DEF TokenInv, TypeInv, StepShape, TokenRun
<1>1. ASSUME NEW run \in Runs, Work(run) PROVE StepShape'
  <2>1. /\ UNCHANGED <<effectVars, requestVars>>
        /\ \A r \in Requests : token'[r] = token[r]
    BY <1>1 DEF Work, IssueToken, PrepareMutation, PublishPrompt, WorkerRaises,
        MarkFailed, PublishFailure, StampFailure, tokenVars, TypeOK, Tokens
  <2> QED
    BY <2>1 DEF effectVars, requestVars
<1>2. ASSUME NEW r \in Requests, NEW j \in Job, Begin(r, j) PROVE StepShape'
  <2>1. \A q \in Requests : job'[q] = IF q = r THEN j ELSE job[q]
    BY <1>2 DEF Begin, TypeOK
  <2>2. \A q \in Requests : pc'[q] = IF q = r THEN "load" ELSE pc[q]
    BY <1>2 DEF Begin, Goto, TypeOK
  <2>3. j.kind \in {"confirm", "reject"} => j.ref \in Requests
    BY <1>2 DEF Begin, TypeOK
  <2>4. token[r] = "absent" /\ record[r] = "absent" /\ job[r].run = "none"
    BY <1>2 DEF Begin, JobKnown, NoJob, Passing
  <2>5. \A q \in Requests : pc[q] # "idle" => job[q].run \in Runs
    BY DEF JobKnown, Job
  <2>6. ASSUME NEW q \in Requests, q # r, pc[q] \in {"lookup", "consume", "reject"}
        PROVE  job[q].ref \in Requests /\ TokenRun(job[q].ref)' = job[q].run
    BY <2>1, <2>4, <2>5, <2>6, NoneIsNoName
  <2> QED
    BY <1>2, <2>1, <2>2, <2>3, <2>4, <2>6 DEF Begin, tokenVars, effectVars, Passing
<1>3. ASSUME NEW r \in Requests, Advance(r) PROVE StepShape'
  BY <1>3, ShapeAdvance
<1>4. ASSUME NEW t \in Tokens, Lapse(t) PROVE StepShape'
  BY <1>4 DEF Lapse, effectVars, requestVars
<1>5. CASE CrashRestart
  BY <1>5 DEF CrashRestart, tokenVars, effectVars, Serving, Passing, TypeOK
<1>6. CASE UNCHANGED vars
  BY <1>6 DEF vars
<1> QED
  BY <1>1, <1>2, <1>3, <1>4, <1>5, <1>6 DEF Next


\* A step of request r leaves the other requests, the other runs and the
\* worker alone.
LEMMA AdvanceFrame ==
    ASSUME TypeInv, NEW r \in Requests, Advance(r)
    PROVE  /\ UNCHANGED <<worker, job, crashes>>
           /\ pc[r] # "idle" /\ job[r] \in Job /\ job[r].run \in Runs
           /\ \A q \in Requests \ {r} :
                 /\ pc'[q] = pc[q] /\ ctx'[q] = ctx[q] /\ seen'[q] = seen[q]
                 /\ record'[q] = record[q] /\ calls'[q] = calls[q]
           /\ \A run \in Runs \ {job[r].run} :
                 /\ status'[run] = status[run]
                 /\ version'[run] = version[run]
                 /\ checkpoint'[run] = checkpoint[run]
<1> USE DEF TypeInv, TypeOK, Goto, effectVars, tokenVars, runVars
<1>0. pc[r] # "idle" => job[r] \in Job /\ job[r].run \in Runs
  BY DEF JobKnown, Job
<1>1. CASE LoadContext(r)
  BY <1>0, <1>1 DEF LoadContext
<1>2. CASE LoadToken(r)
  BY <1>0, <1>2 DEF LoadToken
<1>3. CASE LookupKey(r)
  BY <1>0, <1>3 DEF LookupKey, Reused
<1>4. CASE ConsumeAndReserve(r)
  BY <1>0, <1>4 DEF ConsumeAndReserve, Reused
<1>5. CASE StartCommit(r)
  BY <1>0, <1>5 DEF StartCommit, CommitStep
<1>6. CASE RereadVersion(r)
  BY <1>0, <1>6 DEF RereadVersion
<1>7. CASE Claim(r)
  BY <1>0, <1>7 DEF Claim
<1>8. CASE CallAdapter(r)
  BY <1>0, <1>8 DEF CallAdapter
<1>9. CASE ObserveCommit(r)
  BY <1>0, <1>9 DEF ObserveCommit, CommitStep
<1>10. CASE Verdict(r)
  BY <1>0, <1>10 DEF Verdict
<1>11. CASE Verify(r)
  BY <1>0, <1>11 DEF Verify
<1>12. CASE OpenTicket(r)
  BY <1>0, <1>12 DEF OpenTicket
<1>13. CASE Finish(r)
  BY <1>0, <1>13 DEF Finish, LastCommit, CommitStep
<1>14. CASE RejectToken(r)
  BY <1>0, <1>14 DEF RejectToken
<1>15. CASE InvalidateTokens(r)
  BY <1>0, <1>15 DEF InvalidateTokens
<1>16. CASE Withdraw(r)
  BY <1>0, <1>16 DEF Withdraw, LastCommit, CommitStep
<1>17. CASE LoadNewest(r)
  BY <1>0, <1>17 DEF LoadNewest
<1>18. CASE Rotate(r)
  BY <1>0, <1>18 DEF Rotate
<1>19. CASE Reissue(r)
  BY <1>0, <1>19 DEF Reissue, LastCommit, CommitStep
<1>20. CASE ResolveCheckpoint(r)
  BY <1>0, <1>20 DEF ResolveCheckpoint, LastCommit, CommitStep
<1>21. CASE ResolveTicket(r)
  BY <1>0, <1>21 DEF ResolveTicket
<1>22. CASE Publish(r)
  BY <1>0, <1>22 DEF Publish
<1>23. CASE SetReason(r)
  BY <1>0, <1>23 DEF SetReason, BumpVersion
<1> QED
  BY <1>1, <1>2, <1>3, <1>4, <1>5, <1>6, <1>7, <1>8, <1>9, <1>10, <1>11, <1>12,
      <1>13, <1>14, <1>15, <1>16, <1>17, <1>18, <1>19, <1>20, <1>21, <1>22, <1>23
      DEF Advance

\* The three ways in which a step of r treats its run row: it leaves it, it
\* sets the terminal reason, or it commits a checkpoint at the version r holds.
LEMMA AdvanceRow ==
    ASSUME TypeInv, NEW r \in Requests, Advance(r)
    PROVE  \/ UNCHANGED runVars
           \/ /\ pc[r] \in {"reason", "stamp"}
              /\ UNCHANGED <<status, checkpoint>>
              /\ version' = [version EXCEPT ![job[r].run] = @ + 1]
           \/ /\ Fresh(r)
              /\ \E next \in RunStatus :
                    /\ CommitStep(job[r].run, ctx[r], next)
                    /\ \/ pc[r] = "committing" /\ next = "committing"
                       \/ pc[r] = "observe" /\ next \in {"failed", "verifying"}
                       \/ pc[r] = "finish" /\ next = FinalStatus(r)
                       \/ pc[r] = "withdraw" /\ next = "cancelled"
                       \/ pc[r] = "reissue" /\ next = "waiting_confirmation"
                       \/ pc[r] = "resolve" /\ next \in {"completed", "failed"}
<1>1. CASE \/ LoadContext(r)
              \/ LoadToken(r)
              \/ LookupKey(r)
              \/ ConsumeAndReserve(r)
              \/ RereadVersion(r)
              \/ Claim(r)
              \/ CallAdapter(r)
              \/ Verdict(r)
              \/ Verify(r)
              \/ OpenTicket(r)
              \/ RejectToken(r)
              \/ InvalidateTokens(r)
              \/ LoadNewest(r)
              \/ Rotate(r)
              \/ ResolveTicket(r)
              \/ Publish(r)
  BY <1>1, Zenon DEF LoadContext, LoadToken, LookupKey, ConsumeAndReserve,
      RereadVersion, Claim, CallAdapter, Verdict, Verify, OpenTicket, RejectToken,
      InvalidateTokens, LoadNewest, Rotate, ResolveTicket, Publish, runVars
<1>2. CASE SetReason(r)
  BY <1>2 DEF SetReason, BumpVersion
<1>3. CASE StartCommit(r)
  BY <1>3, Zenon DEF StartCommit, RunStatus
<1>4. CASE ObserveCommit(r)
  BY <1>4 DEF ObserveCommit, RunStatus, Terminal
<1>5. CASE Finish(r)
  <2>1. FinalStatus(r) \in RunStatus
    BY DEF FinalStatus, RunStatus, Terminal
  <2> QED
    BY <1>5, <2>1, Zenon DEF Finish, LastCommit
<1>6. CASE Withdraw(r)
  BY <1>6, Zenon DEF Withdraw, LastCommit, RunStatus, Terminal
<1>7. CASE Reissue(r)
  BY <1>7, Zenon DEF Reissue, LastCommit, RunStatus
<1>8. CASE ResolveCheckpoint(r)
  BY <1>8, Zenon DEF ResolveCheckpoint, LastCommit, RunStatus, Terminal
<1> QED
  BY <1>1, <1>2, <1>3, <1>4, <1>5, <1>6, <1>7, <1>8 DEF Advance

\* Tokens appear by rotation only, each in place of another one of the run.
LEMMA AdvanceTokens ==
    ASSUME TokenInv, NEW r \in Requests, Advance(r), NEW t \in Tokens
    PROVE  /\ token[t] = "absent" /\ t # r => token'[t] = "absent"
           /\ token'[t] = "waiting" =>
                 \/ token[t] = "waiting"
                 \/ /\ t = r /\ pc[r] = "rotate"
                    /\ \E u \in Tokens : /\ token[u] = "waiting"
                                         /\ TokenRun(u) = job[r].run
                                         /\ token'[u] # "waiting"
<1> USE DEF TokenInv, TypeInv, TypeOK
<1>1. CASE \/ LoadContext(r)
              \/ LoadToken(r)
              \/ LookupKey(r)
              \/ StartCommit(r)
              \/ RereadVersion(r)
              \/ Claim(r)
              \/ CallAdapter(r)
              \/ ObserveCommit(r)
              \/ Verdict(r)
              \/ Verify(r)
              \/ OpenTicket(r)
              \/ Finish(r)
              \/ Withdraw(r)
              \/ LoadNewest(r)
              \/ Reissue(r)
              \/ ResolveCheckpoint(r)
              \/ ResolveTicket(r)
              \/ Publish(r)
              \/ SetReason(r)
  BY <1>1, Zenon DEF LoadContext, LoadToken, LookupKey, StartCommit,
      RereadVersion, Claim, CallAdapter, ObserveCommit, Verdict, Verify,
      OpenTicket, Finish, Withdraw, LoadNewest, Reissue, ResolveCheckpoint,
      ResolveTicket, Publish, SetReason, tokenVars
<1>2. CASE ConsumeAndReserve(r)
  BY <1>2 DEF ConsumeAndReserve, Usable
<1>3. CASE RejectToken(r)
  BY <1>3 DEF RejectToken, Usable
<1>4. CASE InvalidateTokens(r)
  BY <1>4 DEF InvalidateTokens
<1>5. CASE Rotate(r)
  <2>1. pc[r] = "rotate" /\ token[r] = "absent"
    BY <1>5 DEF Rotate, StepShape
  <2>2. CASE UNCHANGED token
    BY <2>2
  <2>3. ASSUME NEW u \in Tokens, token[u] = "waiting", TokenRun(u) = job[r].run,
               token' = [token EXCEPT ![u] = "invalidated", ![r] = "waiting"]
        PROVE  /\ token[t] = "absent" /\ t # r => token'[t] = "absent"
               /\ token'[t] = "waiting" => token[t] = "waiting" \/ t = r
               /\ token'[u] # "waiting"
    BY <2>1, <2>3
  <2> QED
    BY <1>5, <2>1, <2>2, <2>3, RotateCases
<1> QED
  BY <1>1, <1>2, <1>3, <1>4, <1>5 DEF Advance

\* A record appears when its request spends the token it presented.
LEMMA AdvanceRecords ==
    ASSUME TokenInv, NEW r \in Requests, Advance(r)
    PROVE  \/ record'[r] # "absent" <=> record[r] # "absent"
           \/ /\ pc[r] = "consume" /\ pc'[r] = "committing"
              /\ token[job[r].ref] = "waiting"
              /\ token' = [token EXCEPT ![job[r].ref] = "consumed"]
<1> USE DEF TokenInv, TypeInv, TypeOK
<1>1. CASE \/ LoadContext(r)
              \/ LoadToken(r)
              \/ LookupKey(r)
              \/ StartCommit(r)
              \/ RereadVersion(r)
              \/ CallAdapter(r)
              \/ Verdict(r)
              \/ Verify(r)
              \/ OpenTicket(r)
              \/ Finish(r)
              \/ RejectToken(r)
              \/ InvalidateTokens(r)
              \/ Withdraw(r)
              \/ LoadNewest(r)
              \/ Rotate(r)
              \/ Reissue(r)
              \/ ResolveCheckpoint(r)
              \/ ResolveTicket(r)
              \/ Publish(r)
              \/ SetReason(r)
  BY <1>1, Zenon DEF LoadContext, LoadToken, LookupKey, StartCommit,
      RereadVersion, CallAdapter, Verdict, Verify, OpenTicket, Finish,
      RejectToken, InvalidateTokens, Withdraw, LoadNewest, Rotate, Reissue,
      ResolveCheckpoint, ResolveTicket, Publish, SetReason, effectVars
<1>2. CASE ConsumeAndReserve(r)
  BY <1>2 DEF ConsumeAndReserve, Usable, Goto
<1>3. CASE Claim(r)
  BY <1>3 DEF Claim
<1>4. CASE ObserveCommit(r)
  BY <1>4 DEF ObserveCommit, JobKnown
<1> QED
  BY <1>1, <1>2, <1>3, <1>4 DEF Advance

\* Nothing gets ahead of the checkpoint the worker writes first.
LEMMA NoCheckpointStep == TokenInv /\ [Next]_vars => NoCheckpointYet'
<1> SUFFICES ASSUME TokenInv, [Next]_vars PROVE NoCheckpointYet'
  OBVIOUS
<1> USE DEF TokenInv, TypeInv
<1>1. ASSUME NEW k \in Runs, Work(k) PROVE NoCheckpointYet'
  <2>1. UNCHANGED <<requestVars, record>>
    BY <1>1 DEF Work, IssueToken, PrepareMutation, PublishPrompt, WorkerRaises,
        MarkFailed, PublishFailure, StampFailure, effectVars
  <2>2. CASE IssueToken(k)
    BY <2>1, <2>2, NamesDistinct DEF IssueToken, NoCheckpointYet, On, requestVars,
        runVars, TypeOK,
        Tokens
  <2>3. CASE PrepareMutation(k)
    BY <2>1, <2>3 DEF PrepareMutation, CommitStep, NoCheckpointYet, On, requestVars,
        tokenVars, TypeOK
  <2>4. CASE \/ PublishPrompt(k) \/ WorkerRaises(k) \/ MarkFailed(k)
             \/ PublishFailure(k) \/ StampFailure(k)
    BY <2>1, <2>4 DEF PublishPrompt, WorkerRaises, MarkFailed, PublishFailure,
        StampFailure, NoCheckpointYet, On, requestVars, tokenVars, runVars, TypeOK
  <2> QED
    BY <1>1, <2>2, <2>3, <2>4 DEF Work
<1>2. ASSUME NEW r \in Requests, NEW j \in Job, Begin(r, j) PROVE NoCheckpointYet'
  <2>1. token[r] = "absent" /\ record[r] = "absent"
    BY <1>2 DEF Begin, StepShape, Passing
  <2> QED
    BY <1>2, <2>1 DEF Begin, Goto, NoCheckpointYet, On, runVars, tokenVars,
        effectVars, TypeOK
<1>3. ASSUME NEW r \in Requests, Advance(r) PROVE NoCheckpointYet'
  <2> DEFINE mine == job[r].run
  <2>0. mine \in Runs /\ UNCHANGED <<worker, job>>
    BY <1>3, AdvanceFrame
  <2>1. ASSUME NEW run \in Runs, checkpoint'[run].status = "none"
        PROVE  checkpoint[run].status = "none"
    <3>1. CASE run # mine
      BY <1>3, <2>1, <3>1, AdvanceFrame
    <3>2. CASE UNCHANGED checkpoint
      BY <2>1, <3>2
    <3>3. ASSUME NEW next \in RunStatus, CommitStep(mine, ctx[r], next), run = mine
          PROVE  FALSE
      BY <2>0, <2>1, <3>3 DEF CommitStep, TypeOK, RunStatus, Terminal
    <3> QED
      BY <1>3, <3>1, <3>2, <3>3, AdvanceRow DEF runVars
  <2>2. checkpoint[mine].status = "none" =>
            LoadContext(r) /\ pc[r] = "load" /\ pc'[r] = "refused"
    <3>1. checkpoint[mine].status = "none" => pc[r] \in {"load", "refused", "crashed"}
      BY <2>0 DEF NoCheckpointYet, On
    <3>2. CASE LoadContext(r)
      BY <3>2 DEF LoadContext, Unreadable, Goto, TypeOK
    <3>3. pc[r] \notin {"refused", "crashed"} /\ (pc[r] = "load" => LoadContext(r))
      BY <1>3 DEF Advance, LoadToken, LookupKey, ConsumeAndReserve, StartCommit,
          RereadVersion, Claim, CallAdapter, ObserveCommit, Verdict, Verify,
          OpenTicket, Finish, RejectToken, InvalidateTokens, Withdraw, LoadNewest,
          Rotate, Reissue, ResolveCheckpoint, ResolveTicket, Publish, SetReason,
          LoadContext
    <3> QED
      BY <3>1, <3>2, <3>3
  <2>3. ASSUME NEW run \in Runs, worker'[run] \in {"issue", "prepare"}
        PROVE  checkpoint'[run].status = "none"
    <3>1. checkpoint[run].status = "none"
      BY <2>0, <2>3 DEF NoCheckpointYet
    <3>2. CASE run # mine
      BY <1>3, <3>1, <3>2, AdvanceFrame
    <3>3. CASE run = mine
      BY <1>3, <2>2, <3>1, <3>3, AdvanceRow DEF runVars
    <3> QED
      BY <3>2, <3>3
  <2>4. ASSUME NEW run \in Runs, worker'[run] = "issue"
        PROVE  token'[run] = "absent"
    BY <1>3, <2>0, <2>4, AdvanceTokens, NamesDistinct DEF NoCheckpointYet, Tokens
  <2>5. ASSUME NEW run \in Runs, checkpoint'[run].status = "none",
               NEW q \in Requests, On(q, run)'
        PROVE  /\ pc'[q] \in {"load", "refused", "crashed"}
               /\ token'[q] = "absent"
               /\ record'[q] = "absent"
    <3>1. checkpoint[run].status = "none" /\ On(q, run)
      BY <2>0, <2>1, <2>5 DEF On
    <3>2. /\ pc[q] \in {"load", "refused", "crashed"}
          /\ token[q] = "absent"
          /\ record[q] = "absent"
      BY <3>1 DEF NoCheckpointYet
    <3>3. CASE q # r
      BY <1>3, <3>2, <3>3, AdvanceFrame, AdvanceTokens DEF Tokens
    <3>4. CASE q = r
      <4>1. LoadContext(r)
        BY <2>2, <3>1, <3>4 DEF On
      <4> QED
        BY <2>2, <3>1, <3>2, <3>4, <4>1 DEF LoadContext, On, tokenVars, effectVars
    <3> QED
      BY <3>3, <3>4
  <2> QED
    BY <2>3, <2>4, <2>5 DEF NoCheckpointYet
<1>4. ASSUME NEW t \in Tokens, Lapse(t) PROVE NoCheckpointYet'
  BY <1>4 DEF Lapse, NoCheckpointYet, On, runVars, effectVars, requestVars
<1>5. CASE CrashRestart
  BY <1>5 DEF CrashRestart, NoCheckpointYet, On, tokenVars, effectVars, TypeOK
<1>6. CASE UNCHANGED vars
  BY <1>6 DEF vars, NoCheckpointYet, On
<1> QED
  BY <1>1, <1>2, <1>3, <1>4, <1>5, <1>6 DEF Next

\* No step gives a run a second chance: a refresh closes the token it
\* replaces, and a reservation spends the only one.
LEMMA OneChanceStep == TokenInv /\ [Next]_vars => OneChance'
<1> SUFFICES ASSUME TokenInv, [Next]_vars PROVE OneChance'
  OBVIOUS
<1> USE DEF TokenInv, TypeInv
<1>1. ASSUME NEW k \in Runs, Work(k) PROVE OneChance'
  <2>1. UNCHANGED <<job, record>>
    BY <1>1 DEF Work, IssueToken, PrepareMutation, PublishPrompt, WorkerRaises,
        MarkFailed, PublishFailure, StampFailure, requestVars, effectVars
  <2>2. CASE UNCHANGED token
    BY <2>1, <2>2 DEF OneChance, TokenRun
  <2>3. CASE IssueToken(k)
    <3>2. \A q \in Requests : job[q].run = k =>
              token[q] # "waiting" /\ record[q] = "absent"
      BY <2>3 DEF IssueToken, NoCheckpointYet, On
    <3>3. \A t \in Tokens : token'[t] = "waiting" => t = k \/ token[t] = "waiting"
      BY <2>3 DEF IssueToken, TypeOK
    <3>4. TokenRun(k) = k /\ \A t \in Tokens :
              token[t] = "waiting" /\ TokenRun(t) = k => t = k
      BY <3>2, NamesDistinct DEF TokenRun, Tokens
    <3>5. \A t \in Tokens : TokenRun(t)' = TokenRun(t)
      BY <2>1 DEF TokenRun
    <3> QED
      BY <2>1, <3>2, <3>3, <3>4, <3>5 DEF OneChance
  <2> QED
    BY <1>1, <2>2, <2>3 DEF Work, PrepareMutation, PublishPrompt, WorkerRaises,
        MarkFailed, PublishFailure, StampFailure, tokenVars
<1>2. ASSUME NEW r \in Requests, NEW j \in Job, Begin(r, j) PROVE OneChance'
  <2>1. token[r] = "absent" /\ record[r] = "absent"
    BY <1>2 DEF Begin, StepShape, Passing
  <2>2. \A q \in Requests \ {r} : job'[q] = job[q]
    BY <1>2 DEF Begin, TypeOK
  <2> QED
    BY <1>2, <2>1, <2>2, NamesDistinct DEF Begin, OneChance, TokenRun, Tokens,
        tokenVars, effectVars
<1>3. ASSUME NEW r \in Requests, Advance(r) PROVE OneChance'
  <2>0. UNCHANGED job /\ \A t \in Tokens : TokenRun(t)' = TokenRun(t)
    BY <1>3, AdvanceFrame DEF TokenRun
  <2>1. TokenRun(r) = job[r].run
    BY NamesDistinct DEF TokenRun
  <2>2. ASSUME NEW t \in Tokens, NEW u \in Tokens, token'[t] = "waiting",
               token'[u] = "waiting", TokenRun(t) = TokenRun(u)
        PROVE  t = u
    BY <1>3, <2>1, <2>2, AdvanceTokens DEF OneChance
  <2>3. \A q \in Requests : record'[q] # "absent" =>
            \/ record[q] # "absent"
            \/ /\ q = r /\ pc[r] = "consume"
               /\ token[job[r].ref] = "waiting"
               /\ token' = [token EXCEPT ![job[r].ref] = "consumed"]
    BY <1>3, AdvanceFrame, AdvanceRecords
  <2>4. pc[r] = "consume" => job[r].ref \in Tokens /\ TokenRun(job[r].ref) = job[r].run
    BY DEF StepShape, Tokens
  <2>5. ASSUME NEW t \in Tokens, NEW q \in Requests, token'[t] = "waiting",
               record'[q] # "absent"
        PROVE  TokenRun(t) # job[q].run
    <3>1. CASE record[q] # "absent"
      BY <1>3, <2>1, <2>5, <3>1, AdvanceTokens DEF OneChance
    <3>2. CASE record[q] = "absent"
      <4>1. q = r /\ pc[r] = "consume" /\ token[job[r].ref] = "waiting"
            /\ token' = [token EXCEPT ![job[r].ref] = "consumed"]
        BY <2>3, <2>5, <3>2
      <4>2. token[t] = "waiting" /\ t # job[r].ref
        BY <2>4, <2>5, <4>1 DEF TypeOK
      <4> QED
        BY <2>4, <4>1, <4>2 DEF OneChance
    <3> QED
      BY <3>1, <3>2
  <2>6. ASSUME NEW p \in Requests, NEW q \in Requests, record'[p] # "absent",
               record'[q] # "absent", job[p].run = job[q].run
        PROVE  p = q
    BY <2>3, <2>4, <2>6 DEF OneChance
  <2> QED
    BY <2>0, <2>2, <2>5, <2>6 DEF OneChance
<1>4. ASSUME NEW t \in Tokens, Lapse(t) PROVE OneChance'
  BY <1>4 DEF Lapse, OneChance, TokenRun, effectVars, requestVars
<1>5. CASE CrashRestart
  BY <1>5 DEF CrashRestart, OneChance, TokenRun, tokenVars, effectVars
<1>6. CASE UNCHANGED vars
  BY <1>6 DEF vars, OneChance, TokenRun
<1> QED
  BY <1>1, <1>2, <1>3, <1>4, <1>5, <1>6 DEF Next

\* The token invariant holds at the start.
LEMMA TokenInit == Init => TokenInv
<1> SUFFICES ASSUME Init PROVE TokenInv
  OBVIOUS
<1>1. TypeInv
  BY TypeInit
<1>2. StepShape
  BY DEF Init, StepShape, Passing, NoJob, NoContext, Tokens, TokenRun
<1>3. NoCheckpointYet
  <2>1. ASSUME NEW q \in Requests PROVE job[q].run = "none"
    BY DEF Init, NoJob
  <2>2. ASSUME NEW k \in Runs, NEW q \in Requests PROVE ~On(q, k)
    BY <2>1, NoneIsNoName DEF On
  <2>3. ASSUME NEW k \in Runs
        PROVE  checkpoint[k].status = "none" /\ token[k] = "absent"
    BY DEF Init, NoContext, Tokens
  <2> QED
    BY <2>2, <2>3 DEF NoCheckpointYet
<1>4. OneChance
  BY DEF Init, OneChance
<1> QED
  BY <1>1, <1>2, <1>3, <1>4 DEF TokenInv

\* The token invariant is inductive.
LEMMA TokenStep == TokenInv /\ [Next]_vars => TokenInv'
<1>1. TokenInv => TypeInv
  BY DEF TokenInv
<1>2. TokenInv' <=> TypeInv' /\ StepShape' /\ NoCheckpointYet' /\ OneChance'
  BY DEF TokenInv
<1> QED
  BY <1>1, <1>2, TypeStep, ShapeStep, NoCheckpointStep, OneChanceStep

\* The business system is asked for the change of a run at most once, however
\* many requests, refreshes, crashes and failures there are: the run has one
\* token or one reservation, never two and never both.
THEOREM CommitOnce == Spec => []AtMostOneCall
<1>1. TokenInv => AtMostOneCall
  BY DEF TokenInv, StepShape, OneChance, AtMostOneCall, TypeInv, TypeOK
<1> QED
  BY <1>1, TokenInit, TokenStep, PTL DEF Spec

\* Refreshes and confirmations that overlap leave a run at most one usable
\* token, and none once a reservation exists.
THEOREM OneToken == Spec => []OneLiveToken
<1>1. TokenInv => OneLiveToken
  BY DEF TokenInv, OneChance, OneLiveToken, Holders, On
<1> QED
  BY <1>1, TokenInit, TokenStep, PTL DEF Spec

-------------------------------------------------------------------------------
(***************************************************************************)
(* A spent token has its reservation                                       *)
(***************************************************************************)

\* A token is spent by the step that leaves a record of its own behind, and no
\* record is ever deleted.
LEMMA AdvanceSpends ==
    ASSUME TokenInv, NEW r \in Requests, Advance(r)
    PROVE  /\ \A t \in Tokens : token'[t] = "consumed" =>
                 \/ token[t] = "consumed"
                 \/ t = job[r].ref /\ record'[r] # "absent"
           /\ \A q \in Requests : record[q] # "absent" => record'[q] # "absent"
<1> USE DEF TokenInv, TypeInv, TypeOK
<1>1. \A q \in Requests : record[q] # "absent" => record'[q] # "absent"
  <2>1. pc[r] = "consume" => record[r] = "absent"
    BY DEF StepShape, Passing
  <2> QED
    BY <2>1, AdvanceFrame, AdvanceRecords
<1>2. CASE \/ LoadContext(r)
              \/ LoadToken(r)
              \/ LookupKey(r)
              \/ StartCommit(r)
              \/ RereadVersion(r)
              \/ Claim(r)
              \/ CallAdapter(r)
              \/ ObserveCommit(r)
              \/ Verdict(r)
              \/ Verify(r)
              \/ OpenTicket(r)
              \/ Finish(r)
              \/ Withdraw(r)
              \/ LoadNewest(r)
              \/ Reissue(r)
              \/ ResolveCheckpoint(r)
              \/ ResolveTicket(r)
              \/ Publish(r)
              \/ SetReason(r)
  <2>1. UNCHANGED token
    BY <1>2, Zenon DEF LoadContext, LoadToken, LookupKey, StartCommit,
        RereadVersion, Claim, CallAdapter, ObserveCommit, Verdict, Verify,
        OpenTicket, Finish, Withdraw, LoadNewest, Reissue, ResolveCheckpoint,
        ResolveTicket, Publish, SetReason, tokenVars
  <2> QED
    BY <1>1, <2>1
<1>3. CASE ConsumeAndReserve(r)
  BY <1>1, <1>3 DEF ConsumeAndReserve
<1>4. CASE RejectToken(r) \/ InvalidateTokens(r)
  BY <1>1, <1>4 DEF RejectToken, InvalidateTokens
<1>5. CASE Rotate(r)
  <2>1. \A t \in Tokens : token'[t] = "consumed" => token[t] = "consumed"
    BY <1>5, RotateCases
  <2> QED
    BY <1>1, <2>1
<1> QED
  BY <1>2, <1>3, <1>4, <1>5 DEF Advance

\* No step spends a token without a record, or takes the record away.
LEMMA SpentStep == TokenInv /\ SpentMeansReserved /\ [Next]_vars => SpentMeansReserved'
<1> SUFFICES ASSUME TokenInv, SpentMeansReserved, [Next]_vars,
                    NEW t \in Tokens, token'[t] = "consumed"
             PROVE  \E r \in Requests : record'[r] # "absent" /\ job'[r].ref = t
  BY DEF SpentMeansReserved
<1> USE DEF TokenInv, TypeInv, TypeOK
<1>1. ASSUME NEW k \in Runs, Work(k)
      PROVE  \E r \in Requests : record'[r] # "absent" /\ job'[r].ref = t
  <2>1. UNCHANGED <<job, record>> /\ token[t] = "consumed"
    BY <1>1 DEF Work, IssueToken, PrepareMutation, PublishPrompt, WorkerRaises,
        MarkFailed, PublishFailure, StampFailure, requestVars, effectVars, tokenVars
  <2> QED
    BY <2>1 DEF SpentMeansReserved
<1>2. ASSUME NEW r \in Requests, NEW j \in Job, Begin(r, j)
      PROVE  \E q \in Requests : record'[q] # "absent" /\ job'[q].ref = t
  <2>1. record[r] = "absent"
    BY <1>2 DEF Begin, StepShape, Passing
  <2>2. PICK q \in Requests : record[q] # "absent" /\ job[q].ref = t
    BY <1>2 DEF Begin, tokenVars, SpentMeansReserved
  <2> QED
    BY <1>2, <2>1, <2>2 DEF Begin, effectVars
<1>3. ASSUME NEW r \in Requests, Advance(r)
      PROVE  \E q \in Requests : record'[q] # "absent" /\ job'[q].ref = t
  <2>1. UNCHANGED job
    BY <1>3, AdvanceFrame
  <2>2. CASE token[t] = "consumed"
    <3>1. PICK q \in Requests : record[q] # "absent" /\ job[q].ref = t
      BY <2>2 DEF SpentMeansReserved
    <3> QED
      BY <1>3, <2>1, <3>1, AdvanceSpends
  <2>3. CASE token[t] # "consumed"
    BY <1>3, <2>1, <2>3, AdvanceSpends
  <2> QED
    BY <2>2, <2>3
<1>4. CASE UNCHANGED <<token, record, job>>
  BY <1>4 DEF SpentMeansReserved
<1> QED
  BY <1>1, <1>2, <1>3, <1>4 DEF Next, Lapse, CrashRestart, vars, tokenVars,
      effectVars, requestVars

\* A confirmation that is refused for its idempotency key, loses its race or
\* fails leaves the token as it was: whenever a token is spent, some request
\* holds the reservation it was exchanged for.
THEOREM SpentIsReserved == Spec => []SpentMeansReserved
<1>1. Init => SpentMeansReserved
  BY DEF Init, SpentMeansReserved
<1>2. TokenInv /\ SpentMeansReserved /\ [Next]_vars => SpentMeansReserved'
  BY SpentStep
<1> QED
  BY <1>1, <1>2, TokenInit, TokenStep, PTL DEF Spec
===============================================================================
