-------------------------- MODULE MutationEndProofs ---------------------------
(***************************************************************************)
(* A run that has ended stays ended, a cancelled one was never sent to the *)
(* business system and a reply that claims a result is right: three        *)
(* theorems that assume that invalidate_waiting does not fail in           *)
(* cancel_run, and are false without that.  No confirmation abandons its   *)
(* reservation, and a run in human hands has a ticket, whatever fails.     *)
(***************************************************************************)
EXTENDS MutationTokenProofs

-------------------------------------------------------------------------------
(***************************************************************************)
(* A cancelled run is never touched                                        *)
(***************************************************************************)

\* Nobody holds a version of a run that is newer than its row.
VersionsGrow ==
    /\ \A run \in Runs : checkpoint[run].version <= version[run]
    /\ \A r \in Requests :
          /\ pc[r] = "idle" => ctx[r].version = 0
          /\ pc[r] # "idle" => ctx[r].version <= version[job[r].run]

Passed(r) == pc[r] \in Passing \/ calls[r] # 0

\* The steps at which a request will go on from waiting_confirmation.
FromWaiting(r) ==
    \/ pc[r] \in {"invalidate", "newest", "rotate", "reissue"}
    \/ pc[r] = "withdraw" /\ job[r].kind = "cancel"

\* Once a confirmation has moved the run, those who saw it waiting are stale.
PassedIsSeen ==
    \A r \in Requests : Passed(r) =>
        /\ checkpoint[job[r].run].status # "waiting_confirmation"
        /\ \A w \in Requests :
              job[w].run = job[r].run /\ FromWaiting(w) =>
                  ctx[w].version < version[job[r].run]

\* Whoever is about to withdraw a run has closed its tokens; a rejection also
\* knows that none was spent.
WithdrawCloses ==
    \A w \in Requests : pc[w] = "withdraw" =>
        /\ job[w].kind \in {"cancel", "reject"}
        /\ checkpoint[job[w].run].status # "none"
        /\ \A t \in Tokens : token[t] = "waiting" => TokenRun(t) # job[w].run
        /\ job[w].kind = "reject" =>
              \A r \in Requests : record[r] # "absent" => job[r].run # job[w].run

\* The steps at which a request may still try to write the run row.
Pending == {"committing", "invalidate", "withdraw", "reissue", "resolve"}

\* A cancelled or completed run is closed: no token, no confirmation under
\* way, and everyone who may still try to write it holds an old version.
EndedIsClosed ==
    \A run \in Runs : status[run] \in {"cancelled", "completed"} =>
        /\ checkpoint[run].status = status[run]
        /\ \A t \in Tokens : token[t] = "waiting" => TokenRun(t) # run
        /\ \A r \in Requests : On(r, run) =>
              /\ pc[r] \notin Passing
              /\ pc[r] \in Pending => ctx[r].version < version[run]
              /\ status[run] = "cancelled" => calls[r] = 0

UnderReview(run) ==
    \/ checkpoint[run].status = "waiting_human"
    \/ \E w \in Requests : On(w, run) /\ pc[w] = "resolve"

\* A run under review has had its confirmation, which is over.
ReviewIsLate ==
    \A run \in Runs : UnderReview(run) =>
        /\ \E r \in Requests :
              On(r, run) /\ record[r] # "absent" /\ ticket[r] # "absent"
        /\ \A r \in Requests :
              On(r, run) => pc[r] \notin Passing \cup {"committing"}

\* What a confirmation has established when it comes to its last steps.
OutcomeKnown ==
    \A r \in Requests :
        /\ r \in applied => calls[r] # 0
        /\ pc[r] \in {"observe", "verdict", "verify", "handoff", "finish"} =>
              calls[r] # 0
        /\ pc[r] = "verdict" => seen[r] \in {"succeeded", "failed", "unknown"}
        /\ pc[r] = "verify" => seen[r] = "succeeded"
        /\ pc[r] = "handoff" => seen[r] \in {"unknown", "mismatch"}
        /\ pc[r] = "finish" =>
              \/ seen[r] = "failed"
              \/ seen[r] = "succeeded" /\ r \in applied
              \/ seen[r] \in {"unknown", "mismatch"} /\ ticket[r] # "absent"

\* A ticket belongs to a confirmation that made its call, and a resolution to
\* a ticket.
TicketKnown ==
    \A r \in Requests :
        /\ ticket[r] # "absent" => calls[r] # 0
        /\ pc[r] \in {"resolve", "settle"} => job[r].kind = "resolve"
        /\ job[r].kind = "resolve" =>
              job[r].ref \in Requests /\ ticket[job[r].ref] # "absent"

RunInv == TokenInv /\ VersionsGrow /\ PassedIsSeen /\ WithdrawCloses
          /\ EndedIsClosed /\ ReviewIsLate /\ OutcomeKnown /\ TicketKnown

-------------------------------------------------------------------------------
(***************************************************************************)
(* More about single steps of a request                                    *)
(***************************************************************************)

\* Where a request can have come from.
LEMMA AdvancePc ==
    ASSUME TypeInv, NEW r \in Requests, Advance(r)
    PROVE  /\ pc'[r] = "withdraw" => pc[r] \in {"reject", "invalidate"}
           /\ pc'[r] \in {"invalidate", "newest", "resolve"} => pc[r] = "load"
           /\ pc'[r] = "rotate" => pc[r] = "newest"
           /\ pc'[r] = "reissue" => pc[r] = "rotate"
           /\ pc'[r] = "committing" => pc[r] = "consume"
           /\ pc'[r] \in Passing \ {"reread"} => pc[r] \in Passing
           /\ pc'[r] = "reread" => pc[r] = "committing" /\ Fresh(r)
           /\ calls'[r] # calls[r] => pc[r] = "call"
           /\ pc[r] = "finish" => pc'[r] \in {"publish", "error"}
           /\ pc[r] = "reject" /\ pc'[r] = "withdraw" => RejectToken(r) /\ Usable(job[r].ref)
           /\ pc[r] = "invalidate" => InvalidateTokens(r)
           /\ pc'[r] = "reissue" => \E u \in Tokens :
                  token[u] = "waiting" /\ TokenRun(u) = job[r].run
<1> USE DEF TypeInv, TypeOK, Goto, Passing
<1>1. CASE LoadContext(r)
  <2>1. job[r].kind \in Kinds
    BY <1>1 DEF LoadContext, JobKnown, Job
  <2>2. pc'[r] \in {"refused", "token", "newest", "invalidate", "resolve"}
    BY <1>1, <2>1 DEF LoadContext, AfterLoad, Kinds
  <2> QED
    BY <1>1, <2>2 DEF LoadContext, effectVars
<1>2. CASE \/ LoadToken(r) \/ LookupKey(r) \/ RereadVersion(r) \/ Verdict(r)
           \/ Verify(r) \/ OpenTicket(r) \/ InvalidateTokens(r) \/ LoadNewest(r)
           \/ ResolveTicket(r) \/ Publish(r) \/ SetReason(r)
  BY <1>2 DEF LoadToken, LookupKey, RereadVersion, Verdict, Verify, OpenTicket,
      InvalidateTokens, LoadNewest, ResolveTicket, Publish, SetReason, Reused,
      effectVars
<1>3. CASE \/ ConsumeAndReserve(r) \/ StartCommit(r) \/ ObserveCommit(r)
           \/ RejectToken(r) \/ Claim(r)
  BY <1>3 DEF ConsumeAndReserve, StartCommit, ObserveCommit, RejectToken, Claim,
      Reused, effectVars
<1>4. CASE CallAdapter(r)
  BY <1>4 DEF CallAdapter
<1>5. CASE Rotate(r)
  BY <1>5, RotateCases DEF Rotate, effectVars
<1>6. CASE \/ Finish(r) \/ Withdraw(r) \/ Reissue(r) \/ ResolveCheckpoint(r)
  BY <1>6 DEF Finish, Withdraw, Reissue, ResolveCheckpoint, LastCommit, effectVars
<1> QED
  BY <1>1, <1>2, <1>3, <1>4, <1>5, <1>6 DEF Advance

\* Where the version a request holds comes from.
LEMMA AdvanceCtx ==
    ASSUME TypeInv, NEW r \in Requests, Advance(r)
    PROVE  \/ ctx'[r].version = ctx[r].version /\ pc[r] \notin {"reread", "verdict"}
              /\ (pc[r] = "load" => pc'[r] = "refused" /\ UNCHANGED runVars)
           \/ /\ UNCHANGED <<runVars, tokenVars, effectVars>>
              /\ \/ /\ pc[r] \in {"reread", "verdict"}
                    /\ ctx'[r].version = version[job[r].run]
                 \/ /\ pc[r] = "load" /\ pc'[r] = AfterLoad[job[r].kind]
                    /\ ctx'[r] = checkpoint[job[r].run]
                    /\ checkpoint[job[r].run].status \in Resumable(job[r].kind)
                    /\ checkpoint[job[r].run].status # "none"
<1> USE DEF TypeInv, TypeOK, Goto
<1>1. CASE LoadContext(r)
  BY <1>1 DEF LoadContext, Unreadable
<1>2. CASE RereadVersion(r) \/ Verdict(r)
  BY <1>2 DEF RereadVersion, Verdict
<1>3. CASE \/ LoadToken(r) \/ LookupKey(r) \/ ConsumeAndReserve(r)
           \/ StartCommit(r) \/ Claim(r) \/ CallAdapter(r)
           \/ ObserveCommit(r) \/ Verify(r) \/ OpenTicket(r)
           \/ RejectToken(r) \/ InvalidateTokens(r) \/ LoadNewest(r) \/ Rotate(r)
           \/ ResolveTicket(r) \/ Publish(r) \/ SetReason(r)
  BY <1>3 DEF LoadToken, LookupKey, ConsumeAndReserve, StartCommit, Claim,
      CallAdapter, ObserveCommit, Verify, OpenTicket, RejectToken,
      InvalidateTokens, LoadNewest, Rotate, ResolveTicket, Publish, SetReason
<1>4. CASE Finish(r) \/ Withdraw(r) \/ Reissue(r) \/ ResolveCheckpoint(r)
  BY <1>4 DEF Finish, Withdraw, Reissue, ResolveCheckpoint, LastCommit, Context
<1> QED
  BY <1>1, <1>2, <1>3, <1>4 DEF Advance

\* Nobody gets ahead of a run row: versions only grow, and contexts are read
\* from the row or from its checkpoint.
LEMMA VersionsStep == TokenInv /\ VersionsGrow /\ [Next]_vars => VersionsGrow'
<1> SUFFICES ASSUME TokenInv, VersionsGrow, [Next]_vars PROVE VersionsGrow'
  OBVIOUS
<1> USE DEF TokenInv, TypeInv
<1>0. \A q \in Requests : pc[q] # "idle" => job[q].run \in Runs
  BY DEF JobKnown, Job
<1>1. ASSUME NEW k \in Runs, Work(k) PROVE VersionsGrow'
  <2>1. UNCHANGED requestVars
    BY <1>1 DEF Work, IssueToken, PrepareMutation, PublishPrompt, WorkerRaises,
        MarkFailed, PublishFailure, StampFailure
  <2>2. \A run \in Runs : version'[run] >= version[run]
    BY <1>1 DEF Work, IssueToken, PrepareMutation, PublishPrompt, WorkerRaises,
        MarkFailed, PublishFailure, StampFailure, CommitStep, BumpVersion, runVars,
        TypeOK
  <2>3. \A run \in Runs : checkpoint'[run].version <= version'[run]
    <3>1. CASE PrepareMutation(k)
      BY <3>1 DEF PrepareMutation, CommitStep, NoContext, VersionsGrow, TypeOK,
          Context
    <3>2. CASE UNCHANGED checkpoint
      <4>1. \A run \in Runs : /\ version[run] \in Nat /\ version'[run] \in Nat
                              /\ checkpoint[run].version \in Nat
        BY TypeStep DEF TypeOK, Context
      <4> QED
        BY <2>2, <3>2, <4>1 DEF VersionsGrow
    <3> QED
      BY <1>1, <3>1, <3>2 DEF Work, IssueToken, PublishPrompt, WorkerRaises,
        MarkFailed, PublishFailure, StampFailure, runVars
  <2> QED
    BY <1>0, <2>1, <2>2, <2>3, TypeStep DEF VersionsGrow, requestVars, TypeOK,
        Context
<1>2. ASSUME NEW r \in Requests, NEW j \in Job, Begin(r, j) PROVE VersionsGrow'
  BY <1>2 DEF Begin, Goto, VersionsGrow, runVars, Job, TypeOK
<1>3. ASSUME NEW r \in Requests, Advance(r) PROVE VersionsGrow'
  <2> DEFINE mine == job[r].run
  <2>0. mine \in Runs /\ pc[r] # "idle" /\ UNCHANGED job
        /\ \A q \in Requests \ {r} : pc'[q] = pc[q] /\ ctx'[q] = ctx[q]
    BY <1>3, AdvanceFrame
  <2>1. /\ version'[mine] >= version[mine]
        /\ checkpoint'[mine].version <= version'[mine]
    <3>1. CASE UNCHANGED runVars
      BY <2>0, <3>1 DEF runVars, VersionsGrow, TypeOK
    <3>2. CASE UNCHANGED checkpoint /\ version' = [version EXCEPT ![mine] = @ + 1]
      BY <2>0, <3>2 DEF VersionsGrow, TypeOK, Context
    <3>3. ASSUME Fresh(r), NEW next, CommitStep(mine, ctx[r], next)
          PROVE  /\ version'[mine] = version[mine] + 1
                 /\ checkpoint'[mine].version = version[mine] + 1
      BY <2>0, <3>3 DEF CommitStep, Fresh, TypeOK, Context
    <3>4. version[mine] \in Nat
      BY <2>0 DEF TypeOK
    <3> QED
      BY <1>3, <3>1, <3>2, <3>3, <3>4, AdvanceRow
  <2>2. \A run \in Runs : /\ version'[run] >= version[run]
                          /\ checkpoint'[run].version <= version'[run]
    BY <1>3, <2>1, AdvanceFrame DEF VersionsGrow, TypeOK
  <2>3. pc'[r] # "idle" /\ ctx'[r].version <= version'[mine]
    <3>1. pc'[r] # "idle"
      <4>1. pc'[r] = "idle" => job'[r] = NoJob
        BY TypeStep DEF JobKnown
      <4>2. NoJob.run \notin Runs
        BY NoneIsNoName DEF NoJob
      <4> QED
        BY <2>0, <4>1, <4>2
    <3>2. ctx[r].version \in Nat /\ version[mine] \in Nat
          /\ checkpoint[mine].version \in Nat /\ version'[mine] \in Nat
      BY <1>3, <2>0, TypeStep DEF TypeOK, Context, Next
    <3>3. ctx[r].version <= version[mine] /\ checkpoint[mine].version <= version[mine]
      BY <2>0 DEF VersionsGrow
    <3> QED
      BY <1>3, <2>1, <3>1, <3>2, <3>3, AdvanceCtx DEF runVars
  <2>4. \A q \in Requests : ctx[q].version \in Nat
    BY DEF TypeOK, Context
  <2>5. \A run \in Runs : version[run] \in Nat /\ version'[run] \in Nat
    BY TypeStep DEF TypeOK
  <2> QED
    BY <1>0, <2>0, <2>2, <2>3, <2>4, <2>5 DEF VersionsGrow
<1>4. ASSUME NEW t \in Tokens, Lapse(t) PROVE VersionsGrow'
  BY <1>4 DEF Lapse, VersionsGrow, runVars, requestVars
<1>5. CASE CrashRestart
  <2>1. \A run \in Runs : version'[run] >= version[run] /\ version[run] \in Nat
    BY <1>5 DEF CrashRestart, TypeOK
  <2>2. \A q \in Requests : pc'[q] = "idle" <=> pc[q] = "idle"
    BY <1>5 DEF CrashRestart, Serving, TypeOK
  <2>3. UNCHANGED <<checkpoint, job, ctx>>
    BY <1>5 DEF CrashRestart
  <2>4. \A run \in Runs : version'[run] \in Nat /\ checkpoint[run].version \in Nat
    BY TypeStep DEF TypeOK, Context
  <2>5. \A q \in Requests : ctx[q].version \in Nat
    BY DEF TypeOK, Context
  <2> QED
    BY <1>0, <2>1, <2>2, <2>3, <2>4, <2>5 DEF VersionsGrow
<1>6. CASE UNCHANGED vars
  BY <1>6 DEF vars, VersionsGrow
<1> QED
  BY <1>1, <1>2, <1>3, <1>4, <1>5, <1>6 DEF Next

\* A checkpoint, once written, is never replaced by none.
LEMMA CheckpointStays ==
    ASSUME TypeInv, NEW r \in Requests, Advance(r), NEW run \in Runs,
           checkpoint[run].status # "none"
    PROVE  checkpoint'[run].status # "none"
<1>0. job[r].run \in Runs
  BY AdvanceFrame
<1>1. CASE run # job[r].run
  BY <1>1, AdvanceFrame
<1>2. CASE UNCHANGED checkpoint
  BY <1>2
<1>3. ASSUME NEW next \in RunStatus, CommitStep(job[r].run, ctx[r], next),
             run = job[r].run
      PROVE  checkpoint'[run].status # "none"
  BY <1>0, <1>3 DEF CommitStep, TypeInv, TypeOK, RunStatus, Terminal
<1> QED
  BY <1>1, <1>2, <1>3, AdvanceRow DEF runVars

\* Row versions never go back.
LEMMA VersionUp ==
    ASSUME TypeInv, [Next]_vars, NEW run \in Runs
    PROVE  /\ version[run] \in Nat /\ version'[run] \in Nat
           /\ version[run] <= version'[run]
<1>0. version[run] \in Nat /\ version'[run] \in Nat
  BY TypeStep DEF TypeInv, TypeOK
<1> USE DEF TypeInv, TypeOK
<1>1. ASSUME NEW k \in Runs, Work(k) PROVE version[run] <= version'[run]
  BY <1>0, <1>1 DEF Work, IssueToken, PrepareMutation, PublishPrompt, WorkerRaises,
      MarkFailed, PublishFailure, StampFailure, CommitStep, BumpVersion, runVars
<1>2. ASSUME NEW r \in Requests, Advance(r) PROVE version[run] <= version'[run]
  <2>1. CASE UNCHANGED version
    BY <1>0, <2>1
  <2>2. CASE version' = [version EXCEPT ![job[r].run] = @ + 1]
    BY <1>0, <2>2
  <2> QED
    BY <1>2, <2>1, <2>2, AdvanceRow DEF runVars, CommitStep
<1>3. CASE CrashRestart
  BY <1>0, <1>3 DEF CrashRestart
<1>4. CASE UNCHANGED version
  BY <1>0, <1>4
<1> QED
  BY <1>0, <1>1, <1>2, <1>3, <1>4 DEF Next, Begin, Lapse, runVars, vars

\* Nothing has happened on a run whose worker has not written its checkpoint.
LEMMA NotYetPassed ==
    ASSUME TokenInv, NEW run \in Runs, checkpoint[run].status = "none",
           NEW r \in Requests, job[r].run = run
    PROVE  ~Passed(r) /\ pc[r] \in {"load", "refused", "crashed"}
BY DEF TokenInv, NoCheckpointYet, On, StepShape, Passed, Passing

\* A confirmation that moves a run makes stale everyone who saw it waiting.
LEMMA PassedStep ==
    TokenInv /\ VersionsGrow /\ PassedIsSeen /\ [Next]_vars => PassedIsSeen'
<1> SUFFICES ASSUME TokenInv, VersionsGrow, PassedIsSeen, [Next]_vars,
                    NEW x \in Requests, Passed(x)'
             PROVE  /\ checkpoint'[job'[x].run].status # "waiting_confirmation"
                    /\ \A w \in Requests :
                          job'[w].run = job'[x].run /\ FromWaiting(w)' =>
                              ctx'[w].version < version'[job'[x].run]
  BY DEF PassedIsSeen
<1> USE DEF TokenInv, TypeInv
<1> DEFINE X == job[x].run
<1>0. /\ \A q \in Requests : ctx[q].version \in Nat
      /\ \A q \in Requests : pc[q] # "idle" => job[q].run \in Runs
      /\ pc[x] # "idle" => X \in Runs
  BY DEF TypeOK, Context, JobKnown, Job
<1>1. ASSUME NEW k \in Runs, Work(k)
      PROVE  /\ checkpoint'[job'[x].run].status # "waiting_confirmation"
             /\ \A w \in Requests :
                   job'[w].run = job'[x].run /\ FromWaiting(w)' =>
                       ctx'[w].version < version'[job'[x].run]
  <2>1. UNCHANGED <<requestVars, calls>>
    BY <1>1 DEF Work, IssueToken, PrepareMutation, PublishPrompt, WorkerRaises,
        MarkFailed, PublishFailure, StampFailure, effectVars
  <2>2. Passed(x) /\ \A w \in Requests : FromWaiting(w)' <=> FromWaiting(w)
    BY <2>1 DEF Passed, FromWaiting, requestVars
  <2>3. pc[x] # "idle"
    BY <2>2 DEF Passed, Passing, StepShape
  <2>4. checkpoint'[X].status # "waiting_confirmation"
    <3>1. CASE UNCHANGED checkpoint
      BY <2>2, <3>1 DEF PassedIsSeen
    <3>2. CASE PrepareMutation(k)
      <4>1. checkpoint[k].status = "none"
        BY <3>2 DEF PrepareMutation, NoCheckpointYet
      <4>2. X # k
        BY <2>2, <4>1, NotYetPassed
      <4> QED
        BY <1>0, <2>2, <2>3, <3>2, <4>2
        DEF PrepareMutation, CommitStep, PassedIsSeen, TypeOK
    <3> QED
      BY <1>1, <3>1, <3>2 DEF Work, IssueToken, PublishPrompt, WorkerRaises,
          MarkFailed, PublishFailure, StampFailure, runVars
  <2> QED
    BY <1>0, <2>1, <2>2, <2>3, <2>4, VersionUp DEF PassedIsSeen, requestVars
<1>2. ASSUME NEW r \in Requests, NEW j \in Job, Begin(r, j)
      PROVE  /\ checkpoint'[job'[x].run].status # "waiting_confirmation"
             /\ \A w \in Requests :
                   job'[w].run = job'[x].run /\ FromWaiting(w)' =>
                       ctx'[w].version < version'[job'[x].run]
  <2>1. calls[r] = 0
    BY <1>2 DEF Begin, StepShape, Passing
  <2>2. pc' = [pc EXCEPT ![r] = "load"] /\ UNCHANGED <<runVars, calls, ctx>>
        /\ job' = [job EXCEPT ![r] = j]
    BY <1>2 DEF Begin, Goto, effectVars
  <2>3. x # r /\ Passed(x) /\ job'[x] = job[x]
    BY <2>1, <2>2 DEF Passed, Passing, TypeOK
  <2>4. \A w \in Requests : FromWaiting(w)' =>
            w # r /\ FromWaiting(w) /\ job'[w] = job[w]
    BY <2>2 DEF FromWaiting, TypeOK
  <2> QED
    BY <2>2, <2>3, <2>4 DEF PassedIsSeen, runVars
<1>3. ASSUME NEW r \in Requests, Advance(r)
      PROVE  /\ checkpoint'[job'[x].run].status # "waiting_confirmation"
             /\ \A w \in Requests :
                   job'[w].run = job'[x].run /\ FromWaiting(w)' =>
                       ctx'[w].version < version'[job'[x].run]
  <2> DEFINE mine == job[r].run
  <2>0. /\ mine \in Runs /\ UNCHANGED job /\ pc[r] # "idle" /\ job[r] \in Job
        /\ \A q \in Requests \ {r} : pc'[q] = pc[q] /\ ctx'[q] = ctx[q]
                                     /\ calls'[q] = calls[q]
    BY <1>3, AdvanceFrame
  <2>1. CASE Passed(x)
    <3>1. X \in Runs
      BY <1>0, <2>1 DEF Passed, Passing, StepShape
    <3>2. checkpoint'[X].status # "waiting_confirmation"
      <4>1. CASE mine # X \/ UNCHANGED checkpoint
        BY <1>3, <2>1, <3>1, <4>1, AdvanceFrame DEF PassedIsSeen
      <4>2. ASSUME mine = X, Fresh(r), NEW next \in RunStatus,
                   CommitStep(mine, ctx[r], next), next = "waiting_confirmation",
                   pc[r] = "reissue"
            PROVE  FALSE
        <5>1. ctx[r].version < version[X]
          BY <2>1, <4>2 DEF PassedIsSeen, FromWaiting
        <5> QED
          BY <3>1, <4>2, <5>1 DEF Fresh, TypeOK, Context
      <4>3. ASSUME mine = X, NEW next \in RunStatus,
                   CommitStep(mine, ctx[r], next), next # "waiting_confirmation"
            PROVE  checkpoint'[X].status # "waiting_confirmation"
        BY <3>1, <4>3 DEF CommitStep, TypeOK
      <4>4. FinalStatus(r) # "waiting_confirmation"
        BY DEF FinalStatus
      <4> QED
        BY <1>3, <4>1, <4>2, <4>3, <4>4, AdvanceRow DEF runVars
    <3>3. ASSUME NEW w \in Requests, job[w].run = X, FromWaiting(w)'
          PROVE  ctx'[w].version < version'[X]
      <4>1. CASE FromWaiting(w) /\ ctx'[w].version = ctx[w].version
        <5>1. ctx[w].version < version[X]
          BY <2>1, <3>3, <4>1 DEF PassedIsSeen
        <5> QED
          BY <1>0, <3>1, <4>1, <5>1, VersionUp
      <4>2. CASE w # r
        BY <2>0, <3>3, <4>1, <4>2 DEF FromWaiting
      <4>3. CASE w = r /\ pc[r] # "load"
        <5>1. pc'[r] # "withdraw" => FromWaiting(r)
          BY <1>3, <3>3, <4>3, AdvancePc DEF FromWaiting
        <5>2. pc'[r] = "withdraw" => pc[r] = "invalidate"
          BY <1>3, <2>0, <3>3, <4>3, AdvancePc DEF FromWaiting, StepShape
        <5>3. FromWaiting(r) /\ pc[r] \notin {"reread", "verdict"}
          BY <5>1, <5>2 DEF FromWaiting
        <5> QED
          BY <1>3, <4>1, <4>3, <5>3, AdvanceCtx
      <4>4. CASE w = r /\ pc[r] = "load"
        <5>1. pc'[r] \in {"invalidate", "newest"}
          BY <1>3, <3>3, <4>4, AdvancePc DEF FromWaiting
        <5>2. pc'[r] = AfterLoad[job[r].kind]
              /\ checkpoint[mine].status \in Resumable(job[r].kind)
          BY <1>3, <4>4, <5>1, AdvanceCtx
        <5>3. job[r].kind \in {"cancel", "refresh"}
          BY <2>0, <5>1, <5>2 DEF AfterLoad, Job, Kinds
        <5>4. checkpoint[mine].status = "waiting_confirmation"
          BY <5>2, <5>3 DEF Resumable
        <5> QED
          BY <2>1, <3>3, <4>4, <5>4 DEF PassedIsSeen
      <4> QED
        BY <4>2, <4>3, <4>4
    <3> QED
      BY <2>0, <3>2, <3>3
  <2>2. CASE ~Passed(x)
    <3>1. x = r /\ pc[r] = "committing" /\ pc'[r] = "reread" /\ Fresh(r)
      <4>1. x = r
        BY <2>0, <2>2 DEF Passed
      <4>2. pc'[r] \in Passing
        <5>1. calls'[r] = calls[r]
          BY <1>3, <2>2, <4>1, AdvancePc DEF Passed, Passing
        <5> QED
          BY <2>2, <4>1, <5>1 DEF Passed
      <4> QED
        BY <1>3, <2>2, <4>1, <4>2, AdvancePc DEF Passed
    <3>2. StartCommit(r)
      BY <1>3, <3>1 DEF Advance, LoadContext, LoadToken, LookupKey,
          ConsumeAndReserve, RereadVersion, Claim, CallAdapter, ObserveCommit,
          Verdict, Verify, OpenTicket, Finish, RejectToken, InvalidateTokens,
          Withdraw, LoadNewest, Rotate, Reissue, ResolveCheckpoint, ResolveTicket,
          Publish, SetReason
    <3>3. checkpoint'[mine].status = "committing" /\ version'[mine] = version[mine] + 1
      BY <2>0, <3>1, <3>2 DEF StartCommit, CommitStep, TypeOK
    <3>4. ASSUME NEW w \in Requests, job[w].run = mine, FromWaiting(w)'
          PROVE  ctx'[w].version < version'[mine]
      <4>1. w # r
        BY <3>1, <3>4 DEF FromWaiting
      <4>2. pc[w] # "idle" /\ ctx'[w].version = ctx[w].version
        BY <2>0, <3>4, <4>1 DEF FromWaiting
      <4>3. ctx[w].version <= version[mine]
        BY <3>4, <4>2 DEF VersionsGrow
      <4> QED
        BY <1>0, <2>0, <3>3, <4>2, <4>3 DEF TypeOK
    <3> QED
      BY <2>0, <3>1, <3>3, <3>4
  <2> QED
    BY <2>1, <2>2
<1>4. CASE \E t \in Tokens : Lapse(t)
  BY <1>4 DEF Lapse, PassedIsSeen, Passed, FromWaiting, runVars, effectVars,
      requestVars
<1>5. CASE CrashRestart
  <2>1. calls[x] # 0 /\ UNCHANGED <<job, ctx, calls, checkpoint>>
    BY <1>5 DEF CrashRestart, Passed, Passing, Serving, effectVars, TypeOK
  <2>2. \A w \in Requests : ~FromWaiting(w)'
    BY <1>5 DEF CrashRestart, FromWaiting, Serving, TypeOK
  <2> QED
    BY <2>1, <2>2 DEF PassedIsSeen, Passed
<1>6. CASE UNCHANGED vars
  BY <1>6 DEF vars, PassedIsSeen, Passed, FromWaiting
<1> QED
  BY <1>1, <1>2, <1>3, <1>4, <1>5, <1>6 DEF Next

\* Rejecting a token and invalidating all of them both leave none to use.
LEMMA WithdrawStep ==
    ASSUME "invalidate" \notin Faults
    PROVE  TokenInv /\ WithdrawCloses /\ [Next]_vars => WithdrawCloses'
<1> SUFFICES ASSUME TokenInv, WithdrawCloses, [Next]_vars,
                    NEW w \in Requests, pc'[w] = "withdraw"
             PROVE  /\ job'[w].kind \in {"cancel", "reject"}
                    /\ checkpoint'[job'[w].run].status # "none"
                    /\ \A t \in Tokens :
                          token'[t] = "waiting" => TokenRun(t)' # job'[w].run
                    /\ job'[w].kind = "reject" =>
                          \A r \in Requests :
                              record'[r] # "absent" => job'[r].run # job'[w].run
  BY DEF WithdrawCloses
<1> USE DEF TokenInv, TypeInv
<1> DEFINE W == job[w].run
           Closed == /\ job'[w].kind \in {"cancel", "reject"}
                     /\ checkpoint'[job'[w].run].status # "none"
                     /\ \A t \in Tokens :
                           token'[t] = "waiting" => TokenRun(t)' # job'[w].run
                     /\ job'[w].kind = "reject" =>
                           \A r \in Requests :
                               record'[r] # "absent" => job'[r].run # job'[w].run
<1>0. \A q \in Requests : pc[q] # "idle" => job[q] \in Job /\ job[q].run \in Runs
  BY DEF JobKnown, Job
<1>1. ASSUME NEW k \in Runs, Work(k) PROVE Closed
  <2>1. UNCHANGED <<pc, job, record>>
    BY <1>1 DEF Work, IssueToken, PrepareMutation, PublishPrompt, WorkerRaises,
        MarkFailed, PublishFailure, StampFailure, effectVars, requestVars
  <2>2. W \in Runs /\ checkpoint[W].status # "none"
    BY <1>0, <2>1 DEF WithdrawCloses
  <2>3. checkpoint'[W].status # "none"
    BY <1>1, <2>2 DEF Work, IssueToken, PrepareMutation, PublishPrompt, WorkerRaises,
        MarkFailed, PublishFailure, StampFailure, runVars, CommitStep, TypeOK
  <2>4. ASSUME NEW t \in Tokens, token'[t] = "waiting" PROVE TokenRun(t) # W
    <3>1. CASE token[t] = "waiting"
      BY <2>1, <3>1 DEF WithdrawCloses
    <3>2. CASE token[t] # "waiting"
      <4>1. t = k /\ worker[k] = "issue"
        BY <1>1, <2>4, <3>2 DEF Work, IssueToken, PrepareMutation, PublishPrompt,
            WorkerRaises, MarkFailed, PublishFailure, StampFailure, tokenVars, TypeOK
      <4>2. checkpoint[k].status = "none"
        BY <4>1 DEF NoCheckpointYet
      <4> QED
        BY <2>2, <4>1, <4>2 DEF TokenRun
    <3> QED
      BY <3>1, <3>2
  <2>5. \A t \in Tokens : TokenRun(t)' = TokenRun(t)
    BY <2>1 DEF TokenRun
  <2> QED
    BY <2>1, <2>3, <2>4, <2>5 DEF WithdrawCloses
<1>2. ASSUME NEW r \in Requests, NEW j \in Job, Begin(r, j) PROVE Closed
  <2>1. /\ pc' = [pc EXCEPT ![r] = "load"] /\ job' = [job EXCEPT ![r] = j]
        /\ UNCHANGED <<token, record, checkpoint>> /\ pc[r] = "idle"
    BY <1>2 DEF Begin, Goto, effectVars, tokenVars, runVars
  <2>2. w # r /\ pc[w] = "withdraw" /\ job'[w] = job[w]
    BY <2>1 DEF TypeOK
  <2>3. token[r] = "absent" /\ record[r] = "absent"
    BY <2>1 DEF StepShape, Passing
  <2>4. \A t \in Tokens \ {r} : TokenRun(t)' = TokenRun(t)
    BY <2>1 DEF TokenRun, TypeOK, Tokens
  <2>5. \A q \in Requests \ {r} : job'[q] = job[q]
    BY <2>1 DEF TypeOK
  <2> QED
    BY <2>1, <2>2, <2>3, <2>4, <2>5 DEF WithdrawCloses
<1>3. ASSUME NEW r \in Requests, Advance(r) PROVE Closed
  <2> DEFINE mine == job[r].run
  <2>0. /\ mine \in Runs /\ UNCHANGED job /\ pc[r] # "idle" /\ job[r] \in Job
        /\ \A q \in Requests \ {r} : pc'[q] = pc[q] /\ record'[q] = record[q]
    BY <1>3, AdvanceFrame
  <2>1. \A t \in Tokens : TokenRun(t)' = TokenRun(t)
    BY <2>0 DEF TokenRun
  <2>2. TokenRun(r) = mine
    BY NamesDistinct DEF TokenRun
  <2>3. CASE w # r
    <3>1. pc[w] = "withdraw" /\ W \in Runs
      BY <1>0, <2>0, <2>3
    <3>2. checkpoint'[W].status # "none"
      BY <1>3, <3>1, CheckpointStays DEF WithdrawCloses
    <3>3. ASSUME NEW t \in Tokens, token'[t] = "waiting" PROVE TokenRun(t) # W
      BY <1>3, <2>2, <3>1, <3>3, AdvanceTokens DEF WithdrawCloses
    <3>4. ASSUME NEW q \in Requests, record'[q] # "absent", job[w].kind = "reject"
          PROVE  job[q].run # W
      <4>1. CASE record[q] # "absent"
        BY <3>1, <3>4, <4>1 DEF WithdrawCloses
      <4>2. CASE record[q] = "absent"
        <5>1. q = r /\ pc[r] = "consume" /\ token[job[r].ref] = "waiting"
          BY <1>3, <2>0, <3>4, <4>2, AdvanceRecords
        <5>2. job[r].ref \in Tokens /\ TokenRun(job[r].ref) = mine
          BY <5>1 DEF StepShape, Tokens
        <5> QED
          BY <3>1, <5>1, <5>2 DEF WithdrawCloses
      <4> QED
        BY <4>1, <4>2
    <3> QED
      BY <2>0, <2>1, <3>1, <3>2, <3>3, <3>4 DEF WithdrawCloses
  <2>4. CASE w = r
    <3>0. pc[r] \in {"reject", "invalidate"} /\ checkpoint[mine].status # "none"
      <4>1. pc[r] \in {"reject", "invalidate"}
        BY <1>3, <2>4, AdvancePc
      <4> QED
        BY <2>0, <4>1 DEF NoCheckpointYet, On
    <3>1. checkpoint'[mine].status # "none"
      BY <1>3, <2>0, <3>0, CheckpointStays
    <3>2. CASE pc[r] = "reject"
      <4>1. RejectToken(r) /\ Usable(job[r].ref)
        BY <1>3, <2>4, <3>2, AdvancePc
      <4>2. job[r].ref \in Tokens /\ TokenRun(job[r].ref) = mine
            /\ job[r].kind = "reject"
        BY <3>2 DEF StepShape, Tokens
      <4>3. token[job[r].ref] = "waiting" /\ UNCHANGED record
            /\ token' = [token EXCEPT ![job[r].ref] = "rejected"]
        BY <4>1 DEF RejectToken, Usable, effectVars
      <4>4. ASSUME NEW t \in Tokens, token'[t] = "waiting" PROVE TokenRun(t) # mine
        BY <4>2, <4>3, <4>4 DEF OneChance, TypeOK
      <4>5. ASSUME NEW q \in Requests, record[q] # "absent" PROVE job[q].run # mine
        BY <4>2, <4>3, <4>5 DEF OneChance
      <4> QED
        BY <2>0, <2>1, <2>4, <3>1, <4>2, <4>3, <4>4, <4>5
    <3>3. CASE pc[r] = "invalidate"
      <4>1. InvalidateTokens(r) /\ job[r].kind = "cancel"
        BY <1>3, <3>3, AdvancePc DEF StepShape
      <4>2. \A t \in Tokens : token'[t] = "waiting" => TokenRun(t) # mine
        BY <4>1 DEF InvalidateTokens
      <4> QED
        BY <2>0, <2>1, <2>4, <3>1, <4>1, <4>2
    <3> QED
      BY <3>0, <3>2, <3>3
  <2> QED
    BY <2>3, <2>4
<1>4. CASE \E t \in Tokens : Lapse(t)
  BY <1>4 DEF Lapse, WithdrawCloses, TokenRun, runVars, effectVars, requestVars
<1>5. CASE CrashRestart
  BY <1>5 DEF CrashRestart, Serving, TypeOK
<1>6. CASE UNCHANGED vars
  BY <1>6 DEF vars, WithdrawCloses, TokenRun
<1> QED
  BY <1>1, <1>2, <1>3, <1>4, <1>5, <1>6 DEF Next

\* Which runs end is decided by three steps, each of which finds every token
\* closed and every rival confirmation either absent or unable to write.
LEMMA EndingStep ==
    ASSUME TokenInv, VersionsGrow, PassedIsSeen, WithdrawCloses, ReviewIsLate,
           NEW r \in Requests, Advance(r), Fresh(r),
           NEW next \in {"cancelled", "completed"},
           \/ pc[r] = "finish" /\ next = "completed"
           \/ pc[r] = "withdraw" /\ next = "cancelled"
           \/ pc[r] = "resolve" /\ next = "completed"
    PROVE  /\ \A t \in Tokens : token[t] = "waiting" => TokenRun(t) # job[r].run
           /\ \A q \in Requests \ {r} : On(q, job[r].run) => pc[q] \notin Passing
           /\ next = "cancelled" =>
                 \A q \in Requests : On(q, job[r].run) => calls[q] = 0
<1> USE DEF TokenInv, TypeInv
<1>0. job[r].run \in Runs
  BY AdvanceFrame
<1>1. CASE pc[r] = "finish"
  <2>1. record[r] # "absent"
    BY <1>1 DEF StepShape, Passing
  <2>2. \A t \in Tokens : token[t] = "waiting" => TokenRun(t) # job[r].run
    BY <2>1 DEF OneChance
  <2>3. \A q \in Requests \ {r} : On(q, job[r].run) => record[q] = "absent"
    BY <2>1 DEF OneChance, On
  <2>4. \A q \in Requests \ {r} : On(q, job[r].run) => pc[q] \notin Passing
    BY <2>3 DEF StepShape
  <2> QED
    BY <1>1, <2>2, <2>4
<1>2. CASE pc[r] = "withdraw"
  <2>1. \A t \in Tokens : token[t] = "waiting" => TokenRun(t) # job[r].run
    BY <1>2 DEF WithdrawCloses
  <2>2. ASSUME NEW q \in Requests, On(q, job[r].run) PROVE ~Passed(q)
    <3>1. CASE job[r].kind = "reject"
      <4>1. record[q] = "absent"
        BY <1>2, <2>2, <3>1 DEF WithdrawCloses, On
      <4> QED
        BY <4>1 DEF StepShape, Passed
    <3>2. CASE job[r].kind = "cancel"
      <4>1. Passed(q) => ctx[r].version < version[job[r].run]
        BY <1>2, <2>2, <3>2 DEF PassedIsSeen, FromWaiting, On
      <4> QED
        BY <1>0, <4>1 DEF Fresh, TypeOK, Context
    <3> QED
      BY <1>2, <3>1, <3>2 DEF WithdrawCloses
  <2> QED
    BY <2>1, <2>2 DEF Passed
<1>3. CASE pc[r] = "resolve"
  <2>1. UnderReview(job[r].run)
    BY <1>3 DEF UnderReview, On
  <2>2. PICK h \in Requests : On(h, job[r].run) /\ record[h] # "absent"
    BY <1>0, <2>1 DEF ReviewIsLate
  <2>3. \A t \in Tokens : token[t] = "waiting" => TokenRun(t) # job[r].run
    BY <2>2 DEF OneChance, On
  <2>4. \A q \in Requests : On(q, job[r].run) => pc[q] \notin Passing
    BY <1>0, <2>1 DEF ReviewIsLate
  <2> QED
    BY <1>3, <2>3, <2>4
<1> QED
  BY <1>1, <1>2, <1>3

\* Where a request that works on an ended run can get.
LEMMA EndedAdvance ==
    ASSUME TokenInv, EndedIsClosed, NEW r \in Requests, Advance(r),
           status[job[r].run] \in {"cancelled", "completed"}
    PROVE  /\ UNCHANGED <<status, checkpoint>>
           /\ calls'[r] = calls[r]
           /\ pc'[r] \notin Passing
           /\ pc'[r] \in Pending =>
                 pc[r] \in Pending /\ ctx'[r].version = ctx[r].version
<1> USE DEF TokenInv, TypeInv
<1> DEFINE mine == job[r].run
<1>0. mine \in Runs /\ job[r] \in Job /\ On(r, mine)
  BY AdvanceFrame DEF On
<1>1. /\ pc[r] \notin Passing
      /\ pc[r] \in Pending => ctx[r].version < version[mine]
      /\ checkpoint[mine].status = status[mine]
      /\ \A t \in Tokens : token[t] = "waiting" => TokenRun(t) # mine
  BY <1>0 DEF EndedIsClosed
<1>2. pc[r] \in Pending => ~Fresh(r)
  BY <1>0, <1>1 DEF Fresh, TypeOK, Context
<1>3. UNCHANGED <<status, checkpoint>>
  BY <1>1, <1>2, AdvanceRow DEF Pending, Passing, runVars
<1>4. calls'[r] = calls[r]
  BY <1>1, AdvancePc DEF Passing
<1>5. pc'[r] \notin Passing
  BY <1>1, <1>2, AdvancePc DEF Pending
<1>6. ASSUME pc'[r] \in Pending
      PROVE  pc[r] \in Pending /\ ctx'[r].version = ctx[r].version
  <2>1. pc'[r] # "committing"
    <3> SUFFICES ASSUME pc'[r] = "committing" PROVE FALSE
      OBVIOUS
    <3>1. pc[r] = "consume"
      BY AdvancePc
    <3>2. record[r] = "absent"
      BY <3>1 DEF StepShape, Passing
    <3>3. record'[r] # "absent"
      BY ShapeStep DEF Next, StepShape
    <3>4. token[job[r].ref] = "waiting"
      BY <3>2, <3>3, AdvanceRecords
    <3> QED
      BY <1>1, <3>1, <3>4 DEF StepShape, Tokens
  <2>2. pc'[r] \notin {"invalidate", "resolve"}
    <3> SUFFICES ASSUME pc'[r] \in {"invalidate", "resolve"} PROVE FALSE
      OBVIOUS
    <3>1. pc[r] = "load"
      BY AdvancePc
    <3>2. pc'[r] = AfterLoad[job[r].kind]
          /\ checkpoint[mine].status \in Resumable(job[r].kind)
      BY <3>1, AdvanceCtx
    <3>3. job[r].kind \in {"cancel", "resolve"}
      BY <1>0, <3>2 DEF AfterLoad, Job, Kinds
    <3> QED
      BY <1>1, <3>2, <3>3 DEF Resumable
  <2>3. pc'[r] # "reissue"
    BY <1>1, AdvancePc
  <2>4. pc'[r] = "withdraw" => pc[r] = "invalidate"
    <3>1. ASSUME pc[r] = "reject", pc'[r] = "withdraw" PROVE FALSE
      <4>1. token[job[r].ref] = "waiting"
        BY <3>1, AdvancePc DEF Usable
      <4> QED
        BY <1>1, <3>1, <4>1 DEF StepShape, Tokens
    <3> QED
      BY <3>1, AdvancePc
  <2>5. pc[r] = "invalidate"
    BY <1>6, <2>1, <2>2, <2>3, <2>4 DEF Pending
  <2> QED
    BY <2>5, AdvanceCtx DEF Pending
<1> QED
  BY <1>3, <1>4, <1>5, <1>6

\* A run that is cancelled or completed is closed, and stays closed.
LEMMA EndedStep ==
    TokenInv /\ VersionsGrow /\ PassedIsSeen /\ WithdrawCloses /\ ReviewIsLate
        /\ EndedIsClosed /\ [Next]_vars => EndedIsClosed'
<1> SUFFICES ASSUME TokenInv, VersionsGrow, PassedIsSeen, WithdrawCloses,
                    ReviewIsLate, EndedIsClosed, [Next]_vars,
                    NEW run \in Runs, status'[run] \in {"cancelled", "completed"}
             PROVE  /\ checkpoint'[run].status = status'[run]
                    /\ \A t \in Tokens :
                          token'[t] = "waiting" => TokenRun(t)' # run
                    /\ \A q \in Requests : job'[q].run = run =>
                          /\ pc'[q] \notin Passing
                          /\ pc'[q] \in Pending => ctx'[q].version < version'[run]
                          /\ status'[run] = "cancelled" => calls'[q] = 0
  BY DEF EndedIsClosed, On
<1> USE DEF TokenInv, TypeInv
<1> DEFINE Closed == /\ checkpoint'[run].status = status'[run]
                     /\ \A t \in Tokens :
                           token'[t] = "waiting" => TokenRun(t)' # run
                     /\ \A q \in Requests : job'[q].run = run =>
                           /\ pc'[q] \notin Passing
                           /\ pc'[q] \in Pending => ctx'[q].version < version'[run]
                           /\ status'[run] = "cancelled" => calls'[q] = 0
<1>0. /\ \A q \in Requests : ctx[q].version \in Nat
      /\ version[run] \in Nat /\ version'[run] \in Nat
      /\ version[run] <= version'[run]
  BY VersionUp DEF TypeOK, Context
<1>1. ASSUME NEW k \in Runs, Work(k) PROVE Closed
  <2>1. UNCHANGED <<pc, job, ctx, calls>>
    BY <1>1 DEF Work, IssueToken, PrepareMutation, PublishPrompt, WorkerRaises,
        MarkFailed, PublishFailure, StampFailure, effectVars, requestVars
  <2>2. status[run] = status'[run] /\ checkpoint'[run] = checkpoint[run]
    BY <1>1 DEF Work, IssueToken, PrepareMutation, PublishPrompt, WorkerRaises,
        MarkFailed, PublishFailure, StampFailure, runVars, CommitStep, TypeOK
  <2>3. ASSUME NEW t \in Tokens, token'[t] = "waiting" PROVE TokenRun(t) # run
    <3>1. CASE token[t] = "waiting"
      BY <2>2, <3>1 DEF EndedIsClosed
    <3>2. CASE token[t] # "waiting"
      <4>1. t = k /\ worker[k] = "issue"
        BY <1>1, <2>3, <3>2 DEF Work, IssueToken, PrepareMutation, PublishPrompt,
            WorkerRaises, MarkFailed, PublishFailure, StampFailure, tokenVars, TypeOK
      <4>2. checkpoint[k].status = "none"
        BY <4>1 DEF NoCheckpointYet
      <4> QED
        BY <2>2, <4>1, <4>2 DEF TokenRun, EndedIsClosed
    <3> QED
      BY <3>1, <3>2
  <2>4. \A t \in Tokens : TokenRun(t)' = TokenRun(t)
    BY <2>1 DEF TokenRun
  <2>5. ASSUME NEW q \in Requests, job[q].run = run
        PROVE  /\ pc[q] \notin Passing
               /\ pc[q] \in Pending => ctx[q].version < version'[run]
               /\ status[run] = "cancelled" => calls[q] = 0
    BY <1>0, <2>2, <2>5 DEF EndedIsClosed, On
  <2>6. checkpoint[run].status = status[run]
    BY <2>2 DEF EndedIsClosed
  <2> QED
    BY <2>1, <2>2, <2>3, <2>4, <2>5, <2>6
<1>2. ASSUME NEW r \in Requests, NEW j \in Job, Begin(r, j) PROVE Closed
  <2>1. /\ pc' = [pc EXCEPT ![r] = "load"] /\ job' = [job EXCEPT ![r] = j]
        /\ UNCHANGED <<token, calls, ctx, runVars>> /\ pc[r] = "idle"
    BY <1>2 DEF Begin, Goto, effectVars, tokenVars
  <2>2. token[r] = "absent" /\ calls[r] = 0
    BY <2>1 DEF StepShape, Passing
  <2>3. \A t \in Tokens \ {r} : TokenRun(t)' = TokenRun(t)
    BY <2>1 DEF TokenRun, TypeOK, Tokens
  <2>4. \A q \in Requests \ {r} : job'[q] = job[q] /\ pc'[q] = pc[q]
    BY <2>1 DEF TypeOK
  <2>5. pc'[r] = "load"
    BY <2>1 DEF TypeOK
  <2> QED
    BY <2>1, <2>2, <2>3, <2>4, <2>5 DEF EndedIsClosed, On, Passing, Pending, runVars
<1>3. ASSUME NEW r \in Requests, Advance(r) PROVE Closed
  <2> DEFINE mine == job[r].run
  <2>0. /\ mine \in Runs /\ UNCHANGED job
        /\ \A q \in Requests \ {r} : /\ pc'[q] = pc[q] /\ ctx'[q] = ctx[q]
                                     /\ calls'[q] = calls[q]
    BY <1>3, AdvanceFrame
  <2>1. \A t \in Tokens : TokenRun(t)' = TokenRun(t)
    BY <2>0 DEF TokenRun
  <2>2. TokenRun(r) = mine
    BY NamesDistinct DEF TokenRun
  <2>3. CASE mine # run
    <3>1. status'[run] = status[run] /\ version'[run] = version[run]
          /\ checkpoint'[run] = checkpoint[run]
      BY <1>3, <2>3, AdvanceFrame
    <3>2. ASSUME NEW t \in Tokens, token'[t] = "waiting" PROVE TokenRun(t) # run
      BY <1>3, <2>2, <2>3, <3>1, <3>2, AdvanceTokens DEF EndedIsClosed
    <3>3. \A q \in Requests : job[q].run = run => q # r
      BY <2>3
    <3> QED
      BY <2>0, <2>1, <3>1, <3>2, <3>3 DEF EndedIsClosed, On
  <2>4. CASE mine = run /\ status[run] \in {"cancelled", "completed"}
    <3>1. /\ UNCHANGED <<status, checkpoint>>
          /\ calls'[r] = calls[r]
          /\ pc'[r] \notin Passing
          /\ pc'[r] \in Pending =>
                pc[r] \in Pending /\ ctx'[r].version = ctx[r].version
      BY <1>3, <2>4, EndedAdvance
    <3>2. ASSUME NEW t \in Tokens, token'[t] = "waiting" PROVE TokenRun(t) # run
      BY <1>3, <2>4, <3>2, AdvanceTokens DEF EndedIsClosed
    <3>3. ASSUME NEW q \in Requests, job[q].run = run
          PROVE  /\ pc'[q] \notin Passing
                 /\ pc'[q] \in Pending => ctx'[q].version < version'[run]
                 /\ status[run] = "cancelled" => calls'[q] = 0
      <4>1. /\ pc[q] \notin Passing
            /\ pc[q] \in Pending => ctx[q].version < version[run]
            /\ status[run] = "cancelled" => calls[q] = 0
        BY <2>4, <3>3 DEF EndedIsClosed, On
      <4>2. CASE q = r
        BY <1>0, <3>1, <4>1, <4>2
      <4>3. CASE q # r
        BY <1>0, <2>0, <4>1, <4>3
      <4> QED
        BY <4>2, <4>3
    <3> QED
      BY <2>0, <2>1, <2>4, <3>1, <3>2, <3>3 DEF EndedIsClosed
  <2>5. CASE mine = run /\ status[run] \notin {"cancelled", "completed"}
    <3>1. PICK next \in RunStatus :
              /\ Fresh(r)
              /\ CommitStep(run, ctx[r], next)
              /\ \/ pc[r] = "committing" /\ next = "committing"
                 \/ pc[r] = "observe" /\ next \in {"failed", "verifying"}
                 \/ pc[r] = "finish" /\ next = FinalStatus(r)
                 \/ pc[r] = "withdraw" /\ next = "cancelled"
                 \/ pc[r] = "reissue" /\ next = "waiting_confirmation"
                 \/ pc[r] = "resolve" /\ next \in {"completed", "failed"}
      BY <1>3, <2>5, AdvanceRow DEF runVars
    <3>2. /\ status'[run] = next /\ checkpoint'[run].status = next
          /\ version'[run] = version[run] + 1
      BY <3>1 DEF CommitStep, TypeOK
    <3>3. next \in {"cancelled", "completed"}
      BY <3>2
    <3>4. \/ pc[r] = "finish" /\ next = "completed"
          \/ pc[r] = "withdraw" /\ next = "cancelled"
          \/ pc[r] = "resolve" /\ next = "completed"
      BY <3>1, <3>3 DEF FinalStatus
    <3>5. /\ \A t \in Tokens : token[t] = "waiting" => TokenRun(t) # run
          /\ \A q \in Requests \ {r} : On(q, run) => pc[q] \notin Passing
          /\ next = "cancelled" =>
                \A q \in Requests : On(q, run) => calls[q] = 0
      BY <1>3, <2>5, <3>1, <3>3, <3>4, EndingStep
    <3>6. ASSUME NEW t \in Tokens, token'[t] = "waiting" PROVE TokenRun(t) # run
      BY <1>3, <3>4, <3>5, <3>6, AdvanceTokens
    <3>7. pc'[r] \notin Passing \cup Pending /\ calls'[r] = calls[r]
      <4>1. calls'[r] = calls[r]
        BY <1>3, <3>4, AdvancePc
      <4>2. pc'[r] \notin Passing
        BY <1>3, <3>4, AdvancePc DEF Passing
      <4>3. pc'[r] \notin Pending
        BY <1>3, <3>4, AdvancePc DEF Pending
      <4> QED
        BY <4>1, <4>2, <4>3
    <3>8. ASSUME NEW q \in Requests, job[q].run = run
          PROVE  /\ pc'[q] \notin Passing
                 /\ pc'[q] \in Pending => ctx'[q].version < version'[run]
                 /\ next = "cancelled" => calls'[q] = 0
      <4>1. CASE q = r
        BY <3>5, <3>7, <3>8, <4>1 DEF On
      <4>2. CASE q # r
        <5>1. pc[q] \in Pending => ctx[q].version <= version[run]
          BY <3>8 DEF VersionsGrow, Pending
        <5>2. pc[q] \notin Passing /\ (next = "cancelled" => calls[q] = 0)
          BY <3>5, <3>8, <4>2 DEF On
        <5> QED
          BY <1>0, <2>0, <3>2, <4>2, <5>1, <5>2
      <4> QED
        BY <4>1, <4>2
    <3> QED
      BY <2>0, <2>1, <3>2, <3>6, <3>8
  <2> QED
    BY <2>3, <2>4, <2>5
<1>4. CASE \E t \in Tokens : Lapse(t)
  BY <1>4 DEF Lapse, EndedIsClosed, On, TokenRun, runVars, effectVars, requestVars
<1>5. CASE CrashRestart
  <2>1. /\ status'[run] = status[run] /\ UNCHANGED <<checkpoint, token, job, ctx, calls>>
    BY <1>5 DEF CrashRestart, tokenVars, effectVars
  <2>2. \A q \in Requests : pc'[q] \notin Passing \cup Pending
    BY <1>5 DEF CrashRestart, Passing, Pending, Serving, TypeOK
  <2>3. \A t \in Tokens : TokenRun(t)' = TokenRun(t)
    BY <2>1 DEF TokenRun
  <2> QED
    BY <2>1, <2>2, <2>3 DEF EndedIsClosed, On
<1>6. CASE UNCHANGED vars
  BY <1>6 DEF vars, EndedIsClosed, On, TokenRun
<1> QED
  BY <1>1, <1>2, <1>3, <1>4, <1>5, <1>6 DEF Next

\* A ticket is never deleted, and a change once made is never unmade.
LEMMA AdvanceEffects ==
    ASSUME TypeInv, NEW r \in Requests, Advance(r)
    PROVE  /\ \A q \in Requests : ticket[q] # "absent" => ticket'[q] # "absent"
           /\ \A q \in Requests : q \in applied => q \in applied'
           /\ \A q \in Requests \ {r} : q \in applied' => q \in applied
<1> USE DEF TypeInv, TypeOK
<1>1. CASE CallAdapter(r)
  <2>1. applied' = applied \/ applied' = applied \cup {r}
    BY <1>1 DEF CallAdapter
  <2> QED
    BY <1>1, <2>1 DEF CallAdapter
<1>2. CASE OpenTicket(r) \/ ResolveTicket(r)
  BY <1>2 DEF OpenTicket, ResolveTicket, effectVars
<1>3. CASE UNCHANGED <<ticket, applied>>
  BY <1>3
<1> QED
  BY <1>1, <1>2, <1>3 DEF Advance, LoadContext, LoadToken, LookupKey,
      ConsumeAndReserve, StartCommit, RereadVersion, Claim, ObserveCommit, Verdict,
      Verify, Finish, RejectToken, InvalidateTokens, Withdraw, LoadNewest, Rotate,
      Reissue, ResolveCheckpoint, Publish, SetReason, effectVars

\* Each step of a confirmation passes on what it has established.
LEMMA OutcomeStep == TokenInv /\ OutcomeKnown /\ [Next]_vars => OutcomeKnown'
<1> SUFFICES ASSUME TokenInv, OutcomeKnown, [Next]_vars PROVE OutcomeKnown'
  OBVIOUS
<1> USE DEF TokenInv, TypeInv
<1>1. ASSUME NEW k \in Runs, Work(k) PROVE OutcomeKnown'
  BY <1>1 DEF Work, IssueToken, PrepareMutation, PublishPrompt, WorkerRaises,
        MarkFailed, PublishFailure, StampFailure, effectVars, requestVars, OutcomeKnown
<1>2. ASSUME NEW r \in Requests, NEW j \in Job, Begin(r, j) PROVE OutcomeKnown'
  BY <1>2 DEF Begin, Goto, effectVars, OutcomeKnown, TypeOK
<1>3. ASSUME NEW r \in Requests, Advance(r) PROVE OutcomeKnown'
  <2> DEFINE Known(q) ==
        /\ q \in applied => calls[q] # 0
        /\ pc[q] \in {"observe", "verdict", "verify", "handoff", "finish"} =>
              calls[q] # 0
        /\ pc[q] = "verdict" => seen[q] \in {"succeeded", "failed", "unknown"}
        /\ pc[q] = "verify" => seen[q] = "succeeded"
        /\ pc[q] = "handoff" => seen[q] \in {"unknown", "mismatch"}
        /\ pc[q] = "finish" =>
              \/ seen[q] = "failed"
              \/ seen[q] = "succeeded" /\ q \in applied
              \/ seen[q] \in {"unknown", "mismatch"} /\ ticket[q] # "absent"
  <2>0. Known(r)
    BY DEF OutcomeKnown
  <2>1. ASSUME NEW q \in Requests \ {r} PROVE Known(q)'
    <3>1. Known(q)
      BY DEF OutcomeKnown
    <3>2. /\ pc'[q] = pc[q] /\ seen'[q] = seen[q] /\ calls'[q] = calls[q]
          /\ (q \in applied' <=> q \in applied)
          /\ (ticket[q] # "absent" => ticket'[q] # "absent")
      BY <1>3, AdvanceFrame, AdvanceEffects
    <3> QED
      BY <3>1, <3>2
  <2>2. Known(r)'
    <3>1. CASE CallAdapter(r)
      <4>1. pc'[r] = "observe" /\ calls'[r] = calls[r] + 1 /\ calls[r] \in Nat
        BY <3>1 DEF CallAdapter, Goto, TypeOK
      <4> QED
        BY <4>1
    <3>2. CASE ObserveCommit(r)
      <4>1. seen[r] \in {"succeeded", "failed", "unknown"} /\ UNCHANGED <<calls, applied, seen>>
        BY <3>2 DEF ObserveCommit, JobKnown
      <4>2. pc'[r] \in {"verdict", "error"} /\ pc[r] = "observe"
        BY <3>2 DEF ObserveCommit, Goto, TypeOK
      <4> QED
        BY <2>0, <4>1, <4>2
    <3>3. CASE Verdict(r)
      <4>1. /\ UNCHANGED <<calls, applied, seen>> /\ pc[r] = "verdict"
            /\ pc'[r] = CASE seen[r] = "succeeded" -> "verify"
                          [] seen[r] = "unknown" -> "handoff"
                          [] OTHER -> "finish"
        BY <3>3 DEF Verdict, Goto, effectVars, TypeOK
      <4> QED
        BY <2>0, <4>1
    <3>4. CASE Verify(r)
      <4>1. UNCHANGED <<calls, applied>> /\ pc[r] = "verify"
        BY <3>4 DEF Verify, effectVars
      <4>2. CASE r \in applied
        BY <2>0, <3>4, <4>1, <4>2 DEF Verify, Goto, TypeOK
      <4>3. CASE r \notin applied
        BY <2>0, <3>4, <4>1, <4>3 DEF Verify, Goto, TypeOK
      <4> QED
        BY <4>2, <4>3
    <3>5. CASE OpenTicket(r)
      BY <2>0, <3>5 DEF OpenTicket, Goto, effectVars, TypeOK
    <3>6. CASE /\ UNCHANGED <<calls, applied>>
               /\ pc'[r] \notin {"observe", "verdict", "verify", "handoff", "finish"}
      BY <2>0, <3>6
    <3>7. CASE /\ pc[r] \notin {"observe", "verdict", "verify", "handoff", "call"}
      <4>1. pc'[r] \notin {"observe", "verdict", "verify", "handoff", "finish"}
        <5>1. CASE LoadContext(r)
          <6>1. job[r].kind \in Kinds
            BY <1>3, AdvanceFrame DEF Job
          <6>2. pc'[r] = "refused" \/ pc'[r] = AfterLoad[job[r].kind]
            BY <5>1 DEF LoadContext, Goto, TypeOK
          <6> QED
            BY <6>1, <6>2 DEF AfterLoad, Kinds
        <5>2. CASE \/ LoadToken(r) \/ LookupKey(r) \/ ConsumeAndReserve(r)
                   \/ StartCommit(r) \/ RereadVersion(r) \/ Claim(r)
          BY <5>2 DEF LoadToken, LookupKey, Reused, ConsumeAndReserve, StartCommit,
              RereadVersion, Claim, Goto, TypeOK
        <5>3. CASE Finish(r) \/ Withdraw(r) \/ Reissue(r) \/ ResolveCheckpoint(r)
          BY <5>3 DEF Finish, Withdraw, Reissue, ResolveCheckpoint, LastCommit, Goto,
              TypeOK
        <5>4. CASE \/ RejectToken(r) \/ InvalidateTokens(r) \/ LoadNewest(r)
                   \/ Rotate(r) \/ ResolveTicket(r) \/ Publish(r) \/ SetReason(r)
          BY <5>4 DEF RejectToken, InvalidateTokens, LoadNewest, Rotate,
              ResolveTicket, Publish, SetReason, Goto, TypeOK
        <5> QED
          BY <1>3, <3>7, <5>1, <5>2, <5>3, <5>4 DEF Advance, CallAdapter,
              ObserveCommit, Verdict, Verify, OpenTicket
      <4>2. UNCHANGED <<calls, applied>>
        BY <1>3, <3>7 DEF Advance, LoadContext, LoadToken, LookupKey,
            ConsumeAndReserve, StartCommit, RereadVersion, Claim, CallAdapter,
            ObserveCommit, Verdict, Verify, OpenTicket, Finish, RejectToken,
            InvalidateTokens, Withdraw, LoadNewest, Rotate, Reissue,
            ResolveCheckpoint, ResolveTicket, Publish, SetReason, effectVars
      <4> QED
        BY <3>6, <4>1, <4>2
    <3> QED
      BY <1>3, <3>1, <3>2, <3>3, <3>4, <3>5, <3>7 DEF Advance, LoadContext,
          LoadToken, LookupKey, ConsumeAndReserve, StartCommit, RereadVersion, Claim,
          Finish, RejectToken, InvalidateTokens, Withdraw, LoadNewest, Rotate,
          Reissue, ResolveCheckpoint, ResolveTicket, Publish, SetReason
  <2> QED
    BY <2>1, <2>2 DEF OutcomeKnown
<1>4. CASE \E t \in Tokens : Lapse(t)
  BY <1>4 DEF Lapse, OutcomeKnown, effectVars, requestVars
<1>5. CASE CrashRestart
  BY <1>5 DEF CrashRestart, OutcomeKnown, effectVars, Serving, TypeOK
<1>6. CASE UNCHANGED vars
  BY <1>6 DEF vars, OutcomeKnown
<1> QED
  BY <1>1, <1>2, <1>3, <1>4, <1>5, <1>6 DEF Next

\* A run comes under review only once its confirmation has opened a ticket.
LEMMA ReviewStep ==
    TokenInv /\ OutcomeKnown /\ ReviewIsLate /\ [Next]_vars => ReviewIsLate'
<1> SUFFICES ASSUME TokenInv, OutcomeKnown, ReviewIsLate, [Next]_vars,
                    NEW run \in Runs, UnderReview(run)'
             PROVE  /\ \E h \in Requests : /\ job'[h].run = run
                                           /\ record'[h] # "absent"
                                           /\ ticket'[h] # "absent"
                    /\ \A q \in Requests :
                          job'[q].run = run => pc'[q] \notin Passing \cup {"committing"}
  BY DEF ReviewIsLate, On
<1> USE DEF TokenInv, TypeInv
<1> DEFINE Late == /\ \E h \in Requests : /\ job'[h].run = run
                                          /\ record'[h] # "absent"
                                          /\ ticket'[h] # "absent"
                   /\ \A q \in Requests :
                         job'[q].run = run => pc'[q] \notin Passing \cup {"committing"}
<1>1. ASSUME NEW k \in Runs, Work(k) PROVE Late
  <2>1. UNCHANGED <<pc, job, record, ticket>>
    BY <1>1 DEF Work, IssueToken, PrepareMutation, PublishPrompt, WorkerRaises,
        MarkFailed, PublishFailure, StampFailure, effectVars, requestVars
  <2>2. checkpoint'[run].status = "waiting_human" => checkpoint[run].status = "waiting_human"
    BY <1>1 DEF Work, IssueToken, PrepareMutation, PublishPrompt, WorkerRaises,
        MarkFailed, PublishFailure, StampFailure, runVars, CommitStep, TypeOK
  <2>3. UnderReview(run)
    BY <2>1, <2>2 DEF UnderReview, On
  <2> QED
    BY <2>1, <2>3 DEF ReviewIsLate, On
<1>2. ASSUME NEW r \in Requests, NEW j \in Job, Begin(r, j) PROVE Late
  <2>1. /\ pc' = [pc EXCEPT ![r] = "load"] /\ job' = [job EXCEPT ![r] = j]
        /\ UNCHANGED <<record, ticket, checkpoint>> /\ pc[r] = "idle"
    BY <1>2 DEF Begin, Goto, effectVars, runVars
  <2>2. record[r] = "absent"
    BY <2>1 DEF StepShape, Passing
  <2>3. \A q \in Requests \ {r} : job'[q] = job[q] /\ pc'[q] = pc[q]
    BY <2>1 DEF TypeOK
  <2>4. pc'[r] = "load"
    BY <2>1 DEF TypeOK
  <2>5. UnderReview(run)
    BY <2>1, <2>3, <2>4 DEF UnderReview, On
  <2>6. PICK h \in Requests : /\ job[h].run = run /\ record[h] # "absent"
                              /\ ticket[h] # "absent"
    BY <2>5 DEF ReviewIsLate, On
  <2>7. \A q \in Requests : job[q].run = run => pc[q] \notin Passing \cup {"committing"}
    BY <2>5 DEF ReviewIsLate, On
  <2>8. h # r
    BY <2>2, <2>6
  <2>9. \E x \in Requests : /\ job'[x].run = run /\ record'[x] # "absent"
                            /\ ticket'[x] # "absent"
    BY <2>1, <2>3, <2>6, <2>8
  <2> QED
    BY <2>3, <2>4, <2>7, <2>9 DEF Passing
<1>3. ASSUME NEW r \in Requests, Advance(r) PROVE Late
  <2> DEFINE mine == job[r].run
  <2>0. /\ mine \in Runs /\ UNCHANGED job /\ job[r] \in Job
        /\ \A q \in Requests \ {r} : pc'[q] = pc[q] /\ record'[q] = record[q]
        /\ \A q \in Requests : ticket[q] # "absent" => ticket'[q] # "absent"
    BY <1>3, AdvanceFrame, AdvanceEffects
  <2>1. \A q \in Requests : record[q] # "absent" => record'[q] # "absent"
    <3>1. record[r] # "absent" => pc[r] # "consume"
      BY DEF StepShape, Passing
    <3> QED
      BY <1>3, <2>0, <3>1, AdvanceRecords
  <2>2. CASE UnderReview(run)
    <3>1. PICK h \in Requests : /\ job[h].run = run /\ record[h] # "absent"
                                /\ ticket[h] # "absent"
      BY <2>2 DEF ReviewIsLate, On
    <3>2. \A q \in Requests : job[q].run = run => pc[q] \notin Passing \cup {"committing"}
      BY <2>2 DEF ReviewIsLate, On
    <3>3. mine = run => pc'[r] \notin Passing
      BY <1>3, <3>2, AdvancePc
    <3>4. ASSUME mine = run, pc'[r] = "committing" PROVE FALSE
      <4>1. pc[r] = "consume"
        BY <1>3, <3>4, AdvancePc
      <4>2. record[r] = "absent"
        BY <4>1 DEF StepShape, Passing
      <4>3. record'[r] # "absent"
        BY <3>4, ShapeStep DEF StepShape
      <4>4. token[job[r].ref] = "waiting"
        BY <1>3, <4>2, <4>3, AdvanceRecords
      <4>5. job[r].ref \in Tokens /\ TokenRun(job[r].ref) = run
        BY <3>4, <4>1 DEF StepShape, Tokens
      <4> QED
        BY <3>1, <4>4, <4>5 DEF OneChance
    <3>5. \A q \in Requests : job[q].run = run => pc'[q] \notin Passing \cup {"committing"}
      BY <2>0, <3>2, <3>3, <3>4
    <3> QED
      BY <2>0, <2>1, <3>1, <3>5
  <2>3. CASE ~UnderReview(run)
    <3>1. checkpoint'[run].status = "waiting_human"
      <4> SUFFICES ASSUME NEW w \in Requests, job'[w].run = run, pc'[w] = "resolve"
                   PROVE  FALSE
        BY DEF UnderReview, On
      <4>1. w = r /\ pc[r] = "load"
        BY <1>3, <2>0, <2>3, AdvancePc DEF UnderReview, On
      <4>2. /\ pc'[r] = AfterLoad[job[r].kind]
            /\ checkpoint[mine].status \in Resumable(job[r].kind)
        BY <1>3, <4>1, AdvanceCtx
      <4>3. job[r].kind = "resolve"
        BY <2>0, <4>1, <4>2 DEF AfterLoad, Job, Kinds
      <4>4. checkpoint[run].status = "waiting_human"
        BY <2>0, <4>1, <4>2, <4>3 DEF Resumable
      <4> QED
        BY <2>3, <4>4 DEF UnderReview
    <3>2. checkpoint[run].status # "waiting_human"
      BY <2>3 DEF UnderReview
    <3>3. mine = run
      BY <1>3, <3>1, <3>2, AdvanceFrame
    <3>4. PICK next \in RunStatus :
              /\ CommitStep(run, ctx[r], next)
              /\ \/ pc[r] = "committing" /\ next = "committing"
                 \/ pc[r] = "observe" /\ next \in {"failed", "verifying"}
                 \/ pc[r] = "finish" /\ next = FinalStatus(r)
                 \/ pc[r] = "withdraw" /\ next = "cancelled"
                 \/ pc[r] = "reissue" /\ next = "waiting_confirmation"
                 \/ pc[r] = "resolve" /\ next \in {"completed", "failed"}
      BY <1>3, <3>1, <3>2, <3>3, AdvanceRow DEF runVars
    <3>5. checkpoint'[run].status = next
      BY <3>4 DEF CommitStep, TypeOK
    <3>6. pc[r] = "finish" /\ FinalStatus(r) = "waiting_human"
      BY <3>1, <3>4, <3>5
    <3>7. ticket[r] # "absent" /\ record[r] # "absent"
      BY <3>6 DEF FinalStatus, OutcomeKnown, StepShape, Passing
    <3>8. \A q \in Requests \ {r} : job[q].run = run => record[q] = "absent"
      BY <3>3, <3>7 DEF OneChance
    <3>9. \A q \in Requests \ {r} : job[q].run = run =>
              pc[q] \notin Passing \cup {"committing"}
      BY <3>8 DEF StepShape
    <3>10. pc'[r] \notin Passing \cup {"committing"}
      BY <1>3, <3>6, AdvancePc DEF Passing
    <3>11. \E h \in Requests : /\ job'[h].run = run /\ record'[h] # "absent"
                               /\ ticket'[h] # "absent"
      BY <2>0, <2>1, <3>3, <3>7
    <3> QED
      BY <2>0, <3>9, <3>10, <3>11
  <2> QED
    BY <2>2, <2>3
<1>4. CASE \E t \in Tokens : Lapse(t)
  BY <1>4 DEF Lapse, ReviewIsLate, UnderReview, On, runVars, effectVars, requestVars
<1>5. CASE CrashRestart
  <2>1. UNCHANGED <<checkpoint, job, record, ticket>>
    BY <1>5 DEF CrashRestart, effectVars
  <2>2. \A q \in Requests : pc'[q] \notin Passing \cup {"committing", "resolve"}
    BY <1>5 DEF CrashRestart, Passing, Serving, TypeOK
  <2>3. UnderReview(run)
    BY <2>1, <2>2 DEF UnderReview, On
  <2> QED
    BY <2>1, <2>2, <2>3 DEF ReviewIsLate, On
<1>6. CASE UNCHANGED vars
  BY <1>6 DEF vars, ReviewIsLate, UnderReview, On
<1> QED
  BY <1>1, <1>2, <1>3, <1>4, <1>5, <1>6 DEF Next

\* Tickets come from confirmations, and resolutions present one of them.
LEMMA TicketStep ==
    TokenInv /\ OutcomeKnown /\ TicketKnown /\ [Next]_vars => TicketKnown'
<1> SUFFICES ASSUME TokenInv, OutcomeKnown, TicketKnown, [Next]_vars PROVE TicketKnown'
  OBVIOUS
<1> USE DEF TokenInv, TypeInv
<1>1. CASE UNCHANGED <<ticket, calls, pc, job>>
  BY <1>1 DEF TicketKnown
<1>2. ASSUME NEW r \in Requests, NEW j \in Job, Begin(r, j) PROVE TicketKnown'
  <2>1. /\ pc' = [pc EXCEPT ![r] = "load"] /\ job' = [job EXCEPT ![r] = j]
        /\ UNCHANGED <<calls, ticket>>
        /\ j.kind = "resolve" => j.ref \in Requests /\ ticket[j.ref] = "open"
    BY <1>2 DEF Begin, Goto, effectVars
  <2> QED
    BY <2>1 DEF TicketKnown, TypeOK
<1>3. ASSUME NEW r \in Requests, Advance(r) PROVE TicketKnown'
  <2>0. /\ UNCHANGED job /\ job[r] \in Job
        /\ \A q \in Requests \ {r} : pc'[q] = pc[q] /\ calls'[q] = calls[q]
        /\ \A q \in Requests : ticket[q] # "absent" => ticket'[q] # "absent"
    BY <1>3, AdvanceFrame, AdvanceEffects
  <2>1. calls[r] # 0 => calls'[r] # 0
    BY <1>3, AdvancePc DEF StepShape
  <2>2. ASSUME NEW q \in Requests, ticket'[q] # "absent" PROVE calls'[q] # 0
    <3>1. CASE ticket[q] # "absent"
      BY <2>0, <2>1, <3>1 DEF TicketKnown
    <3>2. CASE ticket[q] = "absent"
      <4>1. OpenTicket(r) \/ ResolveTicket(r)
        BY <1>3, <2>2, <3>2 DEF Advance, LoadContext, LoadToken, LookupKey,
            ConsumeAndReserve, StartCommit, RereadVersion, Claim, CallAdapter,
            ObserveCommit, Verdict, Verify, Finish, RejectToken, InvalidateTokens,
            Withdraw, LoadNewest, Rotate, Reissue, ResolveCheckpoint, Publish, SetReason
      <4>2. CASE OpenTicket(r)
        <5>1. q = r /\ pc[r] = "handoff"
          BY <2>2, <3>2, <4>2 DEF OpenTicket, TypeOK
        <5> QED
          BY <2>1, <5>1 DEF OutcomeKnown
      <4>3. CASE ResolveTicket(r)
        BY <2>2, <3>2, <4>3 DEF ResolveTicket, TicketKnown, TypeOK
      <4> QED
        BY <4>1, <4>2, <4>3
    <3> QED
      BY <3>1, <3>2
  <2>3. pc'[r] \in {"resolve", "settle"} => job[r].kind = "resolve"
    <3>1. ASSUME pc'[r] = "resolve" PROVE job[r].kind = "resolve"
      <4>1. pc'[r] = AfterLoad[job[r].kind]
        BY <1>3, <3>1, AdvancePc, AdvanceCtx
      <4> QED
        BY <2>0, <3>1, <4>1 DEF AfterLoad, Job, Kinds
    <3>2. ASSUME pc'[r] = "settle" PROVE pc[r] = "resolve"
      <4>1. CASE LoadContext(r)
        <5>1. pc'[r] = "refused" \/ pc'[r] = AfterLoad[job[r].kind]
          BY <4>1 DEF LoadContext, Goto, TypeOK
        <5> QED
          BY <2>0, <3>2, <5>1 DEF AfterLoad, Job, Kinds
      <4>2. CASE ~LoadContext(r)
        BY <1>3, <3>2, <4>2 DEF Advance, LoadToken, LookupKey, Reused,
            ConsumeAndReserve, StartCommit, RereadVersion, Claim, CallAdapter,
            ObserveCommit, Verdict, Verify, OpenTicket, Finish, RejectToken,
            InvalidateTokens, Withdraw, LoadNewest, Rotate, Reissue,
            ResolveCheckpoint, ResolveTicket, Publish, SetReason, LastCommit, Goto,
            TypeOK
      <4> QED
        BY <4>1, <4>2
    <3> QED
      BY <3>1, <3>2 DEF TicketKnown
  <2> QED
    BY <2>0, <2>2, <2>3 DEF TicketKnown
<1>4. CASE CrashRestart
  BY <1>4 DEF CrashRestart, TicketKnown, effectVars, Serving, TypeOK
<1> QED
  BY <1>1, <1>2, <1>3, <1>4 DEF Next, Work, IssueToken, PrepareMutation,
      PublishPrompt, WorkerRaises, MarkFailed, PublishFailure, StampFailure, Lapse,
      effectVars, requestVars, vars

\* The run invariant holds at the start.
LEMMA RunInit == Init => RunInv
<1> SUFFICES ASSUME Init PROVE RunInv
  OBVIOUS
<1>1. TokenInv
  BY TokenInit
<1>2. ASSUME NEW q \in Requests
      PROVE  /\ pc[q] = "idle" /\ job[q] = NoJob /\ ctx[q] = NoContext
             /\ calls[q] = 0 /\ q \notin applied /\ ticket[q] = "absent"
  BY DEF Init
<1>3. ASSUME NEW k \in Runs
      PROVE  /\ status[k] = "running_workflow" /\ version[k] = 0
             /\ checkpoint[k] = NoContext
  BY DEF Init
<1>4. VersionsGrow
  BY <1>2, <1>3 DEF VersionsGrow, NoContext
<1>5. PassedIsSeen /\ WithdrawCloses
  BY <1>2 DEF PassedIsSeen, Passed, Passing, WithdrawCloses
<1>6. EndedIsClosed
  BY <1>3 DEF EndedIsClosed
<1>7. ReviewIsLate
  BY <1>2, <1>3 DEF ReviewIsLate, UnderReview, NoContext
<1>8. OutcomeKnown /\ TicketKnown
  BY <1>2 DEF OutcomeKnown, TicketKnown, NoJob
<1> QED
  BY <1>1, <1>4, <1>5, <1>6, <1>7, <1>8 DEF RunInv

\* The run invariant is inductive when the invalidation does not fail.
LEMMA RunStep ==
    ASSUME "invalidate" \notin Faults
    PROVE  RunInv /\ [Next]_vars => RunInv'
<1> SUFFICES ASSUME RunInv, [Next]_vars PROVE RunInv'
  OBVIOUS
<1>1. TokenInv' /\ VersionsGrow' /\ PassedIsSeen'
  BY TokenStep, VersionsStep, PassedStep DEF RunInv
<1>2. WithdrawCloses' /\ EndedIsClosed'
  BY WithdrawStep, EndedStep DEF RunInv
<1>3. ReviewIsLate' /\ OutcomeKnown' /\ TicketKnown'
  BY ReviewStep, OutcomeStep, TicketStep DEF RunInv
<1> QED
  BY <1>1, <1>2, <1>3 DEF RunInv

\* A run that the user was told is cancelled has not been, and will not be,
\* sent to the business system, as long as cancel_run's invalidation of the
\* tokens does not fail: whoever cancels has closed the tokens first and holds
\* a version that no confirmation has moved on.
THEOREM CancelledUntouched ==
    ASSUME "invalidate" \notin Faults
    PROVE  Spec => []CancelledMeansUntouched
<1>1. RunInv => CancelledMeansUntouched
  <2> SUFFICES ASSUME RunInv, NEW r \in Requests, calls[r] > 0,
                      status[job[r].run] = "cancelled"
               PROVE  FALSE
    BY DEF CancelledMeansUntouched
  <2> USE DEF RunInv, TokenInv, TypeInv
  <2>1. calls[r] # 0 /\ pc[r] # "idle"
    BY DEF StepShape, Passing
  <2>2. job[r].run \in Runs
    BY <2>1 DEF JobKnown, Job
  <2> QED
    BY <2>1, <2>2 DEF EndedIsClosed, On
<1>2. RunInv /\ [Next]_vars => RunInv'
  BY RunStep
<1> QED
  BY <1>1, <1>2, RunInit, PTL DEF Spec

\* The worker and the startup hook leave an ended run alone.
LEMMA OthersKeepEnded ==
    ASSUME RunInv, NEW run \in Runs,
           (\E k \in Runs : Work(k)) \/ CrashRestart
    PROVE  \A s \in {"cancelled", "completed"} :
              status'[run] = s <=> status[run] = s
<1> USE DEF RunInv, TokenInv, TypeInv, TypeOK
<1>1. ASSUME NEW k \in Runs, Work(k)
      PROVE  \A s \in {"cancelled", "completed"} :
                status'[run] = s <=> status[run] = s
  <2>1. CASE PrepareMutation(k)
    <3>1. checkpoint[k].status = "none"
      BY <2>1 DEF PrepareMutation, NoCheckpointYet
    <3>2. status[k] \notin {"cancelled", "completed"}
      BY <3>1 DEF EndedIsClosed
    <3> QED
      BY <2>1, <3>2 DEF PrepareMutation, CommitStep
  <2>2. CASE MarkFailed(k)
    BY <2>2 DEF MarkFailed, Terminal
  <2>3. CASE UNCHANGED status
    BY <2>3
  <2> QED
    BY <1>1, <2>1, <2>2, <2>3 DEF Work, IssueToken, PublishPrompt, WorkerRaises,
        PublishFailure, StampFailure, runVars
<1>2. CASE CrashRestart
  BY <1>2 DEF CrashRestart
<1> QED
  BY <1>1, <1>2

\* No step moves a run that is cancelled or completed.
LEMMA EndedStays ==
    ASSUME RunInv, [Next]_vars, NEW run \in Runs,
           status[run] \in {"cancelled", "completed"}
    PROVE  status'[run] = status[run]
<1> USE DEF RunInv, TokenInv
<1>1. ASSUME NEW r \in Requests, Advance(r) PROVE status'[run] = status[run]
  <2>1. CASE job[r].run = run
    BY <1>1, <2>1, EndedAdvance
  <2>2. CASE job[r].run # run
    BY <1>1, <2>2, AdvanceFrame
  <2> QED
    BY <2>1, <2>2
<1>2. CASE (\E k \in Runs : Work(k)) \/ CrashRestart
  BY <1>2, OthersKeepEnded
<1>3. CASE UNCHANGED status
  BY <1>3
<1> QED
  BY <1>1, <1>2, <1>3 DEF Next, Begin, Lapse, runVars, vars

\* No step of a confirmation, a refresh, the worker or the startup hook takes a
\* cancelled run any further, as long as the invalidation does not fail.
THEOREM CancelledForGood ==
    ASSUME "invalidate" \notin Faults
    PROVE  Spec => CancelledStays
<1>1. RunInv /\ [Next]_vars =>
          [\A run \in Runs : status[run] = "cancelled" => status'[run] = "cancelled"]_vars
  BY EndedStays
<1>2. RunInv /\ [Next]_vars => RunInv'
  BY RunStep
<1> QED
  BY <1>1, <1>2, RunInit, PTL DEF Spec, CancelledStays

-------------------------------------------------------------------------------
(***************************************************************************)
(* A reservation is not abandoned                                          *)
(***************************************************************************)

\* The run does not wait for confirmation, and never will again.
Past(run) ==
    status[run] # "waiting_confirmation" /\ worker[run] \notin {"issue", "prepare"}

\* The row of a waiting run is as its checkpoint left it, and a checkpoint of
\* the row's own version says what the row says.
RowKnown ==
    \A run \in Runs :
        /\ worker[run] \in {"issue", "prepare"} => version[run] = 0
        /\ worker[run] \in {"apology", "stamp"} => Past(run)
        /\ status[run] = "waiting_confirmation" =>
              /\ checkpoint[run].status = "waiting_confirmation"
              /\ checkpoint[run].version = version[run]
        /\ checkpoint[run].status # "none" /\ checkpoint[run].version = version[run]
              => status[run] = checkpoint[run].status

\* A client holds a usable token of the run, or has exchanged it.
Given(run) ==
    \/ \E t \in disclosed : token[t] = "waiting" /\ TokenRun(t) = run
    \/ Holders(run) # {}

\* A refresh that is not stale works on a waiting run, and once a token has
\* been given to a client every other refresh of the run is stale.
RefreshKnown ==
    \A r \in Requests :
        /\ job[r].kind \in {"confirm", "reject"} => job[r].ref \in disclosed
        /\ pc[r] \in {"token", "lookup", "consume"} =>
              job[r].kind \in {"confirm", "reject"}
        /\ r \in disclosed => pc[r] = "done"
        /\ pc[r] \in {"newest", "rotate", "reissue"} /\ Fresh(r) =>
              status[job[r].run] = "waiting_confirmation"
        /\ pc[r] = "reissue" /\ Given(job[r].run) => ~Fresh(r)

\* Whoever knows the run's end, or has moved it, sees it past waiting; a
\* confirmation whose token is still good has the version of the row.
ConfirmKnown ==
    \A r \in Requests : IF pc[r] = "idle" THEN ctx[r].status = "none" ELSE
        /\ pc[r] \in {"reason", "stamp"} => ctx[r].status \in Terminal
        /\ ctx[r].status \in Terminal => Past(job[r].run)
        /\ record[r] # "absent" =>
              pc[r] \in {"committing", "crashed"} \/ Past(job[r].run)
        /\ pc[r] = "committing" /\ ~Past(job[r].run) => Fresh(r)
        /\ /\ pc[r] \in {"token", "lookup", "consume"}
           /\ ~Past(job[r].run)
           /\ token[job[r].ref] = "waiting"
           /\ TokenRun(job[r].ref) = job[r].run
           => Fresh(r)

WaitInv == TokenInv /\ VersionsGrow /\ RowKnown /\ RefreshKnown /\ ConfirmKnown

\* A request past its load works on a run whose worker has written a checkpoint.
LEMMA LoadedRun ==
    ASSUME TokenInv, NEW r \in Requests,
           pc[r] \notin {"idle", "load", "refused", "crashed"}
    PROVE  /\ job[r] \in Job /\ job[r].run \in Runs
           /\ checkpoint[job[r].run].status # "none"
           /\ worker[job[r].run] \notin {"issue", "prepare"}
<1>1. job[r] \in Job /\ job[r].run \in Runs
  BY DEF TokenInv, TypeInv, JobKnown, Job
<1> QED
  BY <1>1 DEF TokenInv, NoCheckpointYet, On

\* More about where a request comes from and what it learns.
LEMMA AdvanceMore ==
    ASSUME TypeInv, NEW r \in Requests, Advance(r)
    PROVE  /\ pc[r] \notin {"idle", "done", "refused", "crashed", "error"}
           /\ pc'[r] = "token" => pc[r] = "load"
           /\ pc'[r] = "lookup" => pc[r] = "token"
           /\ pc'[r] = "consume" => pc[r] = "lookup"
           /\ pc[r] = "committing" =>
                 \/ Fresh(r) /\ status'[job[r].run] = "committing"
                 \/ ~Fresh(r)
           /\ pc'[r] # "committing" \/ pc[r] = "consume"
           /\ pc'[r] = "settle" =>
                 /\ pc[r] = "resolve" /\ Fresh(r)
                 /\ status'[job[r].run] \in {"completed", "failed"}
           /\ pc'[r] \in {"reason", "stamp"} => ctx'[r].status \in Terminal
           /\ ctx'[r].status \in Terminal =>
                 \/ ctx'[r].status = ctx[r].status
                 \/ /\ pc[r] = "load" /\ UNCHANGED runVars
                    /\ ctx'[r] = checkpoint[job[r].run]
                 \/ /\ pc[r] # "load"
                    /\ status'[job[r].run] = ctx'[r].status
           /\ disclosed' = disclosed \/
                 /\ pc[r] = "reissue" /\ Fresh(r) /\ pc'[r] = "done"
                 /\ disclosed' = disclosed \cup {r}
<1> USE DEF TypeInv, TypeOK, Goto
<1>0. pc[r] # "idle" => job[r].run \in Runs
  BY DEF JobKnown, Job
<1>1. CASE LoadContext(r)
  <2>1. job[r].kind \in Kinds
    BY <1>1 DEF LoadContext, JobKnown, Job
  <2>2. pc'[r] \in {"refused", "token", "newest", "invalidate", "resolve"}
    BY <1>1, <2>1 DEF LoadContext, AfterLoad, Kinds
  <2> QED
    BY <1>1, <2>2 DEF LoadContext, tokenVars
<1>2. CASE \/ LoadToken(r) \/ LookupKey(r) \/ ConsumeAndReserve(r)
           \/ Claim(r) \/ CallAdapter(r) \/ Verify(r) \/ OpenTicket(r)
           \/ RejectToken(r) \/ InvalidateTokens(r) \/ LoadNewest(r)
           \/ ResolveTicket(r)
  BY <1>2 DEF LoadToken, LookupKey, ConsumeAndReserve, Claim, CallAdapter, Verify,
      OpenTicket, RejectToken, InvalidateTokens, LoadNewest, ResolveTicket, Reused,
      tokenVars
<1>3. CASE RereadVersion(r) \/ Verdict(r)
  BY <1>3 DEF RereadVersion, Verdict, tokenVars, Terminal
<1>4. CASE StartCommit(r)
  BY <1>0, <1>4 DEF StartCommit, CommitStep, tokenVars
<1>5. CASE ObserveCommit(r)
  BY <1>5 DEF ObserveCommit, tokenVars
<1>6. CASE Publish(r) \/ SetReason(r)
  BY <1>6 DEF Publish, SetReason, tokenVars
<1>7. CASE Rotate(r)
  BY <1>7 DEF Rotate
<1>8. CASE Finish(r)
  BY <1>0, <1>8 DEF Finish, LastCommit, CommitStep, tokenVars, Context
<1>9. CASE Withdraw(r)
  BY <1>0, <1>9 DEF Withdraw, LastCommit, CommitStep, tokenVars, Context, Terminal
<1>10. CASE Reissue(r)
  BY <1>0, <1>10 DEF Reissue, LastCommit, CommitStep, Context
<1>11. CASE ResolveCheckpoint(r)
  BY <1>0, <1>11 DEF ResolveCheckpoint, LastCommit, CommitStep, tokenVars, Context
<1> QED
  BY <1>1, <1>2, <1>3, <1>4, <1>5, <1>6, <1>7, <1>8, <1>9, <1>10, <1>11 DEF Advance

\* A row that keeps its version is not written.
LEMMA RowMoves ==
    ASSUME TypeInv, [Next]_vars, NEW run \in Runs, version'[run] = version[run]
    PROVE  status'[run] = status[run] /\ checkpoint'[run] = checkpoint[run]
<1> USE DEF TypeInv, TypeOK
<1>1. ASSUME NEW k \in Runs, Work(k)
      PROVE  status'[run] = status[run] /\ checkpoint'[run] = checkpoint[run]
  BY <1>1 DEF Work, IssueToken, PrepareMutation, PublishPrompt, WorkerRaises,
      MarkFailed, PublishFailure, StampFailure, CommitStep, BumpVersion, runVars
<1>2. ASSUME NEW r \in Requests, Advance(r)
      PROVE  status'[run] = status[run] /\ checkpoint'[run] = checkpoint[run]
  <2>1. CASE job[r].run # run
    BY <1>2, <2>1, AdvanceFrame
  <2>2. CASE job[r].run = run
    <3>1. ASSUME NEW next, CommitStep(run, ctx[r], next) PROVE FALSE
      BY <3>1 DEF CommitStep
    <3>2. version' # [version EXCEPT ![run] = @ + 1]
      OBVIOUS
    <3> QED
      BY <1>2, <2>2, <3>1, <3>2, AdvanceRow DEF runVars
  <2> QED
    BY <2>1, <2>2
<1>3. CASE CrashRestart
  BY <1>3 DEF CrashRestart
<1>4. CASE UNCHANGED runVars
  BY <1>4 DEF runVars
<1> QED
  BY <1>1, <1>2, <1>3, <1>4 DEF Next, Begin, Lapse, vars, runVars

\* A run past waiting stays past it.
LEMMA PastStays ==
    ASSUME WaitInv, [Next]_vars, NEW run \in Runs, Past(run)
    PROVE  Past(run)'
<1> USE DEF WaitInv, TokenInv, TypeInv, TypeOK, Past
<1>1. ASSUME NEW k \in Runs, Work(k) PROVE Past(run)'
  BY <1>1 DEF Work, IssueToken, PrepareMutation, PublishPrompt, WorkerRaises,
      MarkFailed, PublishFailure, StampFailure, CommitStep, runVars
<1>2. ASSUME NEW r \in Requests, Advance(r) PROVE Past(run)'
  <2>1. UNCHANGED worker /\ job[r].run \in Runs
    BY <1>2, AdvanceFrame
  <2>2. CASE job[r].run # run
    BY <1>2, <2>1, <2>2, AdvanceFrame
  <2>3. CASE UNCHANGED status
    BY <2>1, <2>3
  <2>4. ASSUME Fresh(r), NEW next \in RunStatus, CommitStep(job[r].run, ctx[r], next),
               next = "waiting_confirmation" => pc[r] = "reissue",
               job[r].run = run
        PROVE  Past(run)'
    <3>1. next # "waiting_confirmation"
      BY <2>4 DEF RefreshKnown
    <3> QED
      BY <2>1, <2>4, <3>1 DEF CommitStep
  <2>5. FinalStatus(r) # "waiting_confirmation"
    BY DEF FinalStatus
  <2> QED
    BY <1>2, <2>2, <2>3, <2>4, <2>5, AdvanceRow DEF runVars
<1>3. CASE CrashRestart
  BY <1>3 DEF CrashRestart
<1>4. CASE UNCHANGED <<status, worker>>
  BY <1>4
<1> QED
  BY <1>1, <1>2, <1>3, <1>4 DEF Next, Begin, Lapse, vars, runVars

\* Only a refresh writes the row of a run that waits and goes on waiting.
LEMMA WaitingMoves ==
    ASSUME WaitInv, [Next]_vars, NEW run \in Runs,
           status[run] = "waiting_confirmation", status'[run] = "waiting_confirmation"
    PROVE  \/ version'[run] = version[run]
           \/ \E q \in Requests :
                 Advance(q) /\ job[q].run = run /\ pc[q] = "reissue" /\ Fresh(q)
<1> DEFINE Goal == \/ version'[run] = version[run]
                   \/ \E q \in Requests : /\ Advance(q) /\ job[q].run = run
                                          /\ pc[q] = "reissue" /\ Fresh(q)
<1> SUFFICES Goal
  OBVIOUS
<1> USE DEF WaitInv, TokenInv, TypeInv, TypeOK
<1>1. ASSUME NEW k \in Runs, Work(k) PROVE Goal
  <2>1. checkpoint[run].status # "none" /\ ~Past(run)
    BY DEF RowKnown, Past
  <2>2. worker[run] \notin {"issue", "prepare", "apology", "stamp"}
    BY <2>1 DEF RowKnown, NoCheckpointYet
  <2> QED
    BY <1>1, <2>2 DEF Work, IssueToken, PrepareMutation, PublishPrompt, WorkerRaises,
      MarkFailed, PublishFailure, StampFailure, CommitStep, BumpVersion, runVars,
      Terminal
<1>2. ASSUME NEW r \in Requests, Advance(r) PROVE Goal
  <2>1. job[r].run \in Runs /\ pc[r] # "idle"
    BY <1>2, AdvanceFrame
  <2>2. CASE job[r].run # run
    BY <1>2, <2>2, AdvanceFrame
  <2>3. CASE UNCHANGED runVars
    BY <2>3 DEF runVars
  <2>4. CASE pc[r] \in {"reason", "stamp"} /\ job[r].run = run
    BY <2>1, <2>4 DEF ConfirmKnown, Past
  <2>5. ASSUME Fresh(r), NEW next \in RunStatus, CommitStep(job[r].run, ctx[r], next),
               next = "waiting_confirmation" => pc[r] = "reissue",
               job[r].run = run
        PROVE  Goal
    <3>1. next = "waiting_confirmation"
      BY <2>5 DEF CommitStep
    <3> QED
      BY <1>2, <2>5, <3>1
  <2>6. FinalStatus(r) # "waiting_confirmation"
    BY DEF FinalStatus
  <2> QED
    BY <1>2, <2>2, <2>3, <2>4, <2>5, <2>6, AdvanceRow
<1>3. CASE CrashRestart
  BY <1>3 DEF CrashRestart
<1>4. CASE UNCHANGED version
  BY <1>4
<1> QED
  BY <1>1, <1>2, <1>3, <1>4 DEF Next, Begin, Lapse, vars, runVars

\* A token comes into a client's hands by the checkpoint of its refresh only.
LEMMA GivenGrows ==
    ASSUME WaitInv, [Next]_vars, NEW run \in Runs, Given(run)'
    PROVE  \/ Given(run)
           \/ \E q \in Requests :
                 Advance(q) /\ job[q].run = run /\ pc[q] = "reissue" /\ Fresh(q)
<1> DEFINE Goal == \/ Given(run)
                   \/ \E q \in Requests : /\ Advance(q) /\ job[q].run = run
                                          /\ pc[q] = "reissue" /\ Fresh(q)
<1> SUFFICES ASSUME ~Given(run) PROVE Goal
  OBVIOUS
<1> USE DEF WaitInv, TokenInv, TypeInv, TypeOK
<1>0. /\ \A t \in disclosed : ~(token[t] = "waiting" /\ TokenRun(t) = run)
      /\ \A q \in Requests : ~(record[q] # "absent" /\ job[q].run = run)
  BY DEF Given, Holders, On
<1>1. \/ \E t \in disclosed' : token'[t] = "waiting" /\ TokenRun(t)' = run
      \/ \E q \in Requests : record'[q] # "absent" /\ job'[q].run = run
  BY DEF Given, Holders, On
<1>2. \A t \in disclosed : t \in Requests /\ t \in Tokens /\ TokenRun(t) = job[t].run
                          /\ pc[t] = "done"
  BY NamesDistinct DEF TokenRun, Tokens, RefreshKnown
<1>3. ASSUME NEW k \in Runs, Work(k) PROVE FALSE
  <2>1. UNCHANGED <<job, record, disclosed>>
    BY <1>3 DEF Work, IssueToken, PrepareMutation, PublishPrompt, WorkerRaises,
        MarkFailed, PublishFailure, StampFailure, requestVars, effectVars, tokenVars
  <2>2. \A t \in Requests : token'[t] = token[t]
    BY <1>3, NamesDistinct DEF Work, IssueToken, PrepareMutation, PublishPrompt,
        WorkerRaises, MarkFailed, PublishFailure, StampFailure, tokenVars, Tokens
  <2> QED
    BY <1>0, <1>1, <1>2, <2>1, <2>2 DEF TokenRun
<1>4. ASSUME NEW r \in Requests, NEW j \in Job, Begin(r, j) PROVE FALSE
  <2>1. record[r] = "absent" /\ r \notin disclosed
    BY <1>2, <1>4 DEF Begin, StepShape, Passing
  <2>2. UNCHANGED <<token, record, disclosed>> /\ \A q \in Requests \ {r} : job'[q] = job[q]
    BY <1>4 DEF Begin, tokenVars, effectVars
  <2> QED
    BY <1>0, <1>1, <1>2, <2>1, <2>2 DEF TokenRun
<1>5. ASSUME NEW r \in Requests, Advance(r) PROVE Goal
  <2>1. UNCHANGED job /\ job[r].run \in Runs
    BY <1>5, AdvanceFrame
  <2>2. ASSUME NEW t \in disclosed', token'[t] = "waiting", TokenRun(t)' = run
        PROVE  Goal
    <3>1. TokenRun(t) = run
      BY <2>1, <2>2 DEF TokenRun
    <3>2. CASE t \notin disclosed
      <4>1. pc[r] = "reissue" /\ Fresh(r) /\ t = r
        BY <1>5, <2>2, <3>2, AdvanceMore
      <4>2. job[r].run = run
        BY <3>1, <4>1, NamesDistinct DEF TokenRun
      <4> QED
        BY <1>5, <4>1, <4>2
    <3>3. CASE t \in disclosed
      <4>1. t # r
        BY <1>2, <1>5, <3>3, AdvanceMore
      <4>2. token[t] = "waiting"
        BY <1>2, <1>5, <2>2, <3>3, <4>1, AdvanceTokens
      <4> QED
        BY <1>0, <3>1, <3>3, <4>2
    <3> QED
      BY <3>2, <3>3
  <2>3. ASSUME NEW q \in Requests, record'[q] # "absent", job'[q].run = run
        PROVE  FALSE
    <3>1. record[q] = "absent"
      BY <1>0, <2>1, <2>3
    <3>2. q = r /\ pc[r] = "consume" /\ token[job[r].ref] = "waiting"
      BY <1>5, <2>3, <3>1, AdvanceFrame, AdvanceRecords
    <3>3. job[r].ref \in disclosed /\ TokenRun(job[r].ref) = run
      <4>1. TokenRun(job[r].ref) = run
        BY <2>1, <2>3, <3>2 DEF StepShape
      <4>2. job[r].kind \in {"confirm", "reject"}
        BY <3>2 DEF RefreshKnown
      <4> QED
        BY <4>1, <4>2 DEF RefreshKnown
    <3> QED
      BY <1>0, <3>2, <3>3
  <2> QED
    BY <1>1, <2>2, <2>3
<1>6. CASE UNCHANGED <<token, record, job, disclosed>>
  BY <1>0, <1>1, <1>6 DEF TokenRun
<1> QED
  BY <1>3, <1>4, <1>5, <1>6 DEF Next, Lapse, CrashRestart, vars, tokenVars,
      effectVars, requestVars

\* What the row of a waiting run says survives every step.
LEMMA RowStep == WaitInv /\ [Next]_vars => RowKnown'
<1> SUFFICES ASSUME WaitInv, [Next]_vars, NEW run \in Runs
             PROVE  /\ worker'[run] \in {"issue", "prepare"} => version'[run] = 0
                    /\ worker'[run] \in {"apology", "stamp"} => Past(run)'
                    /\ status'[run] = "waiting_confirmation" =>
                          /\ checkpoint'[run].status = "waiting_confirmation"
                          /\ checkpoint'[run].version = version'[run]
                    /\ checkpoint'[run].status # "none"
                       /\ checkpoint'[run].version = version'[run]
                          => status'[run] = checkpoint'[run].status
  BY DEF RowKnown
<1> DEFINE Goal == /\ worker'[run] \in {"issue", "prepare"} => version'[run] = 0
                   /\ worker'[run] \in {"apology", "stamp"} => Past(run)'
                   /\ status'[run] = "waiting_confirmation" =>
                         /\ checkpoint'[run].status = "waiting_confirmation"
                         /\ checkpoint'[run].version = version'[run]
                   /\ checkpoint'[run].status # "none"
                      /\ checkpoint'[run].version = version'[run]
                         => status'[run] = checkpoint'[run].status
<1> USE DEF WaitInv, TokenInv, TypeInv, TypeOK
<1>0. /\ version[run] \in Nat /\ checkpoint[run].version \in Nat
      /\ checkpoint[run].version <= version[run]
      /\ checkpoint[run] \in Context
  BY DEF VersionsGrow, Context
<1>1. CASE UNCHANGED <<status[run], version[run], checkpoint[run], worker[run]>>
  BY <1>1 DEF RowKnown, Past
<1>2. ASSUME NEW k \in Runs, Work(k) PROVE Goal
  <2>1. CASE k # run
    BY <1>1, <1>2, <2>1 DEF Work, IssueToken, PrepareMutation, PublishPrompt,
        WorkerRaises, MarkFailed, PublishFailure, StampFailure, CommitStep,
        BumpVersion, runVars
  <2>2. CASE IssueToken(run)
    BY <2>2 DEF IssueToken, runVars, RowKnown
  <2>3. CASE PrepareMutation(run)
    BY <2>3 DEF PrepareMutation, CommitStep, NoContext, RowKnown
  <2>4. CASE PublishPrompt(run) \/ WorkerRaises(run)
    BY <2>4 DEF PublishPrompt, WorkerRaises, runVars, RowKnown
  <2>5. CASE MarkFailed(run)
    BY <1>0, <2>5 DEF MarkFailed, BumpVersion, RowKnown, Past, Terminal
  <2>6. CASE PublishFailure(run)
    BY <2>6 DEF PublishFailure, runVars, RowKnown, Past
  <2>7. CASE StampFailure(run)
    BY <1>0, <2>7 DEF StampFailure, BumpVersion, RowKnown, Past
  <2> QED
    BY <1>2, <2>1, <2>2, <2>3, <2>4, <2>5, <2>6, <2>7 DEF Work
<1>3. ASSUME NEW r \in Requests, Advance(r) PROVE Goal
  <2>0. UNCHANGED worker /\ job[r].run \in Runs /\ pc[r] # "idle"
    BY <1>3, AdvanceFrame
  <2>1. CASE job[r].run # run
    BY <1>1, <1>3, <2>0, <2>1, AdvanceFrame
  <2>2. CASE UNCHANGED runVars
    BY <1>1, <2>0, <2>2 DEF runVars
  <2>3. CASE /\ pc[r] \in {"reason", "stamp"} /\ job[r].run = run
             /\ UNCHANGED <<status, checkpoint>>
             /\ version' = [version EXCEPT ![job[r].run] = @ + 1]
    <3>1. Past(run)
      BY <2>0, <2>3 DEF ConfirmKnown
    <3> QED
      BY <1>0, <2>0, <2>3, <3>1 DEF RowKnown, Past
  <2>4. ASSUME Fresh(r), NEW next \in RunStatus, CommitStep(job[r].run, ctx[r], next),
               job[r].run = run, pc[r] \notin {"idle", "load", "refused", "crashed"},
               next = "waiting_confirmation" => pc[r] = "reissue"
        PROVE  Goal
    <3>1. worker[run] \notin {"issue", "prepare"}
      BY <2>4, LoadedRun
    <3>2. /\ status'[run] = next /\ checkpoint'[run].status = next
          /\ checkpoint'[run].version = ctx[r].version + 1
          /\ version'[run] = version[run] + 1
      BY <2>4 DEF CommitStep
    <3>3. ctx[r].version = version[run]
      BY <2>4 DEF Fresh
    <3>4. Past(run) => Past(run)'
      BY PastStays
    <3> QED
      BY <2>0, <3>1, <3>2, <3>3, <3>4 DEF RowKnown
  <2>5. FinalStatus(r) # "waiting_confirmation"
    BY DEF FinalStatus
  <2> QED
    BY <1>3, <2>1, <2>2, <2>3, <2>4, <2>5, AdvanceRow
<1>4. CASE CrashRestart
  <2>1. worker'[run] \in {"failing", "done"} /\ UNCHANGED checkpoint
    BY <1>4 DEF CrashRestart
  <2>2. \/ status'[run] = status[run] /\ version'[run] = version[run]
        \/ status'[run] = "expired" /\ version'[run] = version[run] + 1
    BY <1>4 DEF CrashRestart
  <2> QED
    BY <1>0, <2>1, <2>2 DEF RowKnown
<1> QED
  BY <1>1, <1>2, <1>3, <1>4 DEF Next, Begin, Lapse, vars, runVars

\* A version a request held and the row has now was the row's all along.
LEMMA HeldVersion ==
    ASSUME TypeInv, VersionsGrow, [Next]_vars, NEW r \in Requests, pc[r] # "idle",
           ctx[r].version = version'[job[r].run]
    PROVE  Fresh(r) /\ version'[job[r].run] = version[job[r].run]
<1>1. job[r].run \in Runs
  BY DEF TypeInv, JobKnown, Job
<1>2. ctx[r].version \in Nat /\ ctx[r].version <= version[job[r].run]
  BY DEF TypeInv, TypeOK, Context, VersionsGrow
<1> QED
  BY <1>1, <1>2, VersionUp DEF Fresh

\* A refresh that is not stale writes the row.
LEMMA ReissueMoves ==
    ASSUME TypeInv, NEW q \in Requests, Advance(q), pc[q] = "reissue", Fresh(q)
    PROVE  version'[job[q].run] # version[job[q].run]
<1>1. Reissue(q)
  BY DEF Advance, LoadContext, LoadToken, LookupKey, ConsumeAndReserve, StartCommit,
      RereadVersion, Claim, CallAdapter, ObserveCommit, Verdict, Verify, OpenTicket,
      Finish, RejectToken, InvalidateTokens, Withdraw, LoadNewest, Rotate,
      ResolveCheckpoint, ResolveTicket, Publish, SetReason
<1>2. job[q].run \in Runs
  BY AdvanceFrame
<1> QED
  BY <1>1, <1>2 DEF Reissue, LastCommit, CommitStep, TypeInv, TypeOK

\* A step leaves what a request holds alone, unless it is its own; it may
\* begin the request or kill it.
LEMMA OthersKeep ==
    ASSUME TypeInv, [Next]_vars, NEW r \in Requests, ~Advance(r)
    PROVE  /\ ctx'[r] = ctx[r] /\ record'[r] = record[r] /\ seen'[r] = seen[r]
           /\ \/ pc[r] = "idle" /\ pc'[r] = "load"
              \/ job'[r] = job[r] /\ pc'[r] = pc[r]
              \/ job'[r] = job[r] /\ pc[r] \in Serving /\ pc'[r] = "crashed"
<1> DEFINE Goal == /\ ctx'[r] = ctx[r] /\ record'[r] = record[r] /\ seen'[r] = seen[r]
                   /\ \/ pc[r] = "idle" /\ pc'[r] = "load"
                      \/ job'[r] = job[r] /\ pc'[r] = pc[r]
                      \/ job'[r] = job[r] /\ pc[r] \in Serving /\ pc'[r] = "crashed"
<1> USE DEF TypeInv, TypeOK
<1>1. ASSUME NEW k \in Runs, Work(k) PROVE UNCHANGED <<requestVars, record>>
  BY <1>1 DEF Work, IssueToken, PrepareMutation, PublishPrompt, WorkerRaises,
        MarkFailed, PublishFailure, StampFailure, effectVars
<1>2. ASSUME NEW q \in Requests, NEW j \in Job, Begin(q, j) PROVE Goal
  BY <1>2 DEF Begin, Goto, effectVars
<1>3. ASSUME NEW q \in Requests, Advance(q) PROVE Goal
  BY <1>3, AdvanceFrame
<1>4. CASE CrashRestart
  BY <1>4 DEF CrashRestart, effectVars
<1> QED
  BY <1>1, <1>2, <1>3, <1>4 DEF Next, Lapse, vars, requestVars, effectVars

\* Refreshes stay as stale as they are.
LEMMA RefreshStep == WaitInv /\ [Next]_vars => RefreshKnown'
<1> SUFFICES ASSUME WaitInv, [Next]_vars, NEW r \in Requests
             PROVE  /\ job'[r].kind \in {"confirm", "reject"} => job'[r].ref \in disclosed'
                    /\ pc'[r] \in {"token", "lookup", "consume"} =>
                          job'[r].kind \in {"confirm", "reject"}
                    /\ r \in disclosed' => pc'[r] = "done"
                    /\ pc'[r] \in {"newest", "rotate", "reissue"} /\ Fresh(r)' =>
                          status'[job'[r].run] = "waiting_confirmation"
                    /\ pc'[r] = "reissue" /\ Given(job[r].run)' => ~Fresh(r)'
  BY DEF RefreshKnown
<1> USE DEF WaitInv, TokenInv, TypeInv, TypeOK
<1>1. /\ disclosed \subseteq disclosed'
      /\ job'[r].kind \in {"confirm", "reject"} => job'[r].ref \in disclosed'
      /\ r \in disclosed' => pc'[r] = "done"
  <2>1. ASSUME NEW q \in Requests, Advance(q)
        PROVE  /\ disclosed \subseteq disclosed' /\ UNCHANGED job
               /\ r \in disclosed' => pc'[r] = "done"
    <3>1. CASE q = r
      BY <2>1, <3>1, AdvanceFrame, AdvanceMore DEF RefreshKnown
    <3>2. CASE q # r
      BY <2>1, <3>2, AdvanceFrame, AdvanceMore DEF RefreshKnown
    <3> QED
      BY <3>1, <3>2
  <2>2. ASSUME NEW q \in Requests, NEW j \in Job, Begin(q, j)
        PROVE  /\ disclosed' = disclosed
               /\ job'[r].kind \in {"confirm", "reject"} => job'[r].ref \in disclosed
               /\ r \in disclosed' => pc'[r] = "done"
    BY <2>2 DEF Begin, Goto, RefreshKnown, tokenVars
  <2>3. ASSUME NEW k \in Runs, Work(k) PROVE UNCHANGED <<disclosed, job, pc>>
    BY <2>3 DEF Work, IssueToken, PrepareMutation, PublishPrompt, WorkerRaises,
        MarkFailed, PublishFailure, StampFailure, tokenVars, requestVars
  <2>4. CASE CrashRestart
    BY <2>4 DEF CrashRestart, tokenVars, RefreshKnown, Serving
  <2> QED
    BY <2>1, <2>2, <2>3, <2>4 DEF Next, Lapse, RefreshKnown, vars, requestVars
<1>2. ASSUME pc'[r] \in {"token", "lookup", "consume"}
      PROVE  job'[r].kind \in {"confirm", "reject"}
  <2>1. CASE Advance(r)
    <3>1. job' = job /\ pc[r] # "idle" /\ job[r] \in Job
      BY <2>1, AdvanceFrame DEF JobKnown
    <3>2. CASE pc[r] \in {"token", "lookup", "consume"}
      BY <3>1, <3>2 DEF RefreshKnown
    <3>3. CASE pc[r] \notin {"token", "lookup", "consume"}
      BY <1>2, <2>1, <3>1, <3>3, AdvanceMore, AdvanceCtx DEF AfterLoad, Job, Kinds
    <3> QED
      BY <3>2, <3>3
  <2>2. CASE ~Advance(r)
    BY <1>2, <2>2, OthersKeep DEF RefreshKnown
  <2> QED
    BY <2>1, <2>2
<1>3. ASSUME pc'[r] \in {"newest", "rotate", "reissue"}, Fresh(r)'
      PROVE  status'[job'[r].run] = "waiting_confirmation"
  <2>1. CASE pc[r] = "load" /\ Advance(r)
    <3>1. /\ UNCHANGED runVars /\ UNCHANGED job /\ job[r].run \in Runs
          /\ ctx'[r] = checkpoint[job[r].run]
          /\ checkpoint[job[r].run].status = "waiting_confirmation"
      <4>1. job[r].kind \in Kinds /\ job[r].run \in Runs /\ UNCHANGED job
        BY <2>1, AdvanceFrame DEF Job
      <4>2. /\ UNCHANGED runVars /\ pc'[r] = AfterLoad[job[r].kind]
            /\ ctx'[r] = checkpoint[job[r].run]
            /\ checkpoint[job[r].run].status \in Resumable(job[r].kind)
        BY <1>3, <2>1, AdvanceCtx
      <4>3. job[r].kind = "refresh"
        BY <1>3, <4>1, <4>2 DEF AfterLoad, Kinds
      <4> QED
        BY <4>1, <4>2, <4>3 DEF Resumable
    <3> QED
      BY <1>3, <3>1 DEF Fresh, RowKnown, runVars
  <2>2. CASE ~(pc[r] = "load" /\ Advance(r))
    <3>1. /\ pc[r] \in {"newest", "rotate", "reissue"} /\ job'[r] = job[r]
          /\ ctx'[r].version = ctx[r].version
      <4>1. CASE Advance(r)
        <5>1. pc[r] \in {"newest", "rotate"}
          BY <1>3, <2>2, <4>1, AdvancePc
        <5> QED
          BY <4>1, <5>1, AdvanceCtx, AdvanceFrame
      <4>2. CASE ~Advance(r)
        BY <1>3, <4>2, OthersKeep
      <4> QED
        BY <4>1, <4>2
    <3>2. Fresh(r) /\ version'[job[r].run] = version[job[r].run]
      BY <1>3, <3>1, HeldVersion DEF Fresh
    <3>3. job[r].run \in Runs
      BY <3>1 DEF JobKnown, Job
    <3> QED
      BY <3>1, <3>2, <3>3, RowMoves DEF RefreshKnown
  <2> QED
    BY <2>1, <2>2
<1>4. ASSUME pc'[r] = "reissue", Given(job[r].run)' PROVE ~Fresh(r)'
  <2>1. CASE Advance(r)
    <3>1. pc[r] = "rotate"
      BY <1>4, <2>1, AdvancePc
    <3>2. Rotate(r)
      BY <2>1, <3>1 DEF Advance, LoadContext, LoadToken, LookupKey,
          ConsumeAndReserve, StartCommit, RereadVersion, Claim, CallAdapter,
          ObserveCommit, Verdict, Verify, OpenTicket, Finish, RejectToken,
          InvalidateTokens, Withdraw, LoadNewest, Reissue, ResolveCheckpoint,
          ResolveTicket, Publish, SetReason
    <3>3. PICK t \in Tokens :
              /\ token[t] = "waiting"
              /\ TokenRun(t) = job[r].run
              /\ token' = [token EXCEPT ![t] = "invalidated", ![r] = "waiting"]
      BY <1>4, <3>2, RotateCases
    <3>4. UNCHANGED <<job, record, disclosed>> /\ token[r] = "absent" /\ r \notin disclosed
      BY <3>1, <3>2 DEF Rotate, effectVars, StepShape, RefreshKnown
    <3>5. ASSUME NEW u \in disclosed, token'[u] = "waiting", TokenRun(u) = job[r].run
          PROVE  FALSE
      <4>1. u \in Tokens /\ u # r
        BY <3>4 DEF Tokens
      <4>2. token[u] = "waiting" /\ u # t
        BY <3>3, <3>4, <3>5, <4>1
      <4> QED
        BY <3>3, <3>5, <4>1, <4>2 DEF OneChance
    <3>6. ASSUME NEW q \in Requests, record[q] # "absent", job[q].run = job[r].run
          PROVE  FALSE
      BY <3>3, <3>6 DEF OneChance
    <3>7. \/ \E u \in disclosed : token'[u] = "waiting" /\ TokenRun(u) = job[r].run
          \/ \E q \in Requests : record[q] # "absent" /\ job[q].run = job[r].run
      BY <1>4, <3>4 DEF Given, Holders, On, TokenRun
    <3> QED
      BY <3>5, <3>6, <3>7
  <2>2. CASE ~Advance(r)
    <3>1. /\ pc[r] = "reissue" /\ job'[r] = job[r] /\ job[r].run \in Runs
          /\ ctx'[r] = ctx[r]
      BY <1>4, <2>2, OthersKeep DEF JobKnown, Job
    <3>2. SUFFICES ASSUME Fresh(r)' PROVE FALSE
      OBVIOUS
    <3>3. Fresh(r) /\ version'[job[r].run] = version[job[r].run]
      BY <3>1, <3>2, HeldVersion DEF Fresh
    <3>4. ~Given(job[r].run)
      BY <3>1, <3>3 DEF RefreshKnown
    <3>5. PICK q \in Requests : /\ Advance(q) /\ job[q].run = job[r].run
                                /\ pc[q] = "reissue" /\ Fresh(q)
      BY <1>4, <3>1, <3>4, GivenGrows DEF Given
    <3> QED
      BY <3>1, <3>3, <3>5, ReissueMoves
  <2> QED
    BY <2>1, <2>2
<1> QED
  BY <1>1, <1>2, <1>3, <1>4

\* A token in a client's hands that can be used could be used before the step.
LEMMA TokenKept ==
    ASSUME WaitInv, [Next]_vars, NEW t \in disclosed, token'[t] = "waiting"
    PROVE  token[t] = "waiting" /\ TokenRun(t)' = TokenRun(t)
<1> USE DEF WaitInv, TokenInv, TypeInv, TypeOK
<1>0. t \in Requests /\ t \in Tokens /\ t \notin Runs /\ pc[t] = "done"
  BY NamesDistinct DEF Tokens, RefreshKnown
<1>1. ASSUME NEW k \in Runs, Work(k) PROVE token'[t] = token[t] /\ UNCHANGED job
  BY <1>0, <1>1 DEF Work, IssueToken, PrepareMutation, PublishPrompt, WorkerRaises,
      MarkFailed, PublishFailure, StampFailure, tokenVars, requestVars
<1>2. ASSUME NEW q \in Requests, NEW j \in Job, Begin(q, j)
      PROVE  token'[t] = token[t] /\ job'[t] = job[t]
  BY <1>0, <1>2 DEF Begin, tokenVars
<1>3. ASSUME NEW q \in Requests, Advance(q)
      PROVE  token[t] = "waiting" /\ UNCHANGED job
  BY <1>0, <1>3, AdvanceTokens, AdvanceFrame
<1>4. CASE CrashRestart
  BY <1>4 DEF CrashRestart, tokenVars, TokenRun
<1> QED
  BY <1>0, <1>1, <1>2, <1>3, <1>4 DEF Next, Lapse, vars, requestVars, TokenRun

\* A worker's job does not go back to its start.
LEMMA WorkerOn ==
    ASSUME TypeInv, [Next]_vars, NEW run \in Runs, worker'[run] \in {"issue", "prepare"}
    PROVE  worker[run] \in {"issue", "prepare"}
<1> USE DEF TypeInv, TypeOK
<1>1. ASSUME NEW k \in Runs, Work(k) PROVE worker[run] \in {"issue", "prepare"}
  BY <1>1 DEF Work, IssueToken, PrepareMutation, PublishPrompt, WorkerRaises,
      MarkFailed, PublishFailure, StampFailure
<1>2. ASSUME NEW q \in Requests, Advance(q) PROVE UNCHANGED worker
  BY <1>2, AdvanceFrame
<1> QED
  BY <1>1, <1>2 DEF Next, Begin, Lapse, CrashRestart, vars

\* A request that waits its turn on a waiting run keeps the version of the row
\* while a client holds the run's token or its reservation.
LEMMA VersionHolds ==
    ASSUME WaitInv, [Next]_vars, NEW run \in Runs, Given(run),
           worker[run] \notin {"issue", "prepare"}, ~Past(run)'
    PROVE  ~Past(run) /\ version'[run] = version[run]
<1>1. ~Past(run)
  BY PastStays
<1>2. status[run] = "waiting_confirmation"
  BY <1>1 DEF Past
<1>3. status'[run] = "waiting_confirmation"
  BY WorkerOn DEF Past, WaitInv, TokenInv
<1>4. ASSUME NEW q \in Requests, job[q].run = run, pc[q] = "reissue", Fresh(q)
      PROVE  FALSE
  BY <1>4 DEF WaitInv, RefreshKnown
<1> QED
  BY <1>1, <1>2, <1>3, <1>4, WaitingMoves

\* Confirmations keep the version of the row for as long as their token lasts.
LEMMA ConfirmStep == WaitInv /\ [Next]_vars => ConfirmKnown'
<1> SUFFICES ASSUME WaitInv, [Next]_vars, NEW r \in Requests
             PROVE  IF pc'[r] = "idle" THEN ctx'[r].status = "none" ELSE
                    /\ pc'[r] \in {"reason", "stamp"} => ctx'[r].status \in Terminal
                    /\ ctx'[r].status \in Terminal => Past(job[r].run)'
                    /\ record'[r] # "absent" =>
                          pc'[r] \in {"committing", "crashed"} \/ Past(job[r].run)'
                    /\ pc'[r] = "committing" /\ ~Past(job[r].run)' => Fresh(r)'
                    /\ /\ pc'[r] \in {"token", "lookup", "consume"}
                       /\ ~Past(job[r].run)'
                       /\ token'[job'[r].ref] = "waiting"
                       /\ TokenRun(job[r].ref)' = job'[r].run
                       => Fresh(r)'
  BY DEF ConfirmKnown
<1> USE DEF WaitInv, TokenInv, TypeInv, TypeOK
<1>1. CASE pc[r] = "idle" /\ ~Advance(r)
  <2>1. record[r] = "absent" /\ ctx[r].status = "none"
    BY <1>1 DEF StepShape, Passing, ConfirmKnown
  <2>2. /\ pc'[r] \in {"idle", "load"} /\ ctx'[r] = ctx[r]
        /\ record'[r] = record[r]
    BY <1>1, OthersKeep DEF Serving
  <2> QED
    BY <2>1, <2>2 DEF Terminal
<1>2. CASE pc[r] # "idle"
  <2>1. PICK run \in Runs : run = job[r].run
    BY <1>2 DEF JobKnown, Job
  <2>2. PICK ref : ref = job[r].ref
    OBVIOUS
  <2>3. job'[r] = job[r] /\ pc'[r] # "idle" /\ job[r].kind \in Kinds
    <3>4. job'[r] = job[r]
      BY <1>2, AdvanceFrame, OthersKeep
    <3>5. pc'[r] = "idle" => job'[r] = NoJob
      BY TypeStep DEF JobKnown
    <3>6. NoJob.run \notin Runs
      BY NoneIsNoName DEF NoJob
    <3> QED
      BY <1>2, <2>1, <3>4, <3>5, <3>6 DEF JobKnown, Job
  <2>4. Past(run) => Past(run)'
    BY PastStays
  <2>5. /\ Past(job[r].run)' <=> Past(run)'
        /\ Fresh(r)' <=> ctx'[r].version = version'[run]
        /\ Fresh(r) <=> ctx[r].version = version[run]
        /\ Past(run)' <=> /\ status'[run] # "waiting_confirmation"
                          /\ worker'[run] \notin {"issue", "prepare"}
    BY <2>1, <2>3 DEF Past, Fresh
  <2>6. ASSUME pc[r] \in {"token", "lookup", "consume"}, token'[ref] = "waiting",
               TokenRun(job[r].ref)' = run
        PROVE  /\ ref \in disclosed /\ token[ref] = "waiting" /\ TokenRun(ref) = run
               /\ Given(run)
    <3>1. ref \in disclosed
      BY <2>2, <2>6 DEF RefreshKnown
    <3>2. token[ref] = "waiting" /\ TokenRun(ref)' = TokenRun(ref)
      BY <2>6, <3>1, TokenKept
    <3>3. TokenRun(job[r].ref)' = TokenRun(ref)'
      BY <2>2, <2>3 DEF TokenRun
    <3> QED
      BY <2>6, <3>1, <3>2, <3>3 DEF Given
  <2>7. CASE ~Advance(r)
    <3>1. ctx'[r] = ctx[r] /\ record'[r] = record[r] /\ pc'[r] \in {pc[r], "crashed"}
      BY <1>2, <2>7, OthersKeep
    <3>2. ctx'[r].status \in Terminal => Past(run)'
      BY <1>2, <2>1, <2>4, <3>1 DEF ConfirmKnown
    <3>3. CASE pc'[r] = "crashed"
      BY <2>3, <2>5, <3>2, <3>3
    <3>4. CASE pc'[r] = pc[r]
      <4>1. pc'[r] = pc[r] /\ ctx'[r] = ctx[r] /\ record'[r] = record[r]
        BY <3>1, <3>4
      <4>2. /\ pc'[r] \in {"reason", "stamp"} => ctx'[r].status \in Terminal
            /\ record'[r] # "absent" =>
                  pc'[r] \in {"committing", "crashed"} \/ Past(run)'
        BY <1>2, <2>1, <2>4, <4>1 DEF ConfirmKnown
      <4>3. ASSUME pc'[r] = "committing", ~Past(run)' PROVE Fresh(r)'
        <5>1. Given(run) /\ worker[run] \notin {"issue", "prepare"}
          <6>1. record[r] # "absent" /\ job[r].run = run
            BY <2>1, <4>1, <4>3, ZenonT(40) DEF StepShape
          <6>2. Given(run)
            BY <6>1 DEF Given, Holders, On
          <6> QED
            BY <4>1, <4>3, <6>1, <6>2, LoadedRun
        <5>2. ~Past(run) /\ version'[run] = version[run]
          BY <4>3, <5>1, VersionHolds
        <5> QED
          BY <1>2, <2>1, <2>5, <4>1, <4>3, <5>2 DEF ConfirmKnown
      <4>4. ASSUME pc'[r] \in {"token", "lookup", "consume"}, ~Past(run)',
                   token'[ref] = "waiting", TokenRun(job[r].ref)' = run
            PROVE  Fresh(r)'
        <5>1. worker[run] \notin {"issue", "prepare"}
          BY <2>1, <4>1, <4>4, LoadedRun
        <5>2. ~Past(run) /\ version'[run] = version[run]
          BY <2>6, <4>1, <4>4, <5>1, VersionHolds
        <5> QED
          BY <1>2, <2>1, <2>2, <2>5, <2>6, <4>1, <4>4, <5>2 DEF ConfirmKnown
      <4> QED
        BY <2>1, <2>2, <2>3, <2>5, <3>2, <4>2, <4>3, <4>4
    <3> QED
      BY <3>1, <3>3, <3>4
  <2>8. CASE Advance(r)
    <3>0. /\ UNCHANGED worker
          /\ pc[r] \notin {"idle", "done", "refused", "crashed", "error"}
      BY <2>8, AdvanceFrame, AdvanceMore
    <3>1. pc'[r] \in {"reason", "stamp"} => ctx'[r].status \in Terminal
      BY <2>8, AdvanceMore
    <3>2. ASSUME ctx'[r].status \in Terminal PROVE Past(run)'
      <4>1. CASE ctx[r].status = ctx'[r].status
        BY <1>2, <2>1, <2>4, <3>2, <4>1 DEF ConfirmKnown
      <4>2. CASE UNCHANGED runVars /\ ctx'[r] = checkpoint[run]
        <5>1. checkpoint[run].status \notin {"none", "waiting_confirmation"}
          BY <3>2, <4>2 DEF Terminal
        <5>2. status[run] # "waiting_confirmation" /\ worker[run] \notin {"issue", "prepare"}
          BY <5>1 DEF RowKnown, NoCheckpointYet
        <5> QED
          BY <2>5, <3>0, <4>2, <5>2 DEF runVars
      <4>3. CASE pc[r] # "load" /\ status'[run] = ctx'[r].status
        <5>1. worker[run] \notin {"issue", "prepare"}
          BY <2>1, <3>0, <4>3, LoadedRun
        <5> QED
          BY <2>5, <3>0, <3>2, <4>3, <5>1 DEF Terminal
      <4> QED
        BY <2>1, <2>8, <3>2, <4>1, <4>2, <4>3, AdvanceMore
    <3>3. ASSUME record'[r] # "absent" PROVE pc'[r] = "committing" \/ Past(run)'
      <4>1. CASE record[r] = "absent"
        BY <2>8, <3>3, <4>1, AdvanceRecords
      <4>2. CASE record[r] # "absent" /\ pc[r] = "committing"
        <5>1. CASE Fresh(r)
          <6>1. worker[run] \notin {"issue", "prepare"}
            BY <2>1, <4>2, LoadedRun
          <6>2. status'[run] = "committing"
            BY <2>1, <2>8, <4>2, <5>1, AdvanceMore
          <6> QED
            BY <2>5, <3>0, <6>1, <6>2
        <5>2. CASE ~Fresh(r)
          BY <1>2, <2>1, <2>4, <4>2, <5>2 DEF ConfirmKnown
        <5> QED
          BY <5>1, <5>2
      <4>3. CASE record[r] # "absent" /\ pc[r] # "committing"
        BY <1>2, <2>1, <2>4, <3>0, <4>3 DEF ConfirmKnown
      <4> QED
        BY <4>1, <4>2, <4>3
    <3>4. ASSUME pc[r] \in {"token", "lookup", "consume"}
          PROVE  UNCHANGED runVars /\ ctx'[r].version = ctx[r].version
      <4>1. UNCHANGED runVars
        BY <2>8, <3>4, AdvanceRow
      <4>2. ctx'[r].version = ctx[r].version
        BY <2>8, <3>4, AdvanceCtx
      <4> QED
        BY <4>1, <4>2
    <3>5. ASSUME pc'[r] = "committing", ~Past(run)' PROVE Fresh(r)'
      <4>1. pc[r] = "consume" /\ record[r] = "absent"
        BY <2>8, <3>5, AdvanceMore DEF StepShape, Passing
      <4>2. record'[r] # "absent"
        BY <3>5, TokenStep DEF StepShape
      <4>3. token[ref] = "waiting" /\ TokenRun(job[r].ref) = run
        BY <2>1, <2>2, <2>8, <4>1, <4>2, AdvanceRecords DEF StepShape
      <4>4. Fresh(r)
        BY <1>2, <2>1, <2>2, <2>4, <3>5, <4>1, <4>3 DEF ConfirmKnown
      <4> QED
        BY <2>5, <3>4, <4>1, <4>4 DEF runVars
    <3>6. ASSUME pc'[r] \in {"token", "lookup", "consume"}, ~Past(run)',
                 token'[ref] = "waiting", TokenRun(job[r].ref)' = run
          PROVE  Fresh(r)'
      <4>1. CASE pc'[r] = "token"
        <5>1. pc[r] = "load"
          BY <2>8, <4>1, AdvanceMore
        <5>2. UNCHANGED runVars /\ ctx'[r] = checkpoint[run] /\ checkpoint[run].status # "none"
          BY <2>1, <2>8, <4>1, <5>1, AdvanceCtx
        <5>3. status[run] = "waiting_confirmation"
          BY <2>5, <3>0, <3>6, <5>2 DEF runVars, NoCheckpointYet
        <5> QED
          BY <2>5, <5>2, <5>3 DEF RowKnown, runVars
      <4>2. CASE pc'[r] # "token"
        <5>1. pc[r] \in {"token", "lookup"}
          BY <2>8, <3>6, <4>2, AdvanceMore
        <5>2. token[ref] = "waiting" /\ TokenRun(ref) = run
          BY <2>6, <3>6, <5>1
        <5>3. Fresh(r)
          BY <1>2, <2>1, <2>2, <2>4, <3>6, <5>1, <5>2 DEF ConfirmKnown
        <5> QED
          BY <2>5, <3>4, <5>1, <5>3 DEF runVars
      <4> QED
        BY <4>1, <4>2
    <3> QED
      BY <2>1, <2>2, <2>3, <2>5, <3>1, <3>2, <3>3, <3>5, <3>6
  <2> QED
    BY <2>7, <2>8
<1> QED
  BY <1>1, <1>2, AdvanceFrame

\* The waiting invariant holds at the start.
LEMMA WaitInit == Init => WaitInv
<1> SUFFICES ASSUME Init PROVE WaitInv
  OBVIOUS
<1>1. TokenInv /\ VersionsGrow
  BY TokenInit, RunInit DEF RunInv
<1>2. RowKnown
  BY DEF Init, RowKnown, Past, NoContext
<1>3. ASSUME NEW q \in Requests
      PROVE  pc[q] = "idle" /\ job[q].kind = "none" /\ ctx[q].status = "none"
  BY DEF Init, NoJob, NoContext
<1>4. RefreshKnown /\ ConfirmKnown
  BY <1>3 DEF RefreshKnown, ConfirmKnown, Init
<1> QED
  BY <1>1, <1>2, <1>4 DEF WaitInv

\* The waiting invariant is inductive, whatever fails.
LEMMA WaitStep == WaitInv /\ [Next]_vars => WaitInv'
<1> SUFFICES ASSUME WaitInv, [Next]_vars PROVE WaitInv'
  OBVIOUS
<1>1. TokenInv' /\ VersionsGrow'
  BY TokenStep, VersionsStep DEF WaitInv
<1>2. RowKnown' /\ RefreshKnown' /\ ConfirmKnown'
  BY RowStep, RefreshStep, ConfirmStep
<1> QED
  BY <1>1, <1>2 DEF WaitInv

\* A confirmation that has spent the run's token moves the run or dies with the
\* process: no refresh, stale context or late failure of the worker makes it
\* give up on a run that nobody else could confirm any more.
THEOREM ReservationIsKept == Spec => []ReservationNotAbandoned
<1>1. WaitInv => ReservationNotAbandoned
  <2> SUFFICES ASSUME WaitInv, NEW r \in Requests, record[r] = "reserved",
                      status[job[r].run] = "waiting_confirmation"
               PROVE  pc[r] \in {"committing", "crashed"}
    BY DEF ReservationNotAbandoned
  <2>1. pc[r] # "idle"
    BY DEF WaitInv, TokenInv, StepShape, Passing
  <2> QED
    BY <2>1 DEF WaitInv, ConfirmKnown, Past
<1> QED
  BY <1>1, WaitInit, WaitStep, PTL DEF Spec

-------------------------------------------------------------------------------
(***************************************************************************)
(* A reply that claims a result agrees with the run row                    *)
(***************************************************************************)

Definite == {"completed", "cancelled"}

\* A checkpoint or a context that says how the run ended is right about it.
ResultKnown ==
    /\ \A run \in Runs : checkpoint[run].status \in Definite =>
           status[run] = checkpoint[run].status
    /\ \A r \in Requests : pc[r] # "idle" /\ ctx[r].status \in Definite =>
           status[job[r].run] = ctx[r].status

ReplyInv == RunInv /\ WaitInv /\ ResultKnown /\ ReplyHonest

\* A checkpoint is written together with the status it holds.
LEMMA CheckpointMoves ==
    ASSUME TypeInv, [Next]_vars, NEW run \in Runs
    PROVE  checkpoint'[run] = checkpoint[run] \/ checkpoint'[run].status = status'[run]
<1> USE DEF TypeInv, TypeOK
<1>1. ASSUME NEW k \in Runs, Work(k)
      PROVE  checkpoint'[run] = checkpoint[run] \/ checkpoint'[run].status = status'[run]
  BY <1>1 DEF Work, IssueToken, PrepareMutation, PublishPrompt, WorkerRaises,
      MarkFailed, PublishFailure, StampFailure, CommitStep, runVars
<1>2. ASSUME NEW r \in Requests, Advance(r)
      PROVE  checkpoint'[run] = checkpoint[run] \/ checkpoint'[run].status = status'[run]
  <2>1. ASSUME NEW next \in RunStatus, CommitStep(job[r].run, ctx[r], next)
        PROVE  checkpoint'[run] = checkpoint[run] \/ checkpoint'[run].status = status'[run]
    BY <2>1 DEF CommitStep
  <2> QED
    BY <1>2, <2>1, AdvanceRow DEF runVars
<1> QED
  BY <1>1, <1>2 DEF Next, Begin, Lapse, CrashRestart, vars, runVars

\* What a run is told, and by whom.
LEMMA ReplyMoves ==
    ASSUME TypeInv, [Next]_vars, NEW run \in Runs
    PROVE  \/ reply'[run] \in {reply[run], "failed", status'[run]}
           \/ \E r \in Requests :
                 pc[r] # "idle" /\ job[r].run = run /\ reply'[run] = ctx[r].status
<1> DEFINE Goal == \/ reply'[run] \in {reply[run], "failed", status'[run]}
                   \/ \E r \in Requests : /\ pc[r] # "idle" /\ job[r].run = run
                                          /\ reply'[run] = ctx[r].status
<1> USE DEF TypeInv, TypeOK
<1>1. ASSUME NEW k \in Runs, Work(k) PROVE Goal
  BY <1>1 DEF Work, IssueToken, PrepareMutation, PublishPrompt, WorkerRaises,
      MarkFailed, PublishFailure, StampFailure, Announce
<1>2. ASSUME NEW r \in Requests, Advance(r) PROVE Goal
  <2>1. CASE Publish(r)
    BY <2>1 DEF Publish, Announce
  <2>2. CASE UNCHANGED reply
    BY <2>2
  <2> QED
    BY <1>2, <2>1, <2>2 DEF Advance, LoadContext, LoadToken, LookupKey,
      ConsumeAndReserve, StartCommit, RereadVersion, Claim, CallAdapter,
      ObserveCommit, Verdict, Verify, OpenTicket, Finish, RejectToken,
      InvalidateTokens, Withdraw, LoadNewest, Rotate, Reissue, ResolveCheckpoint,
      ResolveTicket, SetReason
<1>3. CASE CrashRestart
  BY <1>3 DEF CrashRestart
<1> QED
  BY <1>1, <1>2, <1>3 DEF Next, Begin, Lapse, vars

\* What a request knows of the end of its run stays right.
LEMMA ResultStep == ReplyInv /\ [Next]_vars => ResultKnown'
<1> SUFFICES ASSUME ReplyInv, [Next]_vars PROVE ResultKnown'
  OBVIOUS
<1> USE DEF ReplyInv, RunInv, TokenInv
<1>1. ASSUME NEW run \in Runs, checkpoint'[run].status \in Definite
      PROVE  status'[run] = checkpoint'[run].status
  <2>1. CASE checkpoint'[run] = checkpoint[run]
    BY <1>1, <2>1, EndedStays DEF ResultKnown, Definite
  <2> QED
    BY <2>1, CheckpointMoves
<1>2. ASSUME NEW r \in Requests, pc'[r] # "idle", ctx'[r].status \in Definite
      PROVE  status'[job'[r].run] = ctx'[r].status
  <2>1. CASE Advance(r)
    <3>1. PICK run \in Runs : run = job[r].run /\ job'[r] = job[r]
      BY <2>1, AdvanceFrame
    <3>2. pc[r] # "idle" /\ ctx'[r].status \in Terminal
      BY <1>2, <2>1, AdvanceMore DEF Definite, Terminal
    <3>3. CASE ctx'[r].status = ctx[r].status
      BY <1>2, <3>1, <3>2, <3>3, EndedStays DEF ResultKnown, Definite
    <3>4. CASE UNCHANGED runVars /\ ctx'[r] = checkpoint[run]
      BY <1>2, <3>1, <3>4 DEF ResultKnown, runVars
    <3> QED
      BY <2>1, <3>1, <3>2, <3>3, <3>4, AdvanceMore
  <2>2. CASE ~Advance(r)
    <3>1. pc[r] # "idle" /\ ctx'[r] = ctx[r] /\ job'[r] = job[r]
      <4>1. pc[r] = "idle" => ctx[r].status = "none"
        BY DEF WaitInv, ConfirmKnown
      <4> QED
        BY <1>2, <2>2, <4>1, OthersKeep DEF Definite
    <3>2. PICK run \in Runs : run = job[r].run
      BY <3>1 DEF TypeInv, JobKnown, Job
    <3> QED
      BY <1>2, <3>1, <3>2, EndedStays DEF ResultKnown, Definite
  <2> QED
    BY <2>1, <2>2
<1> QED
  BY <1>1, <1>2 DEF ResultKnown

\* No step announces a definite result the row does not hold, or moves a row
\* away from what was announced.
LEMMA ReplyStep == ReplyInv /\ [Next]_vars => ReplyHonest'
<1> SUFFICES ASSUME ReplyInv, [Next]_vars, NEW run \in Runs, reply'[run] \in Definite
             PROVE  status'[run] = reply'[run]
  BY DEF ReplyHonest, Definite
<1> USE DEF ReplyInv, RunInv, TokenInv
<1>1. CASE reply'[run] = reply[run]
  BY <1>1, EndedStays DEF ReplyHonest, Definite
<1>2. ASSUME NEW r \in Requests, pc[r] # "idle", job[r].run = run,
             reply'[run] = ctx[r].status
      PROVE  status'[run] = reply'[run]
  BY <1>2, EndedStays DEF ResultKnown, Definite
<1> QED
  BY <1>1, <1>2, ReplyMoves DEF Definite

\* What the one reply of a run says of a definite end is what the run row says
\* from then on, as long as cancel_run's invalidation does not fail: a replayed
\* confirmation, a late handler and the startup hook announce only an end that
\* no step can take back.
THEOREM RepliesAreHonest ==
    ASSUME "invalidate" \notin Faults
    PROVE  Spec => []ReplyHonest
<1>1. Init => ReplyInv
  <2> SUFFICES ASSUME Init PROVE ReplyInv
    OBVIOUS
  <2>1. RunInv /\ WaitInv
    BY RunInit, WaitInit
  <2>2. ResultKnown /\ ReplyHonest
    BY DEF Init, ResultKnown, ReplyHonest, NoContext, Definite
  <2> QED
    BY <2>1, <2>2 DEF ReplyInv
<1>2. ReplyInv /\ [Next]_vars => ReplyInv'
  BY RunStep, WaitStep, ResultStep, ReplyStep DEF ReplyInv
<1>3. ReplyInv => ReplyHonest
  BY DEF ReplyInv
<1> QED
  BY <1>1, <1>2, <1>3, PTL DEF Spec

-------------------------------------------------------------------------------
(***************************************************************************)
(* A run in human hands has an open ticket                                 *)
(***************************************************************************)

\* The confirmation is over and its run is not with a person.
Over(r) ==
    /\ pc[r] \notin Passing \cup {"committing"}
    /\ status[job[r].run] # "waiting_human"

\* A ticket is closed, or about to be, only after its run has left the hands
\* of the reviewer, and is open when the run is about to get there.
ResolutionKnown ==
    \A r \in Requests :
        /\ job[r].kind = "resolve" => job[job[r].ref].run = job[r].run
        /\ pc[r] = "settle" => Over(job[r].ref)
        /\ ticket[r] = "resolved" => Over(r)
        /\ pc[r] = "finish" /\ seen[r] \in {"unknown", "mismatch"} =>
              ticket[r] = "open"

ReviewInv == TokenInv /\ OutcomeKnown /\ ReviewIsLate /\ TicketKnown

HumanInv == ReviewInv /\ ResolutionKnown /\ WaitingHumanHasTicket

\* A ticket belongs to a confirmation that got past its reservation.
LEMMA TicketHolder ==
    ASSUME ReviewInv, NEW r \in Requests, ticket[r] # "absent"
    PROVE  /\ record[r] # "absent" /\ job[r].run \in Runs
           /\ pc[r] \in Passing \cup {"committing", "publish", "stamp", "done", "error",
                                    "crashed"}
<1>1. record[r] # "absent"
  BY DEF ReviewInv, TicketKnown, TokenInv, StepShape
<1>2. pc[r] \in Passing \cup {"committing", "publish", "stamp", "done", "error",
                              "crashed"}
  BY <1>1 DEF ReviewInv, TokenInv, StepShape
<1> QED
  BY <1>1, <1>2 DEF ReviewInv, TokenInv, TypeInv, JobKnown, Job, Passing

\* Only the last checkpoint of a confirmation gives its run to a person.
LEMMA ToHuman ==
    ASSUME TypeInv, [Next]_vars, NEW run \in Runs, status'[run] = "waiting_human",
           status[run] # "waiting_human"
    PROVE  \E q \in Requests :
              /\ Advance(q) /\ pc[q] = "finish" /\ job[q].run = run
              /\ FinalStatus(q) = "waiting_human"
<1> DEFINE Goal == \E q \in Requests :
              /\ Advance(q) /\ pc[q] = "finish" /\ job[q].run = run
              /\ FinalStatus(q) = "waiting_human"
<1> USE DEF TypeInv, TypeOK
<1>1. ASSUME NEW k \in Runs, Work(k) PROVE FALSE
  BY <1>1 DEF Work, IssueToken, PrepareMutation, PublishPrompt, WorkerRaises,
      MarkFailed, PublishFailure, StampFailure, CommitStep, runVars
<1>2. ASSUME NEW q \in Requests, Advance(q) PROVE Goal
  <2>1. job[q].run = run
    BY <1>2, AdvanceFrame
  <2>2. ASSUME NEW next \in RunStatus, CommitStep(job[q].run, ctx[q], next)
        PROVE  next = "waiting_human"
    BY <2>1, <2>2 DEF CommitStep
  <2> QED
    BY <1>2, <2>1, <2>2, AdvanceRow DEF runVars
<1>3. CASE CrashRestart
  BY <1>3 DEF CrashRestart
<1> QED
  BY <1>1, <1>2, <1>3 DEF Next, Begin, Lapse, vars, runVars

\* What happens to a ticket, and when.
LEMMA TicketMoves ==
    ASSUME TypeInv, [Next]_vars, NEW r \in Requests
    PROVE  \/ ticket'[r] = ticket[r]
           \/ ticket'[r] = "open" /\ pc[r] = "handoff"
           \/ /\ ticket'[r] = "resolved"
              /\ \E w \in Requests : pc[w] = "settle" /\ job[w].ref = r
<1> DEFINE Goal == \/ ticket'[r] = ticket[r]
                   \/ ticket'[r] = "open" /\ pc[r] = "handoff"
                   \/ /\ ticket'[r] = "resolved"
                      /\ \E w \in Requests : pc[w] = "settle" /\ job[w].ref = r
<1> USE DEF TypeInv, TypeOK
<1>1. ASSUME NEW q \in Requests, Advance(q) PROVE Goal
  <2>1. CASE OpenTicket(q)
    BY <2>1 DEF OpenTicket
  <2>2. CASE ResolveTicket(q)
    BY <2>2 DEF ResolveTicket
  <2>3. CASE UNCHANGED ticket
    BY <2>3
  <2> QED
    BY <1>1, <2>1, <2>2, <2>3 DEF Advance, LoadContext, LoadToken, LookupKey,
      ConsumeAndReserve, StartCommit, RereadVersion, Claim, CallAdapter,
      ObserveCommit, Verdict, Verify, Finish, RejectToken, InvalidateTokens,
      Withdraw, LoadNewest, Rotate, Reissue, ResolveCheckpoint, Publish, SetReason
<1> QED
  BY <1>1 DEF Next, Work, IssueToken, PrepareMutation, PublishPrompt, WorkerRaises,
      MarkFailed, PublishFailure, StampFailure, Begin, Lapse, CrashRestart, vars

\* The request that has a record keeps it, and its job.
LEMMA HolderStays ==
    ASSUME TokenInv, [Next]_vars, NEW r \in Requests, record[r] # "absent"
    PROVE  record'[r] # "absent" /\ job'[r] = job[r]
<1>1. pc[r] # "idle"
  BY DEF TokenInv, StepShape, Passing
<1> USE DEF TokenInv
<1>2. CASE Advance(r)
  BY <1>2, AdvanceFrame, AdvanceSpends
<1>3. CASE ~Advance(r)
  BY <1>1, <1>3, OthersKeep
<1> QED
  BY <1>2, <1>3

\* A confirmation that is over stays over.
LEMMA OverStays ==
    ASSUME HumanInv, [Next]_vars, NEW r \in Requests, ticket[r] # "absent", Over(r)
    PROVE  Over(r)'
<1> USE DEF HumanInv, ReviewInv, TokenInv
<1>1. /\ record[r] # "absent" /\ job[r].run \in Runs
      /\ pc[r] \in {"publish", "stamp", "done", "error", "crashed"}
  BY TicketHolder DEF Over
<1>2. job'[r] = job[r]
  BY <1>1, HolderStays
<1>3. pc'[r] \notin Passing \cup {"committing"}
  <2>1. CASE Advance(r)
    BY <1>1, <2>1, AdvancePc DEF Passing
  <2>2. CASE ~Advance(r)
    BY <1>1, <2>2, OthersKeep DEF Passing
  <2> QED
    BY <2>1, <2>2
<1>4. status'[job[r].run] # "waiting_human"
  <2> SUFFICES ASSUME status'[job[r].run] = "waiting_human" PROVE FALSE
    OBVIOUS
  <2>1. PICK q \in Requests : pc[q] = "finish" /\ job[q].run = job[r].run
    BY <1>1, ToHuman DEF Over
  <2>2. q = r
    BY <1>1, <2>1 DEF StepShape, Passing, OneChance
  <2> QED
    BY <1>1, <2>1, <2>2
<1> QED
  BY <1>2, <1>3, <1>4 DEF Over

\* A resolution closes its ticket after the checkpoint that takes the run away.
LEMMA ResolutionStep == HumanInv /\ [Next]_vars => ResolutionKnown'
<1> SUFFICES ASSUME HumanInv, [Next]_vars, NEW r \in Requests
             PROVE  /\ job'[r].kind = "resolve" => job'[job'[r].ref].run = job'[r].run
                    /\ pc'[r] = "settle" => Over(job[r].ref)'
                    /\ ticket'[r] = "resolved" => Over(r)'
                    /\ pc'[r] = "finish" /\ seen'[r] \in {"unknown", "mismatch"} =>
                          ticket'[r] = "open"
  BY DEF ResolutionKnown
<1> USE DEF HumanInv, ReviewInv, TokenInv
<1>1. ASSUME job'[r].kind = "resolve" PROVE job'[job'[r].ref].run = job'[r].run
  <2>1. CASE job'[r] = job[r]
    <3>1. PICK k \in Requests : k = job[r].ref /\ ticket[k] # "absent"
      BY <1>1, <2>1 DEF TicketKnown
    <3>2. job'[k] = job[k]
      BY <3>1, TicketHolder, HolderStays
    <3> QED
      BY <1>1, <2>1, <3>1, <3>2 DEF ResolutionKnown
  <2>2. CASE job'[r] # job[r]
    <3>1. PICK q \in Requests, j \in Job : Begin(q, j)
      <4>1. CASE Advance(r)
        BY <2>2, <4>1, AdvanceFrame
      <4>2. ASSUME NEW q \in Requests, Advance(q) PROVE UNCHANGED job
        BY <4>2, AdvanceFrame
      <4> QED
        BY <2>2, <4>1, <4>2 DEF Next, Work, IssueToken, PrepareMutation,
            PublishPrompt,
            WorkerRaises, MarkFailed, PublishFailure, StampFailure, Lapse,
            CrashRestart, vars, requestVars
    <3>2. q = r /\ job' = [job EXCEPT ![r] = j] /\ pc[r] = "idle"
      <4>1. job' = [job EXCEPT ![q] = j] /\ pc[q] = "idle"
        BY <3>1 DEF Begin
      <4> QED
        BY <2>2, <4>1 DEF TypeInv, TypeOK
    <3>3. job'[r] = j
      BY <3>2 DEF TypeInv, TypeOK
    <3>4. PICK k \in Requests : k = j.ref /\ ticket[k] = "open" /\ job[k].run = j.run
      BY <1>1, <3>1, <3>3 DEF Begin, On
    <3>5. k # r
      BY <3>2, <3>4, TicketHolder DEF Passing
    <3> QED
      BY <3>2, <3>3, <3>4, <3>5 DEF TypeInv, TypeOK
  <2> QED
    BY <2>1, <2>2
<1>2. ASSUME pc'[r] = "settle" PROVE Over(job[r].ref)'
  <2>1. /\ job'[r] = job[r] /\ pc[r] \in {"resolve", "settle"}
        /\ pc[r] = "resolve" => Advance(r)
    <3>1. CASE Advance(r)
      BY <1>2, <3>1, AdvanceFrame, AdvanceMore
    <3>2. CASE ~Advance(r)
      <4>1. pc'[r] = pc[r] /\ job'[r] = job[r]
        BY <1>2, <3>2, OthersKeep
      <4> QED
        BY <1>2, <4>1
    <3> QED
      BY <3>1, <3>2
  <2>2. job[r].kind = "resolve" /\ job[r].run \in Runs
    BY <2>1 DEF TicketKnown, TypeInv, JobKnown, Job
  <2>3. PICK k \in Requests : /\ k = job[r].ref /\ ticket[k] # "absent"
                              /\ job[k].run = job[r].run
    BY <2>2 DEF TicketKnown, ResolutionKnown
  <2>4. /\ record[k] # "absent"
        /\ pc[k] \in Passing \cup {"committing", "publish", "stamp", "done", "error",
                                 "crashed"}
    BY <2>3, TicketHolder
  <2>5. Over(k)'
    <3>1. CASE pc[r] = "settle"
      BY <2>3, <3>1, OverStays DEF ResolutionKnown
    <3>2. CASE pc[r] = "resolve"
      <4>1. pc[k] \notin Passing \cup {"committing"} /\ k # r
        BY <2>2, <2>3, <2>4, <3>2 DEF ReviewIsLate, UnderReview, On, Passing
      <4>2. pc'[k] = pc[k] /\ job'[k] = job[k]
        BY <2>1, <3>2, <4>1, AdvanceFrame
      <4>3. status'[job[r].run] \in {"completed", "failed"}
        BY <1>2, <2>1, <3>2, AdvanceMore
      <4> QED
        BY <2>3, <4>1, <4>2, <4>3 DEF Over
    <3> QED
      BY <2>1, <3>1, <3>2
  <2> QED
    BY <2>1, <2>3, <2>5 DEF Over
<1>3. ASSUME ticket'[r] = "resolved" PROVE Over(r)'
  <2>1. CASE ticket[r] = "resolved"
    BY <2>1, OverStays DEF ResolutionKnown
  <2>2. CASE ticket[r] # "resolved"
    <3>1. PICK w \in Requests : pc[w] = "settle" /\ job[w].ref = r
      BY <1>3, <2>2, TicketMoves
    <3>2. ticket[r] # "absent" /\ Over(r)
      BY <3>1 DEF TicketKnown, ResolutionKnown
    <3> QED
      BY <3>2, OverStays
  <2> QED
    BY <2>1, <2>2
<1>4. ASSUME pc'[r] = "finish", seen'[r] \in {"unknown", "mismatch"}
      PROVE  ticket'[r] = "open"
  <2>1. CASE Advance(r)
    <3>1. CASE OpenTicket(r)
      BY <3>1 DEF OpenTicket, TypeInv, TypeOK
    <3>2. CASE Verify(r) \/ Verdict(r)
      BY <1>4, <3>2 DEF Verify, Verdict, Goto, OutcomeKnown, TypeInv, TypeOK
    <3>3. CASE LoadContext(r)
      <4>1. job[r].kind \in Kinds
        BY <2>1, AdvanceFrame DEF Job
      <4> QED
        BY <1>4, <3>3, <4>1 DEF LoadContext, Goto, AfterLoad, Kinds, TypeInv, TypeOK
    <3>4. CASE ~OpenTicket(r) /\ ~Verify(r) /\ ~Verdict(r) /\ ~LoadContext(r)
      BY <1>4, <2>1, <3>4 DEF Advance, LoadToken, LookupKey, Reused,
          ConsumeAndReserve, StartCommit, RereadVersion, Claim, CallAdapter,
          ObserveCommit, Finish, RejectToken, InvalidateTokens, Withdraw,
          LoadNewest, Rotate, Reissue, ResolveCheckpoint, ResolveTicket, Publish,
          SetReason, LastCommit, Goto, TypeInv, TypeOK
    <3> QED
      BY <3>1, <3>2, <3>3, <3>4
  <2>2. CASE ~Advance(r)
    <3>1. pc[r] = "finish" /\ seen'[r] = seen[r]
      BY <1>4, <2>2, OthersKeep
    <3>2. ticket[r] = "open"
      BY <1>4, <3>1 DEF ResolutionKnown
    <3>3. ASSUME NEW w \in Requests, pc[w] = "settle", job[w].ref = r PROVE FALSE
      BY <3>1, <3>3 DEF ResolutionKnown, Over, Passing
    <3> QED
      BY <3>2, <3>3, TicketMoves
  <2> QED
    BY <2>1, <2>2
<1> QED
  BY <1>1, <1>2, <1>3, <1>4

\* The ticket a run waits on is there before the run does, and is closed only
\* after it no longer does.
LEMMA HumanStep == HumanInv /\ [Next]_vars => WaitingHumanHasTicket'
<1> SUFFICES ASSUME HumanInv, [Next]_vars, NEW run \in Runs,
                    status'[run] = "waiting_human"
             PROVE  \E r \in Requests : /\ record'[r] # "absent" /\ job'[r].run = run
                                        /\ ticket'[r] = "open"
  BY DEF WaitingHumanHasTicket, Holders, On
<1> USE DEF HumanInv, ReviewInv, TokenInv
<1>1. PICK r \in Requests : /\ record[r] # "absent" /\ job[r].run = run
                            /\ ticket[r] = "open"
                            /\ ~Over(r)
  <2>1. CASE status[run] = "waiting_human"
    BY <2>1 DEF WaitingHumanHasTicket, Holders, On, Over
  <2>2. CASE status[run] # "waiting_human"
    <3>1. PICK q \in Requests : /\ pc[q] = "finish" /\ job[q].run = run
                                /\ FinalStatus(q) = "waiting_human"
      BY <2>2, ToHuman
    <3>2. seen[q] \in {"unknown", "mismatch"}
      BY <3>1 DEF FinalStatus, OutcomeKnown
    <3>3. ticket[q] = "open"
      BY <3>1, <3>2 DEF ResolutionKnown
    <3> QED
      BY <3>1, <3>3 DEF StepShape, Passing, Over
  <2> QED
    BY <2>1, <2>2
<1>2. record'[r] # "absent" /\ job'[r] = job[r]
  BY <1>1, HolderStays
<1>3. ASSUME NEW w \in Requests, pc[w] = "settle", job[w].ref = r PROVE FALSE
  BY <1>1, <1>3 DEF ResolutionKnown
<1> QED
  BY <1>1, <1>2, <1>3, TicketMoves

\* A run in waiting_human has an open ticket of its own, whatever fails:
\* _create_handoff commits the ticket before the checkpoint, resolve_handoff
\* writes the checkpoint before it closes the ticket, and no late step brings
\* the run back.
THEOREM HumanHasTicket == Spec => []WaitingHumanHasTicket
<1>1. Init => HumanInv
  <2> SUFFICES ASSUME Init PROVE HumanInv
    OBVIOUS
  <2>1. ReviewInv
    BY RunInit DEF RunInv, ReviewInv
  <2>2. ResolutionKnown /\ WaitingHumanHasTicket
    BY DEF Init, ResolutionKnown, WaitingHumanHasTicket, NoJob
  <2> QED
    BY <2>1, <2>2 DEF HumanInv
<1>2. HumanInv /\ [Next]_vars => HumanInv'
  BY TokenStep, OutcomeStep, ReviewStep, TicketStep, ResolutionStep, HumanStep
  DEF HumanInv, ReviewInv
<1>3. HumanInv => WaitingHumanHasTicket
  BY DEF HumanInv
<1> QED
  BY <1>1, <1>2, <1>3, PTL DEF Spec
===============================================================================
