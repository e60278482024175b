------------------------ MODULE MutationContractProofs ------------------------
(***************************************************************************)
(* MutationCommit implements MutationContract as long as the invalidation  *)
(* in cancel_run does not fail, and a completed run is backed by an effect *)
(* or by a ticket whatever fails.                                          *)
(***************************************************************************)
EXTENDS MutationEndProofs

-------------------------------------------------------------------------------
(***************************************************************************)
(* The path implements its contract                                        *)
(***************************************************************************)

\* The state of the contract, read off the tables as in MutationCommit.
Invoked == {job[r].run : r \in {q \in Requests : calls[q] > 0}}
Effect == {job[r].run : r \in applied}
Escalated == {job[r].run : r \in {q \in Requests : ticket[q] # "absent"}}
Withdrawn == {run \in Runs : status[run] = "cancelled"}
Declared == {run \in Runs : status[run] = "completed"}

\* A step that adds no call, effect, ticket or ended run is invisible.
LEMMA Invisible ==
    ASSUME TypeOK, TypeOK',
           \A q \in Requests : calls[q] > 0 \/ calls'[q] > 0 =>
               calls[q] > 0 /\ calls'[q] > 0 /\ job'[q].run = job[q].run,
           \A q \in Requests : q \in applied \/ q \in applied' =>
               q \in applied /\ q \in applied' /\ job'[q].run = job[q].run,
           \A q \in Requests : ticket[q] # "absent" \/ ticket'[q] # "absent" =>
               ticket[q] # "absent" /\ ticket'[q] # "absent"
               /\ job'[q].run = job[q].run
    PROVE  UNCHANGED <<Invoked, Effect, Escalated>>
<1>1. UNCHANGED Invoked
  BY DEF Invoked
<1>2. UNCHANGED Effect
  BY DEF Effect, TypeOK
<1>3. UNCHANGED Escalated
  BY DEF Escalated
<1> QED
  BY <1>1, <1>2, <1>3

\* The business system changes only in the call, tickets only appear in the
\* handoff.
LEMMA AdvanceVisible ==
    ASSUME TypeInv, TicketKnown, NEW r \in Requests, Advance(r)
    PROVE  /\ pc[r] # "call" => UNCHANGED <<calls, applied>>
           /\ pc[r] # "handoff" =>
                 \A q \in Requests : ticket'[q] # "absent" <=> ticket[q] # "absent"
           /\ pc[r] = "call" => CallAdapter(r)
           /\ pc[r] = "handoff" => OpenTicket(r)
<1> USE DEF TypeInv, TypeOK
<1>1. CASE CallAdapter(r)
  BY <1>1 DEF CallAdapter
<1>2. CASE OpenTicket(r)
  BY <1>2 DEF OpenTicket, effectVars
<1>3. CASE ResolveTicket(r)
  BY <1>3 DEF ResolveTicket, TicketKnown, effectVars
<1>4. CASE UNCHANGED <<calls, applied, ticket>> /\ pc[r] \notin {"call", "handoff"}
  BY <1>4
<1> QED
  BY <1>1, <1>2, <1>3, <1>4 DEF Advance, LoadContext, LoadToken, LookupKey,
      ConsumeAndReserve, StartCommit, RereadVersion, Claim, ObserveCommit, Verdict,
      Verify, Finish, RejectToken, InvalidateTokens, Withdraw, LoadNewest, Rotate,
      Reissue, ResolveCheckpoint, Publish, SetReason, effectVars

\* The external call is the contract's Invoke.
LEMMA CallIsInvoke ==
    ASSUME RunInv, RunInv', NEW r \in Requests, CallAdapter(r), Advance(r)
    PROVE  /\ job[r].run \in Runs
           /\ job[r].run \notin Invoked \cup Withdrawn
           /\ Invoked' = Invoked \cup {job[r].run}
           /\ Effect' \in {Effect, Effect \cup {job[r].run}}
           /\ UNCHANGED <<Escalated, Withdrawn, Declared>>
<1> USE DEF RunInv, TokenInv, TypeInv
<1> DEFINE mine == job[r].run
<1>1. /\ mine \in Runs /\ pc[r] = "call" /\ calls[r] = 0 /\ record[r] # "absent"
      /\ UNCHANGED <<job, status, ticket>>
      /\ calls' = [calls EXCEPT ![r] = @ + 1]
  BY AdvanceFrame DEF CallAdapter, StepShape, Passing, runVars
<1>2. mine \notin Invoked
  <2>1. ASSUME NEW q \in Requests, calls[q] > 0 PROVE job[q].run # mine
    <3>1. record[q] # "absent"
      BY <2>1 DEF StepShape, TypeOK
    <3> QED
      BY <1>1, <2>1, <3>1 DEF OneChance
  <2> QED
    BY <2>1 DEF Invoked
<1>3. mine \notin Withdrawn
  BY <1>1 DEF Withdrawn, EndedIsClosed, On, Passing
<1>4. Invoked' = Invoked \cup {mine}
  <2>1. \A q \in Requests : calls'[q] > 0 <=> q = r \/ calls[q] > 0
    BY <1>1 DEF TypeOK
  <2> QED
    BY <1>1, <2>1 DEF Invoked
<1>5. Effect' \in {Effect, Effect \cup {mine}}
  <2>1. applied' = applied \/ applied' = applied \cup {r}
    BY DEF CallAdapter
  <2>2. CASE applied' = applied
    BY <1>1, <2>2 DEF Effect
  <2>3. CASE applied' = applied \cup {r}
    BY <1>1, <2>3 DEF Effect
  <2> QED
    BY <2>1, <2>2, <2>3
<1>6. UNCHANGED <<Escalated, Withdrawn, Declared>>
  BY <1>1 DEF Escalated, Withdrawn, Declared
<1> QED
  BY <1>1, <1>2, <1>3, <1>4, <1>5, <1>6

\* The handoff ticket is the contract's Escalate, once.
LEMMA TicketIsEscalate ==
    ASSUME RunInv, NEW r \in Requests, OpenTicket(r), Advance(r)
    PROVE  /\ job[r].run \in Runs
           /\ job[r].run \in Invoked
           /\ Escalated' = Escalated \cup {job[r].run}
           /\ UNCHANGED <<Invoked, Effect, Withdrawn, Declared>>
<1> USE DEF RunInv, TokenInv, TypeInv
<1>1. /\ job[r].run \in Runs /\ pc[r] = "handoff"
      /\ UNCHANGED <<job, status, calls, applied>>
      /\ ticket' = [ticket EXCEPT ![r] = "open"]
  BY AdvanceFrame DEF OpenTicket, runVars, effectVars
<1>2. calls[r] > 0
  BY <1>1 DEF OutcomeKnown, TypeOK
<1>3. job[r].run \in Invoked
  BY <1>2 DEF Invoked
<1>4. \A q \in Requests : ticket'[q] # "absent" <=> q = r \/ ticket[q] # "absent"
  BY <1>1 DEF TypeOK
<1>5. Escalated' = Escalated \cup {job[r].run}
  BY <1>1, <1>4 DEF Escalated
<1> QED
  BY <1>1, <1>3, <1>5 DEF Invoked, Effect, Withdrawn, Declared

\* Every other step of a request ends its run the way the contract allows, or
\* does nothing the contract sees.
LEMMA CommitIsEnding ==
    ASSUME RunInv, RunInv', NEW r \in Requests, Advance(r),
           pc[r] \notin {"call", "handoff"}
    PROVE  /\ UNCHANGED <<Invoked, Effect, Escalated>>
           /\ \/ UNCHANGED <<Withdrawn, Declared>>
              \/ /\ job[r].run \in Runs \ (Invoked \cup Withdrawn)
                 /\ Withdrawn' = Withdrawn \cup {job[r].run}
                 /\ UNCHANGED Declared
              \/ /\ job[r].run \in (Effect \cup Escalated) \ Declared
                 /\ job[r].run \in Runs
                 /\ Declared' = Declared \cup {job[r].run}
                 /\ UNCHANGED Withdrawn
<1> USE DEF RunInv, TokenInv, TypeInv
<1> DEFINE mine == job[r].run
<1>0. mine \in Runs /\ UNCHANGED <<job, calls, applied>>
      /\ \A q \in Requests : ticket'[q] # "absent" <=> ticket[q] # "absent"
  BY AdvanceFrame, AdvanceVisible
<1>1. UNCHANGED <<Invoked, Effect, Escalated>>
  BY <1>0 DEF Invoked, Effect, Escalated
<1>2. \A run \in Runs \ {mine} : status'[run] = status[run]
  BY AdvanceFrame
<1>3. CASE status'[mine] = status[mine]
  BY <1>1, <1>2, <1>3 DEF Withdrawn, Declared
<1>4. CASE status'[mine] # status[mine]
  <2>1. status[mine] \notin {"cancelled", "completed"}
    BY <1>0, <1>4, EndedAdvance
  <2>2. PICK next \in RunStatus :
            /\ CommitStep(mine, ctx[r], next)
            /\ \/ pc[r] = "committing" /\ next = "committing"
               \/ pc[r] = "observe" /\ next \in {"failed", "verifying"}
               \/ pc[r] = "finish" /\ next = FinalStatus(r)
               \/ pc[r] = "withdraw" /\ next = "cancelled"
               \/ pc[r] = "reissue" /\ next = "waiting_confirmation"
               \/ pc[r] = "resolve" /\ next \in {"completed", "failed"}
    BY <1>4, AdvanceRow DEF runVars
  <2>3. status'[mine] = next
    BY <1>0, <2>2 DEF CommitStep, TypeOK
  <2>4. CASE next = "cancelled"
    <3>1. mine \notin Invoked
      BY <1>0, <2>3, <2>4 DEF Invoked, EndedIsClosed, On
    <3>2. Withdrawn' = Withdrawn \cup {mine} /\ mine \notin Withdrawn
      BY <1>0, <1>2, <2>1, <2>3, <2>4 DEF Withdrawn
    <3>3. UNCHANGED Declared
      BY <1>0, <1>2, <2>1, <2>3, <2>4 DEF Declared
    <3> QED
      BY <1>0, <1>1, <3>1, <3>2, <3>3
  <2>5. CASE next = "completed"
    <3>1. Declared' = Declared \cup {mine} /\ mine \notin Declared
      BY <1>0, <1>2, <2>1, <2>3, <2>5 DEF Declared
    <3>2. UNCHANGED Withdrawn
      BY <1>0, <1>2, <2>1, <2>3, <2>5 DEF Withdrawn
    <3>3. CASE pc[r] = "finish"
      <4>1. r \in applied
        BY <2>2, <2>5, <3>3 DEF FinalStatus, OutcomeKnown
      <4>2. mine \in Effect
        BY <4>1 DEF Effect
      <4> QED
        BY <1>0, <1>1, <3>1, <3>2, <4>2
    <3>4. CASE pc[r] = "resolve"
      <4>1. UnderReview(mine)
        BY <3>4 DEF UnderReview, On
      <4>2. \E h \in Requests : job[h].run = mine /\ ticket[h] # "absent"
        BY <1>0, <4>1 DEF ReviewIsLate, On
      <4>3. mine \in Escalated
        BY <4>2 DEF Escalated
      <4> QED
        BY <1>0, <1>1, <3>1, <3>2, <4>3
    <3> QED
      BY <2>2, <2>5, <3>3, <3>4
  <2>6. CASE next \notin {"cancelled", "completed"}
    BY <1>0, <1>1, <1>2, <2>1, <2>3, <2>6 DEF Withdrawn, Declared
  <2> QED
    BY <2>4, <2>5, <2>6
<1> QED
  BY <1>3, <1>4

\* Each step of the handlers is a step of the contract or a stutter.
LEMMA ContractStep ==
    ASSUME RunInv, RunInv', [Next]_vars
    PROVE  [Contract!Next]_(Contract!contractVars)
<1> USE DEF RunInv, TokenInv, TypeInv
<1> DEFINE Still == UNCHANGED <<Invoked, Effect, Escalated, Withdrawn, Declared>>
<1>0. Still => UNCHANGED Contract!contractVars
  BY DEF Contract!contractVars, Invoked, Effect, Escalated, Withdrawn, Declared
<1>1. CASE (\E k \in Runs : Work(k)) \/ CrashRestart
  <2>1. UNCHANGED <<job, calls, applied, ticket>>
    BY <1>1 DEF Work, IssueToken, PrepareMutation, PublishPrompt, WorkerRaises,
        MarkFailed, PublishFailure, StampFailure, CrashRestart, effectVars, requestVars
  <2>2. UNCHANGED <<Invoked, Effect, Escalated>>
    BY <2>1 DEF Invoked, Effect, Escalated
  <2>3. UNCHANGED <<Withdrawn, Declared>>
    BY <1>1, OthersKeepEnded DEF Withdrawn, Declared
  <2> QED
    BY <1>0, <2>2, <2>3
<1>2. ASSUME NEW r \in Requests, NEW j \in Job, Begin(r, j) PROVE Still
  <2>1. /\ job' = [job EXCEPT ![r] = j] /\ pc[r] = "idle"
        /\ UNCHANGED <<status, calls, applied, ticket>>
    BY <1>2 DEF Begin, effectVars, runVars
  <2>2. calls[r] = 0
    BY <2>1 DEF StepShape, Passing
  <2>3. r \notin applied /\ ticket[r] = "absent"
    BY <2>2 DEF OutcomeKnown, TicketKnown
  <2>4. \A q \in Requests \ {r} : job'[q] = job[q]
    BY <2>1 DEF TypeOK
  <2>5. UNCHANGED <<Invoked, Effect, Escalated>>
    <3>1. \A q \in Requests : calls[q] > 0 => job'[q].run = job[q].run
      BY <2>2, <2>4
    <3>2. \A q \in Requests : q \in applied => job'[q].run = job[q].run
      BY <2>3, <2>4
    <3>3. \A q \in Requests : ticket[q] # "absent" => job'[q].run = job[q].run
      BY <2>3, <2>4
    <3> QED
      BY <2>1, <3>1, <3>2, <3>3, Invisible
  <2> QED
    BY <2>1, <2>5 DEF Withdrawn, Declared
<1>3. ASSUME NEW r \in Requests, Advance(r)
      PROVE  [Contract!Next]_(Contract!contractVars)
  <2>1. CASE pc[r] = "call"
    <3>1. CallAdapter(r)
      BY <1>3, <2>1, AdvanceVisible
    <3>2. /\ job[r].run \in Runs
          /\ job[r].run \notin Invoked \cup Withdrawn
          /\ Invoked' = Invoked \cup {job[r].run}
          /\ Effect' \in {Effect, Effect \cup {job[r].run}}
          /\ UNCHANGED <<Escalated, Withdrawn, Declared>>
      BY <1>3, <3>1, CallIsInvoke
    <3>3. Contract!Invoke(job[r].run)
      BY <3>2 DEF Contract!Invoke, Invoked, Effect, Escalated, Withdrawn, Declared
    <3>4. Contract!Next
      BY <3>2, <3>3 DEF Contract!Next, Contract!Invoke
    <3> QED
      BY <3>4
  <2>2. CASE pc[r] = "handoff"
    <3>1. OpenTicket(r)
      BY <1>3, <2>2, AdvanceVisible
    <3>2. /\ job[r].run \in Runs
          /\ job[r].run \in Invoked
          /\ Escalated' = Escalated \cup {job[r].run}
          /\ UNCHANGED <<Invoked, Effect, Withdrawn, Declared>>
      BY <1>3, <3>1, TicketIsEscalate
    <3>3. CASE job[r].run \in Escalated
      <4>1. Still
        BY <3>2, <3>3
      <4> QED
        BY <1>0, <4>1
    <3>4. CASE job[r].run \notin Escalated
      <4>1. Contract!Escalate(job[r].run)
        BY <3>2, <3>4
        DEF Contract!Escalate, Invoked, Effect, Escalated, Withdrawn, Declared
      <4>2. Contract!Next
        BY <3>2, <4>1 DEF Contract!Next, Contract!Escalate
      <4> QED
        BY <4>2
    <3> QED
      BY <3>3, <3>4
  <2>3. CASE pc[r] \notin {"call", "handoff"}
    <3>1. /\ UNCHANGED <<Invoked, Effect, Escalated>>
          /\ \/ UNCHANGED <<Withdrawn, Declared>>
             \/ /\ job[r].run \in Runs \ (Invoked \cup Withdrawn)
                /\ Withdrawn' = Withdrawn \cup {job[r].run}
                /\ UNCHANGED Declared
             \/ /\ job[r].run \in (Effect \cup Escalated) \ Declared
                /\ job[r].run \in Runs
                /\ Declared' = Declared \cup {job[r].run}
                /\ UNCHANGED Withdrawn
      BY <1>3, <2>3, CommitIsEnding
    <3>2. CASE Still
      BY <1>0, <3>2
    <3>3. CASE /\ job[r].run \in Runs \ (Invoked \cup Withdrawn)
               /\ Withdrawn' = Withdrawn \cup {job[r].run}
               /\ UNCHANGED <<Invoked, Effect, Escalated, Declared>>
      <4>1. Contract!Withdraw(job[r].run)
        BY <3>3
        DEF Contract!Withdraw, Invoked, Effect, Escalated, Withdrawn, Declared
      <4>2. Contract!Next
        BY <3>3, <4>1 DEF Contract!Next, Contract!Withdraw
      <4> QED
        BY <4>2
    <3>4. CASE /\ job[r].run \in (Effect \cup Escalated) \ Declared
               /\ job[r].run \in Runs
               /\ Declared' = Declared \cup {job[r].run}
               /\ UNCHANGED <<Invoked, Effect, Escalated, Withdrawn>>
      <4>1. Contract!Declare(job[r].run)
        BY <3>4
        DEF Contract!Declare, Invoked, Effect, Escalated, Withdrawn, Declared
      <4>2. Contract!Next
        BY <3>4, <4>1 DEF Contract!Next, Contract!Declare
      <4> QED
        BY <4>2
    <3> QED
      BY <3>1, <3>2, <3>3, <3>4
  <2> QED
    BY <2>1, <2>2, <2>3
<1>4. CASE UNCHANGED <<job, calls, applied, ticket, status>>
  <2>1. Still
    BY <1>4 DEF Invoked, Effect, Escalated, Withdrawn, Declared
  <2> QED
    BY <1>0, <2>1
<1> QED
  BY <1>0, <1>1, <1>2, <1>3, <1>4 DEF Next, Lapse, vars, runVars, effectVars,
      requestVars

\* The tables a run starts with are an initial state of the contract.
LEMMA ContractInit == Init => Contract!Init
<1> SUFFICES ASSUME Init PROVE Contract!Init
  OBVIOUS
<1>1. ASSUME NEW q \in Requests
      PROVE  calls[q] = 0 /\ q \notin applied /\ ticket[q] = "absent"
  BY DEF Init
<1>2. ASSUME NEW k \in Runs PROVE status[k] = "running_workflow"
  BY DEF Init
<1>3. applied = {}
  BY DEF Init
<1>4. Invoked = {} /\ Effect = {} /\ Escalated = {}
  BY <1>1, <1>3 DEF Invoked, Effect, Escalated
<1>5. Withdrawn = {} /\ Declared = {}
  BY <1>2 DEF Withdrawn, Declared
<1> QED
  BY <1>4, <1>5 DEF Contract!Init, Invoked, Effect, Escalated, Withdrawn, Declared

\* The handlers, the worker and the startup hook together implement the
\* contract for any number of runs, requests, keys and crashes: one call at
\* most, none for a withdrawn run, completion only on an effect or a person's
\* word.  The invalidation in cancel_run is assumed not to fail.
THEOREM PathImplementsContract ==
    ASSUME "invalidate" \notin Faults
    PROVE  Spec => ContractHolds
<1>1. RunInv /\ [Next]_vars => RunInv'
  BY RunStep
<1>2. RunInv /\ RunInv' /\ [Next]_vars => [Contract!Next]_(Contract!contractVars)
  BY ContractStep
<1> QED
  BY <1>1, <1>2, RunInit, ContractInit, PTL
  DEF Spec, ContractHolds, Contract!Spec

-------------------------------------------------------------------------------
(***************************************************************************)
(* A completed run, whatever fails                                         *)
(***************************************************************************)

\* A run becomes completed at the last checkpoint of its confirmation or by
\* the word of a person.
LEMMA ToCompleted ==
    ASSUME TypeInv, [Next]_vars, NEW run \in Runs, status'[run] = "completed",
           status[run] # "completed"
    PROVE  \E q \in Requests :
              /\ job[q].run = run
              /\ \/ pc[q] = "finish" /\ FinalStatus(q) = "completed"
                 \/ pc[q] = "resolve"
<1> DEFINE Goal == \E q \in Requests :
              /\ job[q].run = run
              /\ \/ pc[q] = "finish" /\ FinalStatus(q) = "completed"
                 \/ pc[q] = "resolve"
<1> USE DEF TypeInv, TypeOK
<1>1. ASSUME NEW k \in Runs, Work(k) PROVE FALSE
  BY <1>1 DEF Work, IssueToken, PrepareMutation, PublishPrompt, WorkerRaises,
      MarkFailed, PublishFailure, StampFailure, CommitStep, runVars
<1>2. ASSUME NEW q \in Requests, Advance(q) PROVE Goal
  <2>1. job[q].run = run
    BY <1>2, AdvanceFrame
  <2>2. ASSUME NEW next \in RunStatus, CommitStep(job[q].run, ctx[q], next)
        PROVE  next = "completed"
    BY <2>1, <2>2 DEF CommitStep
  <2> QED
    BY <1>2, <2>1, <2>2, AdvanceRow DEF runVars
<1>3. CASE CrashRestart
  BY <1>3 DEF CrashRestart
<1> QED
  BY <1>1, <1>2, <1>3 DEF Next, Begin, Lapse, vars, runVars

\* A change that is in the business system stays there, and a ticket is never
\* deleted.
LEMMA EvidenceStays ==
    ASSUME ReviewInv, [Next]_vars, NEW r \in Requests,
           r \in applied \/ ticket[r] # "absent"
    PROVE  r \in applied' \/ ticket'[r] # "absent"
<1> USE DEF ReviewInv, TokenInv, TypeInv, TypeOK
<1>1. CASE ticket[r] # "absent"
  BY <1>1, TicketMoves
<1>2. CASE r \in applied
  <2>1. ASSUME NEW q \in Requests, Advance(q) PROVE r \in applied'
    BY <1>2, <2>1, AdvanceVisible DEF CallAdapter
  <2> QED
    BY <1>2, <2>1 DEF Next, Work, IssueToken, PrepareMutation, PublishPrompt,
        WorkerRaises, MarkFailed, PublishFailure, StampFailure, Begin, Lapse,
        CrashRestart, vars, effectVars
<1> QED
  BY <1>1, <1>2

\* A run that completes has its evidence, and no step takes it away.
LEMMA CompletedStep ==
    ReviewInv /\ CompletedMeansApplied /\ [Next]_vars => CompletedMeansApplied'
<1> SUFFICES ASSUME ReviewInv, CompletedMeansApplied, [Next]_vars,
                    NEW run \in Runs, status'[run] = "completed"
             PROVE  \E r \in Requests : /\ record'[r] # "absent" /\ job'[r].run = run
                                        /\ r \in applied' \/ ticket'[r] # "absent"
  BY DEF CompletedMeansApplied, Holders, On
<1> USE DEF ReviewInv, TokenInv
<1>1. PICK r \in Requests : /\ record[r] # "absent" /\ job[r].run = run
                            /\ r \in applied \/ ticket[r] # "absent"
  <2>1. CASE status[run] = "completed"
    BY <2>1 DEF CompletedMeansApplied, Holders, On
  <2>2. CASE status[run] # "completed"
    <3>1. PICK q \in Requests : /\ job[q].run = run
                                /\ \/ /\ pc[q] = "finish"
                                      /\ FinalStatus(q) = "completed"
                                   \/ pc[q] = "resolve"
      BY <2>2, ToCompleted
    <3>2. CASE pc[q] = "finish"
      <4>1. q \in applied
        BY <3>1, <3>2 DEF FinalStatus, OutcomeKnown
      <4> QED
        BY <3>1, <3>2, <4>1 DEF StepShape, Passing
    <3>3. CASE pc[q] = "resolve"
      BY <3>1, <3>3 DEF ReviewIsLate, UnderReview, On
    <3> QED
      BY <3>1, <3>2, <3>3
  <2> QED
    BY <2>1, <2>2
<1> QED
  BY <1>1, HolderStays, EvidenceStays

\* A completed run has its change in the business system, or a person was
\* given the case; this holds whatever fails, the invalidation in cancel_run
\* included: a confirmation reaches its last checkpoint only with a verified
\* result, and a run is under review only behind a ticket.
THEOREM CompletedIsApplied == Spec => []CompletedMeansApplied
<1> DEFINE I == ReviewInv /\ CompletedMeansApplied
<1>1. Init => I
  BY RunInit DEF RunInv, ReviewInv, Init, CompletedMeansApplied
<1>2. I /\ [Next]_vars => I'
  BY TokenStep, OutcomeStep, ReviewStep, TicketStep, CompletedStep DEF ReviewInv
<1>3. I => CompletedMeansApplied
  OBVIOUS
<1> QED
  BY <1>1, <1>2, <1>3, PTL DEF Spec
===============================================================================
