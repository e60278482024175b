---------------------------- MODULE ControlPlane ----------------------------
(***************************************************************************)
(* The human-gated control plane: every internal POST of apps/api/main.py  *)
(* reserves an idempotency record, makes its change, writes its audit      *)
(* event and completes the record with the answer.  Each of these is a     *)
(* transaction of its own, so another request, a database fault or a crash *)
(* can come between any two of them.                                       *)
(*                                                                         *)
(* Records are unique per operation, so a behaviour studies the requests   *)
(* of one operation, chosen in CPInit.  A handler is described by what     *)
(* tells it apart: who may call it, what its change can do, which          *)
(* exceptions its except clause catches and what that clause covers.       *)
(***************************************************************************)
EXTENDS Naturals, FiniteSets

CONSTANTS
    Calls,      \* the HTTP requests of a behaviour, first attempts and retries
    Keys,       \* idempotency keys the clients use
    Prints      \* request fingerprints: hashes of the rest of the body

VARIABLES
    operation,  \* the handler this behaviour is about
    claim,      \* runtime.idempotency_records, by key
    call,       \* the requests: program counter and what they carry
    change,     \* the changes committed, as <<call, key, print>>
    audit       \* the audit events appended, by the call that made them

cpVars == <<operation, claim, call, change, audit>>

-----------------------------------------------------------------------------
(***************************************************************************)
(* The handlers.  `role` is the dependency that admits the caller,         *)
(* `phrase` a confirmation phrase compared before anything else, `refuses` *)
(* that the change can be turned down by a domain error, `rereads` that    *)
(* the row is read again after its transaction committed and before the    *)
(* except clause ends, `catches` what makes the clause abandon the claim,  *)
(* `wide` that the clause also covers complete(), `audits` that an audit   *)
(* event follows the change.                                               *)
(***************************************************************************)
Handler(role, phrase, refuses, rereads, catches, wide, audits) ==
    [role |-> role, phrase |-> phrase, refuses |-> refuses,
     rereads |-> rereads, catches |-> catches, wide |-> wide,
     audits |-> audits]

ReanalyzeFailure ==
    Handler("admin", FALSE, FALSE, TRUE, {}, FALSE, FALSE)
ReviewFailure ==
    Handler("admin", FALSE, TRUE, FALSE, {"refused"}, FALSE, TRUE)
CreateSkillFromFailure ==   \* both gates are passed as False: always refused
    Handler("admin", FALSE, TRUE, FALSE, {"refused"}, FALSE, TRUE)
CreateSkillCandidate ==
    Handler("admin", FALSE, TRUE, TRUE, {"refused"}, FALSE, TRUE)
SetSkillKillSwitch ==
    Handler("approver", TRUE, FALSE, FALSE, {"refused", "fault"}, FALSE, TRUE)
RecordSkillEvaluation ==
    Handler("admin", FALSE, TRUE, FALSE, {"refused"}, FALSE, TRUE)
SkillAction ==              \* submit, approve, reject, canary, rollback
    Handler("approver", TRUE, TRUE, TRUE, {"refused"}, FALSE, TRUE)
RegisterReleaseRuntime ==
    Handler("admin", FALSE, TRUE, FALSE, {"refused"}, FALSE, TRUE)
CreateRelease ==            \* no audit event; the clause covers complete()
    Handler("admin", FALSE, FALSE, TRUE, {"refused", "fault"}, TRUE, FALSE)
StopRelease ==
    Handler("approver", TRUE, TRUE, TRUE, {"refused"}, FALSE, FALSE)
EvaluateRelease ==          \* CanaryMetrics(**payload) raises a TypeError
    Handler("approver", TRUE, FALSE, FALSE, {"refused"}, FALSE, FALSE)
DecideEvaluationApproval == \* the change is the audit event itself
    Handler("approver", TRUE, FALSE, FALSE, {"refused", "fault"}, FALSE, FALSE)

HandlerOf ==
    [reanalyze_failure |-> ReanalyzeFailure,
     review_failure |-> ReviewFailure,
     create_skill_from_failure |-> CreateSkillFromFailure,
     create_skill_candidate |-> CreateSkillCandidate,
     set_skill_kill_switch |-> SetSkillKillSwitch,
     record_skill_evaluation |-> RecordSkillEvaluation,
     skill_action |-> SkillAction,
     register_release_runtime |-> RegisterReleaseRuntime,
     create_release |-> CreateRelease,
     stop_release |-> StopRelease,
     evaluate_release |-> EvaluateRelease,
     decide_evaluation_approval |-> DecideEvaluationApproval]

Operations == DOMAIN HandlerOf
Policy == HandlerOf[operation]

-----------------------------------------------------------------------------
NoClaim == [status |-> "absent"]
InProgress(p) == [status |-> "in_progress", print |-> p]
Completed(p, c) == [status |-> "completed", print |-> p, answer |-> c]
NoCall == [pc |-> "new"]
Request(pc, k, p) == [pc |-> pc, key |-> k, print |-> p]
At(c, pc) == call[c].pc = pc
Goto(c, pc) == call' = [call EXCEPT ![c].pc = pc]

(* A reply carries the change it reports: the call that made it.           *)
Reply(c, code, of) ==
    call' = [call EXCEPT ![c] =
        [pc |-> "done", key |-> @.key, print |-> @.print,
         code |-> code, of |-> of]]
Fails(c) == Reply(c, "error", c)

CPInit ==
    /\ operation \in Operations
    /\ claim = [k \in Keys |-> NoClaim]
    /\ call = [c \in Calls |-> NoCall]
    /\ change = {}
    /\ audit = {}

(***************************************************************************)
(* A request arrives.  require_admin or require_approver and then the      *)
(* confirmation phrase turn a caller away before any state is read.  Admin *)
(* and approver are separate tokens; neither implies the other.            *)
(***************************************************************************)
Admitted(role, phrase) ==
    /\ role = Policy.role
    /\ Policy.phrase => phrase

Arrive(c, k, p, role, phrase) ==
    /\ At(c, "new")
    /\ call' = [call EXCEPT ![c] =
           IF Admitted(role, phrase)
           THEN Request("check", k, p)
           ELSE [pc |-> "done", key |-> k, print |-> p,
                 code |-> "denied", of |-> c]]
    /\ UNCHANGED <<operation, claim, change, audit>>

(* What a handler looks up before it claims: decide_evaluation_approval     *)
(* turns down a report that already has a decision; it does so in a read   *)
(* of its own, before the claim and outside its transaction.               *)
Check(c) ==
    /\ At(c, "check")
    /\ IF operation = "decide_evaluation_approval" /\ change # {}
       THEN Reply(c, "409", c)
       ELSE Goto(c, "claim")
    /\ UNCHANGED <<operation, claim, change, audit>>

\* Mutant: claim() forgets to compare the fingerprint.
MutClaim(c) ==
    LET k == call[c].key
        r == claim[k]
    IN  /\ At(c, "claim")
        /\ \/ /\ r.status = "absent"
              /\ claim' = [claim EXCEPT ![k] = InProgress(call[c].print)]
              /\ Goto(c, "change")
           \/ /\ r.status = "in_progress"
              /\ Reply(c, "409", c)
              /\ UNCHANGED claim
           \/ /\ r.status = "completed"
              /\ Reply(c, "200", r.answer)
              /\ UNCHANGED claim
        /\ UNCHANGED <<operation, change, audit>>

(* claim(): one transaction inserts the record, reads it back and moves it *)
(* from reserved to in_progress, or replays the answer of a completed one. *)
Claim(c) ==
    LET k == call[c].key
        p == call[c].print
        r == claim[k]
    IN  /\ At(c, "claim")
        /\ \/ /\ r.status = "absent"
              /\ claim' = [claim EXCEPT ![k] = InProgress(p)]
              /\ Goto(c, "change")
           \/ /\ r.status # "absent"
              /\ r.status = "in_progress" \/ r.print # p
              /\ Reply(c, "409", c)
              /\ UNCHANGED claim
           \/ /\ r.status = "completed"
              /\ r.print = p
              /\ Reply(c, "200", r.answer)
              /\ UNCHANGED claim
        /\ UNCHANGED <<operation, change, audit>>

\* Mutant: every except clause abandons on any exception.
MutCaught(c, kind) == Goto(c, "abandon")

(* The guarded change: it commits, it is turned down, or the database      *)
(* fails before the commit.  A handler that rereads the row can fail after *)
(* the commit too.  evaluate_release never gets as far as its change, and  *)
(* create_skill_from_failure is always turned down by the gates.           *)
Caught(c, kind) == IF kind \in Policy.catches THEN Goto(c, "abandon") ELSE Fails(c)

Change(c) ==
    /\ At(c, "change")
    /\ \/ /\ operation \notin {"evaluate_release", "create_skill_from_failure"}
          /\ change' = change \cup {<<c, call[c].key, call[c].print>>}
          /\ \/ Goto(c, IF Policy.audits THEN "audit" ELSE "complete")
             \/ Policy.rereads /\ Caught(c, "fault")
       \/ /\ Policy.refuses
          /\ Caught(c, "refused")
          /\ UNCHANGED change
       \/ /\ Caught(c, "fault")
          /\ UNCHANGED change
    /\ UNCHANGED <<operation, claim, audit>>

(* AuditRepository.append, in a transaction of its own.                    *)
AppendAudit(c) ==
    /\ At(c, "audit")
    /\ \/ audit' = audit \cup {c} /\ Goto(c, "complete")
       \/ Fails(c) /\ UNCHANGED audit
    /\ UNCHANGED <<operation, claim, change>>

(* complete(): the record of this call keeps its answer for the replays.   *)
Complete(c) ==
    LET k == call[c].key
    IN  /\ At(c, "complete")
        /\ \/ /\ claim[k].status = "in_progress"
              /\ claim' = [claim EXCEPT ![k] = Completed(call[c].print, c)]
              /\ Reply(c, "200", c)
           \/ /\ IF Policy.wide THEN Goto(c, "abandon") ELSE Fails(c)
              /\ UNCHANGED claim
        /\ UNCHANGED <<operation, change, audit>>

(* abandon(): deletes this call's record while it is in_progress; it can   *)
(* fail like every other transaction.                                      *)
Abandon(c) ==
    /\ At(c, "abandon")
    /\ \/ claim' = [claim EXCEPT ![call[c].key] = NoClaim]
       \/ UNCHANGED claim
    /\ Fails(c)
    /\ UNCHANGED <<operation, change, audit>>

(* The process dies: the requests in flight are never answered, and their  *)
(* records stay in_progress.  Nothing sweeps them.                         *)
InFlight(c) == call[c].pc \notin {"new", "done"}
CPCrash ==
    /\ \E c \in Calls : InFlight(c)
    /\ call' = [c \in Calls |->
           IF InFlight(c)
           THEN [pc |-> "done", key |-> call[c].key, print |-> call[c].print,
                 code |-> "lost", of |-> c]
           ELSE call[c]]
    /\ UNCHANGED <<operation, claim, change, audit>>

CPNext ==
    \/ \E c \in Calls :
         \/ \E k \in Keys, p \in Prints, role \in {"admin", "approver"},
               phrase \in BOOLEAN : Arrive(c, k, p, role, phrase)
         \/ Check(c) \/ Claim(c) \/ Change(c)
         \/ AppendAudit(c) \/ Complete(c) \/ Abandon(c)
    \/ CPCrash

CPSpec == CPInit /\ [][CPNext]_cpVars

-----------------------------------------------------------------------------
(* Records, requests and answers keep their shape; a request that arrived    *)
(* keeps its key and body until it is answered.                            *)
Working == {"check", "claim", "change", "audit", "complete", "abandon"}
Codes == {"200", "denied", "409", "error", "lost"}
ClaimRow == {NoClaim} \cup [status : {"in_progress"}, print : Prints]
                \cup [status : {"completed"}, print : Prints, answer : Calls]
CallRow == {NoCall} \cup [pc : Working, key : Keys, print : Prints]
               \cup [pc : {"done"}, key : Keys, print : Prints, code : Codes, of : Calls]

CPTypeOK ==
    /\ operation \in Operations
    /\ claim \in [Keys -> ClaimRow]
    /\ call \in [Calls -> CallRow]
    /\ change \subseteq Calls \X Keys \X Prints
    /\ audit \subseteq Calls

(* However often a client repeats a key, whichever requests overlap and    *)
(* wherever they fail, the guarded change is made at most once: "Reserve   *)
(* and replay admin mutations without repeating their side effects".       *)
(* create_release is left out: its except clause also covers the read back *)
(* and complete(), so it abandons a claim whose release exists.            *)
ChangeAtMostOnce ==
    operation # "create_release" =>
        \A x, y \in change : x[2] = y[2] => x = y

(* A 200, first or replayed, reports a change that was made for the same   *)
(* key and the same body, with its audit event where the handler writes    *)
(* one: no request is answered with another one's result or ahead of its   *)
(* audit trail.                                                            *)
AnsweredMeansDone ==
    \A c \in Calls : (At(c, "done") /\ call[c].code = "200") =>
        /\ <<call[c].of, call[c].key, call[c].print>> \in change
        /\ Policy.audits => call[c].of \in audit

=============================================================================
