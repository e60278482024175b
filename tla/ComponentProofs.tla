---------------------------- MODULE ComponentProofs ----------------------------
(***************************************************************************)
(* The components that share no state, each on its own: the control plane, *)
(* the outbox, an offline evaluation and the admission of a message.  The  *)
(* theorems hold for any number of calls, keys, outbox rows, publishers,   *)
(* cases, cancel requests and turns, any order book, text and answer.      *)
(***************************************************************************)
EXTENDS ControlPlane, EvaluationJob, Outbox, Admission, TLAPS

(***************************************************************************)
(* The control plane: the idempotency protocol, for every handler and with *)
(* faults and crashes between any two of its transactions.                 *)
(***************************************************************************)
Flying == [pc : Working, key : Keys, print : Prints]
Answered == [pc : {"done"}, key : Keys, print : Prints, code : Codes, of : Calls]

\* The pcs between the claim and the end of the record's life.
Active == {"change", "audit", "complete", "abandon"}

-----------------------------------------------------------------------------
(* What the two ways of moving a request do.                               *)

LEMMA FlyingCall ==
    ASSUME CPTypeOK, NEW c \in Calls, call[c].pc \in Working
    PROVE  call[c] \in Flying
  <1>1. call[c] \in CallRow
    BY DEF CPTypeOK
  <1>2. NoCall.pc = "new"
    BY DEF NoCall
  <1>3. \A r \in Answered : r.pc = "done"
    BY DEF Answered
  <1> QED  BY <1>1, <1>2, <1>3 DEF CallRow, Working, Flying, Answered

LEMMA GotoEffect ==
    ASSUME CPTypeOK, NEW c \in Calls, call[c].pc \in Working, NEW q \in Working,
           Goto(c, q)
    PROVE  /\ call' \in [Calls -> CallRow]
           /\ call'[c] \in Flying /\ call'[c].pc = q
           /\ call'[c].key = call[c].key /\ call'[c].print = call[c].print
           /\ \A d \in Calls \ {c} : call'[d] = call[d]
  <1>1. call[c] \in Flying
    BY FlyingCall
  <1>2. call \in [Calls -> CallRow]
    BY DEF CPTypeOK
  <1> DEFINE r == [call[c] EXCEPT !.pc = q]
  <1>3. r \in Flying /\ r.pc = q /\ r.key = call[c].key /\ r.print = call[c].print
    BY <1>1 DEF Flying
  <1>4. call' = [call EXCEPT ![c] = r]
    BY DEF Goto
  <1> HIDE DEF r
  <1>5. Flying \subseteq CallRow
    BY DEF Flying, CallRow
  <1> QED  BY <1>2, <1>3, <1>4, <1>5

LEMMA ReplyEffect ==
    ASSUME CPTypeOK, NEW c \in Calls, call[c].pc \in Working, NEW code \in Codes,
           NEW of \in Calls, Reply(c, code, of)
    PROVE  /\ call' \in [Calls -> CallRow]
           /\ call'[c].pc = "done" /\ call'[c].code = code /\ call'[c].of = of
           /\ call'[c].key = call[c].key /\ call'[c].print = call[c].print
           /\ \A d \in Calls \ {c} : call'[d] = call[d]
  <1>1. call[c].key \in Keys /\ call[c].print \in Prints
    BY FlyingCall DEF Flying
  <1>2. call \in [Calls -> CallRow]
    BY DEF CPTypeOK
  <1> DEFINE r == [pc |-> "done", key |-> call[c].key, print |-> call[c].print,
                   code |-> code, of |-> of]
  <1>3. r \in CallRow /\ r.pc = "done" /\ r.code = code /\ r.of = of
        /\ r.key = call[c].key /\ r.print = call[c].print
    BY <1>1 DEF CallRow
  <1>4. call' = [call EXCEPT ![c] = r]
    BY DEF Reply
  <1> HIDE DEF r
  <1> QED  BY <1>2, <1>3, <1>4

-----------------------------------------------------------------------------
(***************************************************************************)
(* The invariant.  A request past its claim holds its record, alone; a     *)
(* record that is completed names the change its replays report.           *)
(***************************************************************************)
Owns(c) == call[c].pc \in Active => claim[call[c].key].status = "in_progress"
Alone(c, d) ==
    (call[c].pc \in Active /\ call[d].pc \in Active /\ call[c].key = call[d].key)
        => c = d
Made(c) ==
    /\ call[c].pc \in {"audit", "complete"} => <<c, call[c].key, call[c].print>> \in change
    /\ call[c].pc = "complete" /\ Policy.audits => c \in audit
Reported(k) ==
    claim[k].status = "completed" =>
        /\ claim[k].answer \in Calls
        /\ <<claim[k].answer, k, claim[k].print>> \in change
        /\ Policy.audits => claim[k].answer \in audit
Told(c) ==
    (call[c].pc = "done" /\ call[c].code = "200") =>
        /\ <<call[c].of, call[c].key, call[c].print>> \in change
        /\ Policy.audits => call[c].of \in audit

CPInv ==
    /\ CPTypeOK
    /\ \A c \in Calls : Owns(c) /\ Made(c) /\ Told(c)
    /\ \A c, d \in Calls : Alone(c, d)
    /\ \A k \in Keys : Reported(k)

\* No change has been made under a key that nobody has claimed, or whose holder
\* has not got to its change or gives its record up.
Quiet(k) == \A x \in change : x[2] # k
OnceInv ==
    operation # "create_release" =>
        /\ \A k \in Keys : claim[k].status = "absent" => Quiet(k)
        /\ \A c \in Calls : call[c].pc \in {"change", "abandon"} => Quiet(call[c].key)
        /\ \A x, y \in change : x[2] = y[2] => x = y

-----------------------------------------------------------------------------
(* A step of one request: what it must show for the others to be untouched. *)

LEMMA OneRequest ==
    ASSUME CPInv, NEW c \in Calls,
           call' \in [Calls -> CallRow],
           \A d \in Calls \ {c} : call'[d] = call[d],
           claim' \in [Keys -> ClaimRow],
           \A d \in Calls \ {c} : call[d].pc \in Active =>
               claim'[call[d].key].status = claim[call[d].key].status,
           operation' = operation,
           change \subseteq change', change' \subseteq Calls \X Keys \X Prints,
           audit \subseteq audit', audit' \subseteq Calls,
           Owns(c)', Made(c)', Told(c)',
           \A d \in Calls : Alone(c, d)',
           \A k \in Keys : Reported(k)'
    PROVE  CPInv'
  <1>1. CPTypeOK'
    BY DEF CPInv, CPTypeOK
  <1>2. ASSUME NEW d \in Calls
        PROVE  Owns(d)' /\ Made(d)' /\ Told(d)'
    <2>1. CASE d = c
      BY <2>1
    <2>2. CASE d # c
      <3>1. call'[d] = call[d] /\ Policy' = Policy
        BY <2>2 DEF Policy
      <3>2. Owns(d)'
        BY <2>2, <3>1 DEF CPInv, Owns
      <3>3. Made(d)' /\ Told(d)'
        BY <3>1 DEF CPInv, Made, Told
      <3> QED  BY <3>2, <3>3
    <2> QED  BY <2>1, <2>2
  <1>3. ASSUME NEW d \in Calls, NEW e \in Calls
        PROVE  Alone(d, e)'
    <2>1. CASE d = c
      BY <2>1
    <2>2. CASE e = c
      <3>1. Alone(c, d)'
        OBVIOUS
      <3> QED  BY <2>2, <3>1 DEF Alone
    <2>3. CASE d # c /\ e # c
      BY <2>3 DEF CPInv, Alone
    <2> QED  BY <2>1, <2>2, <2>3
  <1> QED  BY <1>1, <1>2, <1>3 DEF CPInv

(* The records a step leaves alone keep reporting what they reported.       *)
LEMMA StillReported ==
    ASSUME CPInv, NEW k \in Keys, claim'[k] = claim[k], operation' = operation,
           change \subseteq change', audit \subseteq audit'
    PROVE  Reported(k)'
  BY DEF CPInv, Reported, Policy

(* A step that writes no record and only moves a request on.               *)
LEMMA Moved ==
    ASSUME CPInv, NEW c \in Calls, call[c].pc \in Working, NEW q \in Working,
           Goto(c, q), UNCHANGED <<operation, claim>>,
           change \subseteq change', change' \subseteq Calls \X Keys \X Prints,
           audit \subseteq audit', audit' \subseteq Calls,
           q \in Active => call[c].pc \in Active,
           q \in {"audit", "complete"} => <<c, call[c].key, call[c].print>> \in change',
           q = "complete" /\ Policy.audits => c \in audit'
    PROVE  CPInv'
  <1>1. CPTypeOK
    BY DEF CPInv
  <1>2. /\ call' \in [Calls -> CallRow]
        /\ call'[c].pc = q /\ call'[c].key = call[c].key /\ call'[c].print = call[c].print
        /\ \A d \in Calls \ {c} : call'[d] = call[d]
    BY <1>1, GotoEffect
  <1>3. q # "done"
    BY DEF Working
  <1>4. Owns(c)' /\ Made(c)' /\ Told(c)'
    BY <1>2, <1>3 DEF CPInv, Owns, Made, Told, Policy
  <1>5. ASSUME NEW d \in Calls PROVE Alone(c, d)'
    BY <1>2 DEF CPInv, Alone
  <1>6. ASSUME NEW k \in Keys PROVE Reported(k)'
    BY StillReported
  <1>7. claim' \in [Keys -> ClaimRow]
    BY <1>1 DEF CPTypeOK
  <1> QED  BY <1>2, <1>4, <1>5, <1>6, <1>7, OneRequest

(* A step that answers a request: what is left is the record it may write. *)
LEMMA ReplyKeeps ==
    ASSUME CPInv, NEW c \in Calls, call[c].pc \in Working, NEW code \in Codes,
           NEW of \in Calls, Reply(c, code, of), operation' = operation,
           change \subseteq change', change' \subseteq Calls \X Keys \X Prints,
           audit' = audit,
           claim' \in [Keys -> ClaimRow],
           \A d \in Calls \ {c} : call[d].pc \in Active =>
               claim'[call[d].key].status = claim[call[d].key].status,
           \A k \in Keys : Reported(k)',
           code = "200" => /\ <<of, call[c].key, call[c].print>> \in change
                           /\ Policy.audits => of \in audit
    PROVE  CPInv'
  <1>1. CPTypeOK
    BY DEF CPInv
  <1>2. /\ call' \in [Calls -> CallRow]
        /\ call'[c].pc = "done" /\ call'[c].code = code /\ call'[c].of = of
        /\ call'[c].key = call[c].key /\ call'[c].print = call[c].print
        /\ \A d \in Calls \ {c} : call'[d] = call[d]
    BY <1>1, ReplyEffect
  <1>3. Owns(c)' /\ Made(c)' /\ Told(c)'
    BY <1>2 DEF Owns, Made, Told, Policy, Active
  <1>4. ASSUME NEW d \in Calls PROVE Alone(c, d)'
    BY <1>2 DEF Alone, Active
  <1>5. audit' \subseteq Calls
    BY <1>1 DEF CPTypeOK
  <1> QED  BY <1>2, <1>3, <1>4, <1>5, OneRequest

(* The common case of it: no record is written.                            *)
LEMMA Refuses ==
    ASSUME CPInv, NEW c \in Calls, call[c].pc \in Working, NEW code \in Codes \ {"200"},
           Reply(c, code, c), UNCHANGED <<operation, claim, audit>>,
           change \subseteq change', change' \subseteq Calls \X Keys \X Prints
    PROVE  CPInv'
  <1>1. claim' \in [Keys -> ClaimRow]
    BY DEF CPInv, CPTypeOK
  <1>2. ASSUME NEW k \in Keys PROVE Reported(k)'
    BY StillReported
  <1> QED  BY <1>1, <1>2, ReplyKeeps

-----------------------------------------------------------------------------
(* Each action preserves the invariant.                                    *)

LEMMA ArriveKeeps ==
    ASSUME CPInv, NEW c \in Calls, NEW k \in Keys, NEW p \in Prints,
           NEW role, NEW phrase, Arrive(c, k, p, role, phrase)
    PROVE  CPInv'
  <1> DEFINE r == IF Admitted(role, phrase)
                  THEN Request("check", k, p)
                  ELSE [pc |-> "done", key |-> k, print |-> p,
                        code |-> "denied", of |-> c]
  <1>1. call' = [call EXCEPT ![c] = r] /\ UNCHANGED <<operation, claim, change, audit>>
    BY DEF Arrive
  <1>2. r \in CallRow /\ r.pc \in {"check", "done"} /\ (r.pc = "done" => r.code = "denied")
    BY DEF Request, CallRow, Working, Codes
  <1> HIDE DEF r
  <1>3. CPTypeOK
    BY DEF CPInv
  <1>4. call' \in [Calls -> CallRow] /\ call'[c] = r
        /\ \A d \in Calls \ {c} : call'[d] = call[d]
    BY <1>1, <1>2, <1>3 DEF CPTypeOK
  <1>5. Owns(c)' /\ Made(c)' /\ Told(c)'
    BY <1>2, <1>4 DEF Owns, Made, Told, Active
  <1>6. ASSUME NEW d \in Calls PROVE Alone(c, d)'
    BY <1>2, <1>4 DEF Alone, Active
  <1>7. ASSUME NEW j \in Keys PROVE Reported(j)'
    BY <1>1, StillReported
  <1>8. /\ claim' = claim /\ claim' \in [Keys -> ClaimRow] /\ operation' = operation
        /\ change' = change /\ change' \subseteq Calls \X Keys \X Prints
        /\ audit' = audit /\ audit' \subseteq Calls
    BY <1>1, <1>3 DEF CPTypeOK
  <1> QED  BY <1>4, <1>5, <1>6, <1>7, <1>8, OneRequest

LEMMA CheckKeeps ==
    ASSUME CPInv, NEW c \in Calls, Check(c)
    PROVE  CPInv'
  <1>1. call[c].pc = "check" /\ UNCHANGED <<operation, claim, change, audit>>
    BY DEF Check, At
  <1>2. call[c].pc \in Working /\ "claim" \in Working /\ "409" \in Codes \ {"200"}
    BY <1>1 DEF Working, Codes
  <1>3. change' \subseteq Calls \X Keys \X Prints /\ audit' \subseteq Calls
    BY <1>1 DEF CPInv, CPTypeOK
  <1>4. CASE Reply(c, "409", c)
    BY <1>1, <1>2, <1>3, <1>4, Refuses
  <1>5. CASE Goto(c, "claim")
    BY <1>1, <1>2, <1>3, <1>5, Moved DEF Active
  <1> QED  BY <1>4, <1>5 DEF Check

LEMMA ClaimKeeps ==
    ASSUME CPInv, NEW c \in Calls, Claim(c)
    PROVE  CPInv'
  <1> DEFINE k == call[c].key
             p == call[c].print
  <1>1. call[c].pc = "claim" /\ UNCHANGED <<operation, change, audit>>
    BY DEF Claim, At
  <1>2. CPTypeOK /\ call[c].pc \in Working /\ "change" \in Working
    BY <1>1 DEF CPInv, Working
  <1>3. k \in Keys /\ p \in Prints
    BY <1>2, FlyingCall DEF Flying
  <1>4. /\ change' \subseteq Calls \X Keys \X Prints /\ audit' \subseteq Calls
        /\ claim \in [Keys -> ClaimRow]
    BY <1>1, <1>2 DEF CPTypeOK
  <1>5. CASE /\ claim[k].status = "absent"
             /\ claim' = [claim EXCEPT ![k] = InProgress(p)]
             /\ Goto(c, "change")
    <2>1. /\ call' \in [Calls -> CallRow]
          /\ call'[c].pc = "change" /\ call'[c].key = k /\ call'[c].print = p
          /\ \A d \in Calls \ {c} : call'[d] = call[d]
      BY <1>2, <1>5, GotoEffect
    <2>2. InProgress(p) \in ClaimRow /\ InProgress(p).status = "in_progress"
      BY <1>3 DEF InProgress, ClaimRow
    <2>3. /\ claim' \in [Keys -> ClaimRow] /\ claim'[k].status = "in_progress"
          /\ \A j \in Keys \ {k} : claim'[j] = claim[j]
      BY <1>3, <1>4, <1>5, <2>2
    <2>4. ASSUME NEW d \in Calls, call[d].pc \in Active
          PROVE  call[d].key \in Keys \ {k}
      <3>1. call[d].pc \in Working
        BY <2>4 DEF Active, Working
      <3>2. call[d].key \in Keys
        BY <1>2, <3>1, FlyingCall DEF Flying
      <3>3. claim[call[d].key].status = "in_progress"
        BY <2>4 DEF CPInv, Owns
      <3> QED  BY <1>5, <3>2, <3>3
    <2>5. \A d \in Calls \ {c} : call[d].pc \in Active =>
              claim'[call[d].key].status = claim[call[d].key].status
      BY <2>3, <2>4
    <2>6. Owns(c)' /\ Made(c)' /\ Told(c)'
      BY <2>1, <2>3 DEF Owns, Made, Told
    <2>7. ASSUME NEW d \in Calls PROVE Alone(c, d)'
      BY <2>1, <2>4 DEF Alone
    <2>8. ASSUME NEW j \in Keys PROVE Reported(j)'
      <3>1. CASE j = k
        BY <2>3, <3>1 DEF Reported
      <3>2. CASE j # k
        BY <1>1, <2>3, <3>2, StillReported
      <3> QED  BY <3>1, <3>2
    <2> QED  BY <1>1, <1>4, <2>1, <2>3, <2>5, <2>6, <2>7, <2>8, OneRequest
  <1>6. CASE Reply(c, "409", c) /\ claim' = claim
    <2>1. "409" \in Codes \ {"200"}
      BY DEF Codes
    <2> QED  BY <1>1, <1>2, <1>4, <1>6, <2>1, Refuses
  <1>7. CASE /\ claim[k].status = "completed" /\ claim[k].print = p
             /\ Reply(c, "200", claim[k].answer) /\ claim' = claim
    <2>1. /\ claim[k].answer \in Calls
          /\ <<claim[k].answer, k, p>> \in change
          /\ Policy.audits => claim[k].answer \in audit
      BY <1>3, <1>7 DEF CPInv, Reported
    <2>2. ASSUME NEW j \in Keys PROVE Reported(j)'
      BY <1>1, <1>7, StillReported
    <2>3. "200" \in Codes
      BY DEF Codes
    <2> QED  BY <1>1, <1>2, <1>4, <1>7, <2>1, <2>2, <2>3, ReplyKeeps
  <1> QED  BY <1>5, <1>6, <1>7 DEF Claim

LEMMA CaughtKeeps ==
    ASSUME CPInv, NEW c \in Calls, call[c].pc = "change", NEW kind, Caught(c, kind),
           UNCHANGED <<operation, claim, audit>>,
           change \subseteq change', change' \subseteq Calls \X Keys \X Prints
    PROVE  CPInv'
  <1>1. call[c].pc \in Working /\ call[c].pc \in Active /\ "abandon" \in Working
        /\ "error" \in Codes \ {"200"}
    BY DEF Working, Active, Codes
  <1>2. audit' \subseteq Calls
    BY DEF CPInv, CPTypeOK
  <1>3. CASE Goto(c, "abandon")
    BY <1>1, <1>2, <1>3, Moved
  <1>4. CASE Fails(c)
    BY <1>1, <1>4, Refuses DEF Fails
  <1> QED  BY <1>3, <1>4 DEF Caught

LEMMA ChangeKeeps ==
    ASSUME CPInv, NEW c \in Calls, Change(c)
    PROVE  CPInv'
  <1>1. call[c].pc = "change" /\ UNCHANGED <<operation, claim, audit>>
    BY DEF Change, At
  <1>2. CPTypeOK /\ call[c].pc \in Working /\ call[c].pc \in Active
        /\ "audit" \in Working /\ "complete" \in Working
    BY <1>1 DEF CPInv, Working, Active
  <1>3. <<c, call[c].key, call[c].print>> \in Calls \X Keys \X Prints
    BY <1>2, FlyingCall DEF Flying
  <1>4. audit' \subseteq Calls /\ change \subseteq Calls \X Keys \X Prints
    BY <1>1, <1>2 DEF CPTypeOK
  <1>5. CASE change' = change \cup {<<c, call[c].key, call[c].print>>}
    <2>1. change \subseteq change' /\ change' \subseteq Calls \X Keys \X Prints
          /\ <<c, call[c].key, call[c].print>> \in change'
      BY <1>3, <1>4, <1>5
    <2>2. CASE Goto(c, IF Policy.audits THEN "audit" ELSE "complete")
      <3>1. CASE Policy.audits
        BY <1>1, <1>2, <1>4, <2>1, <2>2, <3>1, Moved
      <3>2. CASE ~Policy.audits
        BY <1>1, <1>2, <1>4, <2>1, <2>2, <3>2, Moved
      <3> QED  BY <3>1, <3>2
    <2>3. CASE \E kind : Caught(c, kind)
      BY <1>1, <2>1, <2>3, CaughtKeeps
    <2> QED  BY <1>1, <2>1, <2>2, <2>3 DEF Change
  <1>6. CASE change' = change /\ \E kind : Caught(c, kind)
    BY <1>1, <1>4, <1>6, CaughtKeeps
  <1> QED  BY <1>5, <1>6 DEF Change

LEMMA AppendAuditKeeps ==
    ASSUME CPInv, NEW c \in Calls, AppendAudit(c)
    PROVE  CPInv'
  <1>1. call[c].pc = "audit" /\ UNCHANGED <<operation, claim, change>>
    BY DEF AppendAudit, At
  <1>2. CPTypeOK /\ call[c].pc \in Working /\ call[c].pc \in Active
        /\ "complete" \in Working /\ "error" \in Codes \ {"200"}
    BY <1>1 DEF CPInv, Working, Active, Codes
  <1>3. <<c, call[c].key, call[c].print>> \in change
    BY <1>1 DEF CPInv, Made
  <1>4. change' = change /\ change' \subseteq Calls \X Keys \X Prints /\ audit \subseteq Calls
    BY <1>1, <1>2 DEF CPTypeOK
  <1>5. CASE audit' = audit \cup {c} /\ Goto(c, "complete")
    <2>1. audit \subseteq audit' /\ audit' \subseteq Calls /\ c \in audit'
      BY <1>4, <1>5
    <2> QED  BY <1>1, <1>2, <1>3, <1>4, <1>5, <2>1, Moved
  <1>6. CASE Fails(c) /\ audit' = audit
    BY <1>1, <1>2, <1>4, <1>6, Refuses DEF Fails
  <1> QED  BY <1>5, <1>6 DEF AppendAudit

LEMMA CompleteKeeps ==
    ASSUME CPInv, NEW c \in Calls, Complete(c)
    PROVE  CPInv'
  <1> DEFINE k == call[c].key
             p == call[c].print
  <1>1. call[c].pc = "complete" /\ UNCHANGED <<operation, change, audit>>
    BY DEF Complete, At
  <1>2. CPTypeOK /\ call[c].pc \in Working /\ call[c].pc \in Active
        /\ "abandon" \in Working /\ "error" \in Codes \ {"200"} /\ "200" \in Codes
    BY <1>1 DEF CPInv, Working, Active, Codes
  <1>3. <<c, k, p>> \in change /\ (Policy.audits => c \in audit)
    BY <1>1 DEF CPInv, Made
  <1>4. /\ change' = change /\ change' \subseteq Calls \X Keys \X Prints
        /\ audit' = audit /\ audit' \subseteq Calls
        /\ claim \in [Keys -> ClaimRow]
    BY <1>1, <1>2 DEF CPTypeOK
  <1>5. CASE claim' = [claim EXCEPT ![k] = Completed(p, c)] /\ Reply(c, "200", c)
    <2>1. k \in Keys /\ p \in Prints
      BY <1>2, FlyingCall DEF Flying
    <2>2. /\ Completed(p, c) \in ClaimRow /\ Completed(p, c).status = "completed"
          /\ Completed(p, c).print = p /\ Completed(p, c).answer = c
      BY <2>1 DEF Completed, ClaimRow
    <2>3. /\ claim' \in [Keys -> ClaimRow] /\ claim'[k] = Completed(p, c)
          /\ \A j \in Keys \ {k} : claim'[j] = claim[j]
      BY <1>4, <1>5, <2>1, <2>2
    <2>4. ASSUME NEW d \in Calls \ {c}, call[d].pc \in Active
          PROVE  claim'[call[d].key].status = claim[call[d].key].status
      <3>1. call[d].pc \in Working
        BY <2>4 DEF Active, Working
      <3>2. call[d].key \in Keys
        BY <1>2, <3>1, FlyingCall DEF Flying
      <3>3. call[d].key # k
        BY <1>2, <2>4 DEF CPInv, Alone
      <3> QED  BY <2>3, <3>2, <3>3
    <2>5. ASSUME NEW j \in Keys PROVE Reported(j)'
      <3>1. CASE j = k
        <4>1. Policy' = Policy
          BY <1>1 DEF Policy
        <4> QED  BY <1>3, <1>4, <2>2, <2>3, <3>1, <4>1 DEF Reported
      <3>2. CASE j # k
        BY <1>1, <2>3, <3>2, StillReported
      <3> QED  BY <3>1, <3>2
    <2> QED  BY <1>1, <1>2, <1>3, <1>4, <1>5, <2>3, <2>4, <2>5, ReplyKeeps
  <1>6. CASE Goto(c, "abandon") /\ claim' = claim
    BY <1>1, <1>2, <1>4, <1>6, Moved
  <1>7. CASE Fails(c) /\ claim' = claim
    BY <1>1, <1>2, <1>4, <1>7, Refuses DEF Fails
  <1> QED  BY <1>5, <1>6, <1>7 DEF Complete

LEMMA AbandonKeeps ==
    ASSUME CPInv, NEW c \in Calls, Abandon(c)
    PROVE  CPInv'
  <1> DEFINE k == call[c].key
  <1>1. call[c].pc = "abandon" /\ Fails(c) /\ UNCHANGED <<operation, change, audit>>
    BY DEF Abandon, At
  <1>2. CPTypeOK /\ call[c].pc \in Working /\ call[c].pc \in Active
        /\ "error" \in Codes \ {"200"} /\ "error" \in Codes
    BY <1>1 DEF CPInv, Working, Active, Codes
  <1>3. /\ change' = change /\ change' \subseteq Calls \X Keys \X Prints
        /\ claim \in [Keys -> ClaimRow]
    BY <1>1, <1>2 DEF CPTypeOK
  <1>4. CASE claim' = [claim EXCEPT ![k] = NoClaim]
    <2>1. k \in Keys
      BY <1>2, FlyingCall DEF Flying
    <2>2. NoClaim \in ClaimRow /\ NoClaim.status = "absent"
      BY DEF NoClaim, ClaimRow
    <2>3. /\ claim' \in [Keys -> ClaimRow] /\ claim'[k] = NoClaim
          /\ \A j \in Keys \ {k} : claim'[j] = claim[j]
      BY <1>3, <1>4, <2>1, <2>2
    <2>4. ASSUME NEW d \in Calls \ {c}, call[d].pc \in Active
          PROVE  claim'[call[d].key].status = claim[call[d].key].status
      <3>1. call[d].pc \in Working
        BY <2>4 DEF Active, Working
      <3>2. call[d].key \in Keys
        BY <1>2, <3>1, FlyingCall DEF Flying
      <3>3. call[d].key # k
        BY <1>2, <2>4 DEF CPInv, Alone
      <3> QED  BY <2>3, <3>2, <3>3
    <2>5. ASSUME NEW j \in Keys PROVE Reported(j)'
      <3>1. CASE j = k
        BY <2>2, <2>3, <3>1 DEF Reported
      <3>2. CASE j # k
        BY <1>1, <2>3, <3>2, StillReported
      <3> QED  BY <3>1, <3>2
    <2> QED  BY <1>1, <1>2, <1>3, <2>3, <2>4, <2>5, ReplyKeeps DEF Fails
  <1>5. CASE claim' = claim
    BY <1>1, <1>2, <1>3, <1>5, Refuses DEF Fails
  <1> QED  BY <1>4, <1>5 DEF Abandon

LEMMA CrashKeeps ==
    ASSUME CPInv, CPCrash
    PROVE  CPInv'
  <1>1. UNCHANGED <<operation, claim, change, audit>> /\ CPTypeOK
    BY DEF CPCrash, CPInv
  <1>2. Policy' = Policy
    BY <1>1 DEF Policy
  <1>3. ASSUME NEW c \in Calls
        PROVE  /\ call'[c] \in CallRow
               /\ \/ call'[c] = call[c]
                  \/ call'[c].pc = "done" /\ call'[c].code = "lost"
    <2>1. CASE InFlight(c)
      <3>1. call'[c] = [pc |-> "done", key |-> call[c].key, print |-> call[c].print,
                        code |-> "lost", of |-> c]
        BY <2>1 DEF CPCrash
      <3>2. call[c] \in CallRow
        BY <1>1 DEF CPTypeOK
      <3>3. call[c].pc \in Working
        BY <2>1, <3>2 DEF InFlight, CallRow, NoCall
      <3>4. call[c].key \in Keys /\ call[c].print \in Prints
        BY <1>1, <3>3, FlyingCall DEF Flying
      <3> QED  BY <3>1, <3>4 DEF CallRow, Codes
    <2>2. CASE ~InFlight(c)
      BY <1>1, <2>2 DEF CPCrash, CPTypeOK
    <2> QED  BY <2>1, <2>2
  <1>4. call' \in [Calls -> CallRow]
    BY <1>3 DEF CPCrash
  <1>5. CPTypeOK'
    BY <1>1, <1>4 DEF CPTypeOK
  <1>6. ASSUME NEW c \in Calls PROVE Owns(c)' /\ Made(c)' /\ Told(c)'
    BY <1>1, <1>2, <1>3 DEF CPInv, Owns, Made, Told, Active
  <1>7. ASSUME NEW c \in Calls, NEW d \in Calls PROVE Alone(c, d)'
    BY <1>3 DEF CPInv, Alone, Active
  <1>8. ASSUME NEW k \in Keys PROVE Reported(k)'
    BY <1>1, StillReported
  <1> QED  BY <1>5, <1>6, <1>7, <1>8 DEF CPInv

LEMMA CPInvInit ==
    ASSUME CPInit
    PROVE  CPInv
  <1>1. NoCall \in CallRow /\ NoCall.pc = "new" /\ NoClaim \in ClaimRow
        /\ NoClaim.status = "absent"
    BY DEF NoCall, CallRow, NoClaim, ClaimRow
  <1>2. CPTypeOK
    BY <1>1 DEF CPInit, CPTypeOK
  <1>3. ASSUME NEW c \in Calls PROVE call[c].pc = "new"
    BY <1>1 DEF CPInit
  <1>4. ASSUME NEW k \in Keys PROVE Reported(k)
    BY <1>1 DEF CPInit, Reported
  <1> QED  BY <1>2, <1>3, <1>4 DEF CPInv, Owns, Made, Told, Alone, Active

LEMMA CPInvStep ==
    ASSUME CPInv, [CPNext]_cpVars
    PROVE  CPInv'
  <1>1. CASE CPNext
    BY <1>1, ArriveKeeps, CheckKeeps, ClaimKeeps, ChangeKeeps, AppendAuditKeeps,
       CompleteKeeps, AbandonKeeps, CrashKeeps DEF CPNext
  <1>2. CASE UNCHANGED cpVars
    BY <1>2 DEF cpVars, CPInv, CPTypeOK, Owns, Made, Told, Alone, Reported, Policy
  <1> QED  BY <1>1, <1>2

(* Records, requests and answers keep their shape, whatever the handlers,   *)
(* the clients' keys and the faults.                                       *)
THEOREM ControlPlaneTypes == CPSpec => []CPTypeOK
  <1>1. CPInv => CPTypeOK
    BY DEF CPInv
  <1> QED  BY <1>1, CPInvInit, CPInvStep, PTL DEF CPSpec

(* A 200 of any control-plane POST, first or replayed, reports a change    *)
(* committed for that key and that body, with its audit event: complete()  *)
(* is reached past the change and the append only, and claim() replays a   *)
(* record to a request with the same fingerprint only.                     *)
THEOREM AnswersAreHonest == CPSpec => []AnsweredMeansDone
  <1>1. CPInv => AnsweredMeansDone
    BY DEF CPInv, Told, AnsweredMeansDone, At
  <1> QED  BY <1>1, CPInvInit, CPInvStep, PTL DEF CPSpec

-----------------------------------------------------------------------------
(***************************************************************************)
(* At most one change per key: what a clause that abandons must not cover. *)
(***************************************************************************)

(* No handler but create_release gives its record up past its commit: the  *)
(* ones that catch every exception read nothing back, and their clause     *)
(* ends before complete().                                                 *)
LEMMA NarrowClauses ==
    ASSUME NEW op \in Operations, op # "create_release"
    PROVE  /\ ~HandlerOf[op].wide
           /\ HandlerOf[op].rereads => "fault" \notin HandlerOf[op].catches
  BY DEF Operations, HandlerOf, Handler, ReanalyzeFailure, ReviewFailure,
         CreateSkillFromFailure, CreateSkillCandidate, SetSkillKillSwitch,
         RecordSkillEvaluation, SkillAction, RegisterReleaseRuntime, CreateRelease,
         StopRelease, EvaluateRelease, DecideEvaluationApproval

(* Where no change is made, keys stay quiet: what is left to show is that  *)
(* a record given up, and a request that is about to change or to give its *)
(* record up, was quiet before.                                            *)
LEMMA StillOnce ==
    ASSUME CPInv, OnceInv, operation' = operation, change' = change,
           operation # "create_release" =>
               /\ \A k \in Keys : claim'[k].status = "absent" =>
                      claim[k].status = "absent" \/ Quiet(k)
               /\ \A c \in Calls : call'[c].pc \in {"change", "abandon"} =>
                      Quiet(call'[c].key)
    PROVE  OnceInv'
  BY DEF OnceInv, Quiet

LEMMA OnceStep ==
    ASSUME CPInv, OnceInv, [CPNext]_cpVars
    PROVE  OnceInv'
  <1> SUFFICES ASSUME operation' # "create_release" PROVE OnceInv'
    BY DEF OnceInv
  <1>0. CPTypeOK
    BY DEF CPInv
  <1>1. ASSUME NEW c \in Calls, NEW k \in Keys, NEW p \in Prints, NEW role, NEW phrase,
               Arrive(c, k, p, role, phrase)
        PROVE  OnceInv'
    <2>1. call'[c].pc \notin {"change", "abandon"}
      BY <1>0, <1>1 DEF Arrive, Request, CPTypeOK
    <2>2. \A d \in Calls \ {c} : call'[d] = call[d]
      BY <1>0, <1>1 DEF Arrive, CPTypeOK
    <2>3. UNCHANGED <<operation, claim, change>>
      BY <1>1 DEF Arrive
    <2> QED  BY <2>1, <2>2, <2>3, StillOnce DEF OnceInv
  <1>2. ASSUME NEW c \in Calls, Check(c)
        PROVE  OnceInv'
    <2>1. UNCHANGED <<operation, claim, change>> /\ call[c].pc = "check"
      BY <1>2 DEF Check, At
    <2>2. /\ call'[c].pc \notin {"change", "abandon"}
          /\ \A d \in Calls \ {c} : call'[d] = call[d]
      BY <1>0, <1>2, <2>1, GotoEffect, ReplyEffect DEF Check, Working, Codes
    <2> QED  BY <2>1, <2>2, StillOnce DEF OnceInv
  <1>3. ASSUME NEW c \in Calls, Claim(c)
        PROVE  OnceInv'
    <2>1. UNCHANGED <<operation, change>> /\ call[c].pc = "claim" /\ call[c].pc \in Working
      BY <1>3 DEF Claim, At, Working
    <2>2. call[c].key \in Keys
      BY <1>0, <2>1, FlyingCall DEF Flying
    <2>3. CASE /\ claim[call[c].key].status = "absent"
               /\ claim' = [claim EXCEPT ![call[c].key] = InProgress(call[c].print)]
               /\ Goto(c, "change")
      <3>1. /\ call'[c].key = call[c].key
            /\ \A d \in Calls \ {c} : call'[d] = call[d]
        BY <1>0, <2>1, <2>3, GotoEffect DEF Working
      <3>2. \A k \in Keys : claim'[k].status = "absent" => claim[k].status = "absent"
        BY <1>0, <2>2, <2>3 DEF InProgress, CPTypeOK
      <3> QED  BY <2>1, <2>2, <2>3, <3>1, <3>2, StillOnce DEF OnceInv
    <2>4. CASE claim' = claim /\ \E code \in Codes, of \in Calls : Reply(c, code, of)
      <3>1. call'[c].pc = "done" /\ \A d \in Calls \ {c} : call'[d] = call[d]
        BY <1>0, <2>1, <2>4, ReplyEffect
      <3> QED  BY <2>1, <2>4, <3>1, StillOnce DEF OnceInv
    <2>5. claim[call[c].key].status = "completed" => claim[call[c].key].answer \in Calls
      BY <2>2 DEF CPInv, Reported
    <2> QED  BY <1>3, <2>3, <2>4, <2>5 DEF Claim, Codes
  <1>4. ASSUME NEW c \in Calls, Change(c)
        PROVE  OnceInv'
    <2>1. UNCHANGED <<operation, claim>> /\ call[c].pc = "change" /\ call[c].pc \in Working
      BY <1>4 DEF Change, At, Working
    <2>2. /\ call[c].key \in Keys /\ Quiet(call[c].key)
          /\ claim[call[c].key].status = "in_progress"
      BY <1>0, <2>1, FlyingCall DEF Flying, OnceInv, CPInv, Owns, Active
    <2>3. /\ ~Policy.wide
          /\ Policy.rereads => "fault" \notin Policy.catches
      BY <1>0, <2>1, NarrowClauses DEF Policy, CPTypeOK
    <2>4. ASSUME NEW kind, Caught(c, kind)
          PROVE  /\ call'[c].key = call[c].key
                 /\ call'[c].pc = "done" \/ kind \in Policy.catches
                 /\ \A d \in Calls \ {c} : call'[d] = call[d]
      BY <1>0, <2>1, <2>4, GotoEffect, ReplyEffect DEF Caught, Fails, Working, Codes
    <2>5. CASE change' = change \cup {<<c, call[c].key, call[c].print>>}
               /\ (Goto(c, IF Policy.audits THEN "audit" ELSE "complete")
                   \/ (Policy.rereads /\ Caught(c, "fault")))
      <3>1. /\ call'[c].pc \notin {"change", "abandon"}
            /\ \A d \in Calls \ {c} : call'[d] = call[d]
        <4>1. CASE Goto(c, IF Policy.audits THEN "audit" ELSE "complete")
          BY <1>0, <2>1, <4>1, GotoEffect DEF Working
        <4>2. CASE Policy.rereads /\ Caught(c, "fault")
          BY <2>3, <2>4, <4>2
        <4> QED  BY <2>5, <4>1, <4>2
      <3>2. ASSUME NEW k \in Keys, claim'[k].status = "absent" PROVE Quiet(k)'
        BY <2>1, <2>2, <2>5, <3>2 DEF OnceInv, Quiet
      <3>3. ASSUME NEW d \in Calls, call'[d].pc \in {"change", "abandon"}
            PROVE  Quiet(call[d].key)' /\ call'[d] = call[d]
        <4>1. d # c /\ call'[d] = call[d] /\ Quiet(call[d].key)
          BY <2>1, <3>1, <3>3 DEF OnceInv
        <4>2. call[d].key # call[c].key
          BY <2>1, <3>3, <4>1 DEF CPInv, Alone, Active
        <4> QED  BY <2>5, <4>1, <4>2 DEF Quiet
      <3>4. \A x, y \in change' : x[2] = y[2] => x = y
        BY <2>1, <2>2, <2>5 DEF OnceInv, Quiet
      <3> QED  BY <3>2, <3>3, <3>4 DEF OnceInv, Quiet
    <2>6. CASE change' = change /\ \E kind : Caught(c, kind)
      <3>1. call'[c].key = call[c].key /\ \A d \in Calls \ {c} : call'[d] = call[d]
        BY <2>4, <2>6
      <3> QED  BY <2>1, <2>2, <2>6, <3>1, StillOnce DEF OnceInv
    <2> QED  BY <1>4, <2>5, <2>6 DEF Change
  <1>5. ASSUME NEW c \in Calls, AppendAudit(c)
        PROVE  OnceInv'
    <2>1. UNCHANGED <<operation, claim, change>> /\ call[c].pc = "audit"
      BY <1>5 DEF AppendAudit, At
    <2>2. /\ call'[c].pc \notin {"change", "abandon"}
          /\ \A d \in Calls \ {c} : call'[d] = call[d]
      BY <1>0, <1>5, <2>1, GotoEffect, ReplyEffect DEF AppendAudit, Fails, Working, Codes
    <2> QED  BY <2>1, <2>2, StillOnce DEF OnceInv
  <1>6. ASSUME NEW c \in Calls, Complete(c)
        PROVE  OnceInv'
    <2>1. UNCHANGED <<operation, change>> /\ call[c].pc = "complete" /\ call[c].pc \in Working
      BY <1>6 DEF Complete, At, Working
    <2>2. ~Policy.wide
      BY <1>0, <2>1, NarrowClauses DEF Policy, CPTypeOK
    <2>3. /\ call'[c].pc = "done"
          /\ \A d \in Calls \ {c} : call'[d] = call[d]
      BY <1>0, <1>6, <2>1, <2>2, ReplyEffect DEF Complete, Fails, Codes
    <2>4. \A k \in Keys : claim'[k].status = "absent" => claim[k].status = "absent"
      BY <1>0, <1>6 DEF Complete, Completed, CPTypeOK
    <2> QED  BY <2>1, <2>3, <2>4, StillOnce DEF OnceInv
  <1>7. ASSUME NEW c \in Calls, Abandon(c)
        PROVE  OnceInv'
    <2>1. UNCHANGED <<operation, change>> /\ call[c].pc = "abandon" /\ call[c].pc \in Working
      BY <1>7 DEF Abandon, At, Working
    <2>2. call'[c].pc = "done" /\ \A d \in Calls \ {c} : call'[d] = call[d]
      BY <1>0, <1>7, <2>1, ReplyEffect DEF Abandon, Fails, Codes
    <2>3. Quiet(call[c].key)
      BY <2>1 DEF OnceInv
    <2>4. \A k \in Keys \ {call[c].key} : claim'[k] = claim[k]
      BY <1>0, <1>7 DEF Abandon, CPTypeOK
    <2> QED  BY <2>1, <2>2, <2>3, <2>4, StillOnce DEF OnceInv
  <1>8. CASE CPCrash
    <2>1. UNCHANGED <<operation, claim, change>>
      BY <1>8 DEF CPCrash
    <2>2. \A c \in Calls : call'[c].pc = "done" \/ call'[c] = call[c]
      BY <1>8 DEF CPCrash
    <2> QED  BY <2>1, <2>2, StillOnce DEF OnceInv
  <1>9. CASE UNCHANGED cpVars
    BY <1>9, StillOnce DEF cpVars, OnceInv
  <1> QED  BY <1>1, <1>2, <1>3, <1>4, <1>5, <1>6, <1>7, <1>8, <1>9 DEF CPNext

(* However often a key is repeated, whichever requests overlap and whatever *)
(* fails or crashes between two transactions, the guarded change of a key  *)
(* is committed at most once (create_release apart, whose except clause    *)
(* abandons its record after the commit).                                  *)
THEOREM ChangesOnce == CPSpec => []ChangeAtMostOnce
  <1>1. CPInit => OnceInv
    BY DEF CPInit, OnceInv, Quiet, NoCall
  <1>2. OnceInv => ChangeAtMostOnce
    BY DEF OnceInv, ChangeAtMostOnce
  <1>3. CPInit => CPInv
    BY CPInvInit
  <1>4. CPInv /\ OnceInv /\ [CPNext]_cpVars => CPInv' /\ OnceInv'
    BY CPInvStep, OnceStep
  <1> QED  BY <1>1, <1>2, <1>3, <1>4, PTL DEF CPSpec

-----------------------------------------------------------------------------
(***************************************************************************)
(* The outbox: its columns keep their types, and a settled row is never    *)
(* handed out again.                                                       *)
(***************************************************************************)
RowStatus == {"pending", "publishing"} \cup Settled
Row == [status : RowStatus, attempts : 0..AttemptBound]

\* SetStatus writes one column of the rows it is given and nothing else.
LEMMA SetStatusEffect ==
    ASSUME row \in [Messages -> Row], NEW S \in SUBSET Messages,
           NEW s \in RowStatus, SetStatus(S, s)
    PROVE  /\ row' \in [Messages -> Row]
           /\ \A r \in Messages : r \notin S => row'[r] = row[r]
           /\ \A r \in S : row'[r].status = s
  <1>1. \A r \in Messages : [row[r] EXCEPT !.status = s] \in Row
    <2> TAKE r \in Messages
    <2>1. row[r] \in Row
      OBVIOUS
    <2> QED  BY <2>1 DEF Row
  <1>2. \A r \in Messages : [row[r] EXCEPT !.status = s].status = s
    <2> TAKE r \in Messages
    <2>1. row[r] \in Row
      OBVIOUS
    <2> QED  BY <2>1 DEF Row
  <1> QED  BY <1>1, <1>2 DEF SetStatus

\* What a single step of an operation does to the rows: a row that changes
\* was waiting or being published, unless a dead-letter sweep had selected it.
LEMMA LeaseStep ==
    ASSUME OBTypeOK, NEW p \in Publishers, LeasePending(p)
    PROVE  OBTypeOK' /\ \A r \in Messages : Status(r) \in Settled => row'[r] = row[r]
  <1>1. PICK S \in SUBSET {r \in Messages : Status(r) \in {"pending", "publishing"}} :
          /\ \A r \in S : row[r].attempts < AttemptBound
          /\ row' = [r \in Messages |->
                IF r \in S
                THEN [status |-> "publishing", attempts |-> row[r].attempts + 1]
                ELSE row[r]]
          /\ held' = [held EXCEPT ![p] = @ \cup S]
          /\ UNCHANGED swept
    BY DEF LeasePending
  <1>2. \A r \in S : [status |-> "publishing", attempts |-> row[r].attempts + 1] \in Row
    <2> TAKE r \in S
    <2>1. row[r].attempts \in 0..AttemptBound /\ row[r].attempts < AttemptBound
      BY <1>1 DEF OBTypeOK
    <2>2. row[r].attempts + 1 \in 0..AttemptBound
      BY <2>1, OutboxAssumption
    <2> QED  BY <2>2 DEF Row, RowStatus
  <1>3. row' \in [Messages -> Row]
    BY <1>1, <1>2 DEF OBTypeOK, Row, RowStatus
  <1>4. held' \in [Publishers -> SUBSET Messages]
    BY <1>1 DEF OBTypeOK
  <1>5. ASSUME NEW r \in Messages, Status(r) \in Settled
        PROVE  row'[r] = row[r]
    <2>1. r \notin S
      BY <1>5 DEF Settled
    <2> QED  BY <2>1, <1>1
  <1> QED  BY <1>1, <1>3, <1>4, <1>5 DEF OBTypeOK, Row, RowStatus

LEMMA SettleStep ==
    ASSUME OBTypeOK, NEW p \in Publishers, NEW m \in Messages,
           MarkPublished(p, m) \/ Retry(p, m)
    PROVE  OBTypeOK' /\ \A r \in Messages : Status(r) \in Settled => row'[r] = row[r]
  <1>0. row \in [Messages -> Row]
    BY DEF OBTypeOK, Row, RowStatus
  <1>1. \/ Status(m) = "publishing" /\ \E s \in {"published", "pending"} : SetStatus({m}, s)
        \/ UNCHANGED row
    BY DEF MarkPublished, Retry
  <1>2. row' \in [Messages -> Row] /\ \A r \in Messages : Status(r) \in Settled => row'[r] = row[r]
    <2>1. CASE UNCHANGED row
      BY <2>1, <1>0
    <2>2. ASSUME Status(m) = "publishing", NEW s \in {"published", "pending"},
                 SetStatus({m}, s)
          PROVE  row' \in [Messages -> Row]
                 /\ \A r \in Messages : Status(r) \in Settled => row'[r] = row[r]
      <3>1. s \in RowStatus /\ {m} \in SUBSET Messages
        BY DEF RowStatus, Settled
      <3>2. row' \in [Messages -> Row] /\ \A r \in Messages : r \notin {m} => row'[r] = row[r]
        BY <3>1, <2>2, <1>0, SetStatusEffect
      <3>3. \A r \in Messages : Status(r) \in Settled => r \notin {m}
        BY <2>2 DEF Settled
      <3> QED  BY <3>2, <3>3
    <2> QED  BY <1>1, <2>1, <2>2
  <1>3. held' \in [Publishers -> SUBSET Messages] /\ UNCHANGED swept
    BY DEF OBTypeOK, MarkPublished, Retry
  <1> QED  BY <1>2, <1>3 DEF OBTypeOK, Row, RowStatus

LEMMA SweepStep ==
    ASSUME OBTypeOK,
           DeadLetterSelect \/ DeadLetterUpdate \/ \E p \in Publishers : PublisherDies(p)
    PROVE  OBTypeOK' /\ \A r \in Messages : row'[r] = row[r] \/ row'[r].status = "dead_letter"
  <1>1. CASE DeadLetterSelect
    BY <1>1 DEF DeadLetterSelect, OBTypeOK
  <1>2. CASE DeadLetterUpdate
    <2>1. row \in [Messages -> Row] /\ swept \in SUBSET Messages /\ "dead_letter" \in RowStatus
      BY DEF OBTypeOK, Row, RowStatus, Settled
    <2>2. /\ row' \in [Messages -> Row]
          /\ \A r \in Messages : r \notin swept => row'[r] = row[r]
          /\ \A r \in swept : row'[r].status = "dead_letter"
      BY <2>1, <1>2, SetStatusEffect DEF DeadLetterUpdate
    <2> QED  BY <2>2, <1>2 DEF DeadLetterUpdate, OBTypeOK, Row, RowStatus
  <1>3. ASSUME NEW p \in Publishers, PublisherDies(p)
        PROVE  OBTypeOK' /\ row' = row
    BY <1>3 DEF PublisherDies, OBTypeOK
  <1> QED  BY <1>1, <1>2, <1>3

LEMMA OutboxStep ==
    ASSUME OBTypeOK, [OBNext]_obVars
    PROVE  OBTypeOK' /\ \A r \in Messages :
                            Status(r) \in Settled => row'[r].status \in Settled
  <1>1. CASE UNCHANGED obVars
    BY <1>1 DEF obVars, OBTypeOK, Status
  <1>2. ASSUME NEW p \in Publishers, LeasePending(p)
        PROVE  OBTypeOK' /\ \A r \in Messages : Status(r) \in Settled => row'[r] = row[r]
    BY <1>2, LeaseStep
  <1>3. ASSUME NEW p \in Publishers, NEW m \in Messages, MarkPublished(p, m) \/ Retry(p, m)
        PROVE  OBTypeOK' /\ \A r \in Messages : Status(r) \in Settled => row'[r] = row[r]
    BY <1>3, SettleStep
  <1>4. CASE DeadLetterSelect \/ DeadLetterUpdate \/ \E p \in Publishers : PublisherDies(p)
    <2>1. OBTypeOK' /\ \A r \in Messages : row'[r] = row[r] \/ row'[r].status = "dead_letter"
      BY <1>4, SweepStep
    <2> QED  BY <2>1 DEF Settled, Status
  <1>5. \/ UNCHANGED obVars
        \/ \E p \in Publishers : LeasePending(p)
        \/ \E p \in Publishers, m \in Messages : MarkPublished(p, m) \/ Retry(p, m)
        \/ DeadLetterSelect \/ DeadLetterUpdate \/ \E p \in Publishers : PublisherDies(p)
    BY DEF OBNext
  <1> QED  BY <1>1, <1>2, <1>3, <1>4, <1>5 DEF Status

\* The outbox columns and the remembered leases are typed in every reachable
\* state, for any number of rows, publishers and leases (repositories/outbox.py).
THEOREM OutboxTypes == OBSpec => []OBTypeOK
  <1>1. OBInit => OBTypeOK
    BY OutboxAssumption DEF OBInit, OBTypeOK
  <1>2. OBTypeOK /\ [OBNext]_obVars => OBTypeOK'
    BY OutboxStep
  <1> QED  BY <1>1, <1>2, PTL DEF OBSpec

\* However many publishers hold a row at once, a published or quarantined row
\* never waits for delivery again (mark_published, retry, dead_letter).
THEOREM SettledForGood == OBSpec => NeverRequeued
  <1>1. OBTypeOK /\ [OBNext]_obVars =>
          [\A r \in Messages : Status(r) \in Settled => row'[r].status \in Settled]_obVars
    BY OutboxStep
  <1> QED  BY <1>1, OutboxTypes, PTL DEF OBSpec, NeverRequeued

-----------------------------------------------------------------------------
(***************************************************************************)
(* An evaluation's report.  Every place a report can come from holds an    *)
(* honest one: the file, the task, the harness and the cancel requests.    *)
(***************************************************************************)
ReportStates ==
    {"absent", "queued", "torn", "failed", "cancelled", "incomplete", "completed"}
Verdicts == {"none", "pass", "fail", "judge_error"}
Attempt == [track : Tracks, error : {"none", "runtime"}, hard : BOOLEAN,
            judge : Verdicts, self : BOOLEAN]
ReportRow == [status : ReportStates, gate : BOOLEAN, rows : Seq(Attempt)]

\* What an attempt's row can be trusted for.
Sincere(r) == (r.hard => r.error = "none") /\ (r.judge # "none" => JudgeAvailable)

\* What an open gate says of a report: the run property, for any report.
GateEarned(rep) ==
    rep.gate =>
      /\ setup.mode = "release" /\ ~setup.approval
      /\ \A i \in DOMAIN rep.rows :
           LET r == rep.rows[i]
           IN  /\ r.error = "none" /\ r.hard
               /\ r.track # "intent_route" =>
                    r.judge \in {"pass", "fail"} /\ setup.profile = "own"
               /\ r.track \in Sensitive => setup.labels = "passing"
Honest(rep) ==
    /\ rep \in ReportRow
    /\ rep.status = "completed" => Len(rep.rows) = Total
    /\ GateEarned(rep)

Task == [pc : {"none", "start", "communicate", "read", "write", "except", "done",
               "raised"},
         report : ReportRow]
Subprocess ==
    [pc : {"none", "start", "case", "finish", "write", "print",
           "exited", "failed", "killed"},
     rows : Seq(Attempt), cancelled : BOOLEAN, db : BOOLEAN, report : ReportRow]
CancelRow == [pc : {"idle", "kill", "write", "done"}, payload : ReportRow]

EJTypeOK ==
    /\ setup \in AllSetups
    /\ job \in Task
    /\ harness \in Subprocess
    /\ cancel \in [Cancellers -> CancelRow]
RowsSincere ==
    /\ Len(harness.rows) <= Total
    /\ \A i \in DOMAIN harness.rows : Sincere(harness.rows[i])
EJInv ==
    /\ EJTypeOK /\ RowsSincere
    /\ Honest(file) /\ Honest(job.report) /\ Honest(harness.report)
    /\ \A x \in Cancellers : Honest(cancel[x].payload)

\* The case an attempt belongs to is one of the dataset's.
LEMMA TrackKnown ==
    ASSUME NEW n \in 1..Total
    PROVE  TrackOf(n) \in Tracks
  <1> DEFINE R == Repetitions
             L == Len(Cases)
             q == (n - 1) \div R
  <1>1. R \in Nat /\ R > 0 /\ L \in Nat /\ n \in Nat /\ n - 1 \in Nat /\ n - 1 < L * R
    BY EvaluationAssumption DEF Total
  <1>2. q \in Nat /\ R * q <= n - 1
    <2> HIDE DEF L
    <2> QED BY <1>1
  <1>3. q < L
    <2> HIDE DEF q, L, R
    <2> SUFFICES ASSUME q >= L PROVE FALSE
      BY <1>1, <1>2
    <2>1. R * q >= R * L
      BY <1>1, <1>2
    <2> QED  BY <2>1, <1>1, <1>2
  <1>4. q + 1 \in 1..Len(Cases)
    <2> HIDE DEF q
    <2> QED BY <1>1, <1>2, <1>3
  <1> QED  BY <1>4, EvaluationAssumption DEF TrackOf

\* An attempt that timed out or raised meets the gate of no track.
LEMMA EmptyTraceFails ==
    ASSUME NEW t \in Tracks
    PROVE  ~HardEval(t, EmptyTrace)
  BY DEF HardEval, EmptyTrace, Required, Tracks, Gates

\* Reports without rows and with a closed gate are honest unless they claim
\* completion; a report stays honest when it is marked as anything less.
LEMMA BareReports ==
    ASSUME NEW s \in ReportStates \ {"completed"}
    PROVE  Honest(Report(s, FALSE, <<>>))
  BY DEF Honest, ReportRow, GateEarned, Report, ReportStates

\* A write that fails leaves what was there or a file nobody can parse.
LEMMA FailingWrites ==
    ASSUME WriteFails, setup' = setup, Honest(file)
    PROVE  Honest(file)' /\ Honest(file')
  <1>1. Honest(Torn)
    BY BareReports DEF Torn, ReportStates
  <1> QED  BY <1>1 DEF WriteFails, Honest, GateEarned

LEMMA Remarked ==
    ASSUME NEW rep, Honest(rep), NEW s \in ReportStates \ {"completed"}
    PROVE  Honest([rep EXCEPT !.status = s])
  BY DEF Honest, ReportRow, GateEarned, ReportStates

\* A report speaks of the request and the deployment, which never change.
LEMMA SameSetup ==
    ASSUME setup' = setup
    PROVE  \A rep : Honest(rep) => Honest(rep)'
  BY DEF Honest, GateEarned

\* build_report and main() over sincere rows make an honest report.
LEMMA BuiltReportHonest ==
    ASSUME setup \in AllSetups, NEW rows \in Seq(Attempt), NEW cancelled \in BOOLEAN,
           \A i \in DOMAIN rows : Sincere(rows[i]),
           ~cancelled => Len(rows) = Total
    PROVE  Honest(Finalised(BuildReport(rows, cancelled)))
  <1> DEFINE S == Range(rows)
             b == BuildReport(rows, cancelled)
  <1>1. \A i \in DOMAIN rows : rows[i] \in Attempt /\ rows[i] \in S
    BY DEF Range
  <1>2. b.status \in {"cancelled", "incomplete", "completed"}
        /\ b.gate \in BOOLEAN /\ b.rows = rows /\ b \in ReportRow
    BY DEF BuildReport, Report, ReportStatus, ReleaseGate, ReportRow, ReportStates
  <1>3. b.status = "completed" => Len(rows) = Total
    BY DEF BuildReport, Report, ReportStatus
  <1>4. ASSUME b.gate, NEW i \in DOMAIN rows
        PROVE  /\ setup.mode = "release" /\ rows[i].error = "none" /\ rows[i].hard
               /\ rows[i].track # "intent_route" =>
                    rows[i].judge \in {"pass", "fail"} /\ setup.profile = "own"
               /\ rows[i].track \in Sensitive => setup.labels = "passing"
    <2>1. ReleaseGate(S)
      BY <1>4 DEF BuildReport, Report
    <2>2. rows[i] \in Attempt /\ rows[i] \in S /\ Sincere(rows[i])
      BY <1>1
    <2>3. rows[i].hard /\ rows[i].error = "none"
      BY <2>1, <2>2 DEF ReleaseGate, Sincere
    <2>4. ASSUME rows[i].track # "intent_route"
          PROVE  rows[i].judge \in {"pass", "fail"} /\ setup.profile = "own"
      <3>1. ~Unjudged(rows[i])
        BY <2>1, <2>2, <2>4 DEF ReleaseGate, JudgeIncomplete
      <3>2. rows[i].judge \in {"pass", "fail"}
        BY <3>1, <2>2 DEF Unjudged, Attempt, Verdicts
      <3>3. JudgeAvailable /\ setup.mode = "release"
        BY <3>2, <2>1, <2>2 DEF Sincere, ReleaseGate
      <3> QED  BY <3>2, <3>3 DEF JudgeAvailable
    <2>5. rows[i].track \in Sensitive => setup.labels = "passing"
      BY <2>1, <2>2 DEF ReleaseGate, NeedsReview
    <2> QED  BY <2>1, <2>3, <2>4, <2>5 DEF ReleaseGate
  <1>5. b.gate => setup.mode = "release"
    BY DEF BuildReport, Report, ReleaseGate
  <1> DEFINE j == IF setup.judge = "on" /\ ~JudgeAvailable
                  THEN [b EXCEPT !.status = "incomplete"] ELSE b
  <1>6. /\ j \in ReportRow /\ j.rows = rows /\ j.gate = b.gate
        /\ j.status = "completed" => Len(rows) = Total
    <2> HIDE DEF b
    <2> QED  BY <1>2, <1>3 DEF ReportRow, ReportStates
  <1>7. Finalised(b) = IF ~setup.approval THEN j
          ELSE Report(IF j.status = "cancelled" THEN "cancelled" ELSE "incomplete",
                      FALSE, j.rows)
    BY DEF Finalised
  <1> HIDE DEF b, j, S
  <1>8. CASE ~setup.approval
    <2>1. Finalised(b) = j
      BY <1>8, <1>7
    <2>2. Honest(j)
      BY <1>4, <1>5, <1>6, <1>8 DEF Honest, GateEarned
    <2> QED  BY <2>1, <2>2 DEF b
  <1>9. CASE setup.approval
    <2>1. PICK s \in {"cancelled", "incomplete"} : Finalised(b) = Report(s, FALSE, rows)
      BY <1>9, <1>7, <1>6
    <2>2. Honest(Report(s, FALSE, rows))
      BY DEF Honest, GateEarned, Report, ReportRow, ReportStates
    <2> QED  BY <2>1, <2>2 DEF b
  <1> QED  BY <1>8, <1>9

\* The row an attempt adds is sincere: an empty trace never passes its gate,
\* and only a configured judge gives a verdict.
LEMMA AttemptSincere ==
    ASSUME NEW t \in Tracks, NEW driven \in RunCase(t), NEW verdict \in JudgeVerdicts(t)
    PROVE  LET r == [track |-> t, error |-> driven.error, hard |-> driven.hard,
                     judge |-> verdict, self |-> SelfJudged /\ verdict # "none"]
           IN  r \in Attempt /\ Sincere(r)
  <1>1. driven.error \in {"none", "runtime"} /\ driven.hard \in BOOLEAN
        /\ (driven.hard => driven.error = "none")
    <2>1. CASE driven \in {[error |-> "none", hard |-> HardEval(t, Checks \ missing)] :
                  missing \in {{}} \cup {{x} : x \in Required(t)}}
      <3>1. PICK missing : driven = [error |-> "none", hard |-> HardEval(t, Checks \ missing)]
        BY <2>1
      <3>2. HardEval(t, Checks \ missing) \in BOOLEAN
        BY DEF HardEval
      <3> QED  BY <3>1, <3>2
    <2>2. CASE driven = [error |-> "runtime", hard |-> HardEval(t, EmptyTrace)]
      <3>1. HardEval(t, EmptyTrace) = FALSE
        BY EmptyTraceFails DEF HardEval
      <3> QED  BY <2>2, <3>1
    <2> QED  BY <2>1, <2>2 DEF RunCase
  <1>2. verdict \in Verdicts /\ (verdict # "none" => JudgeAvailable)
    BY DEF JudgeVerdicts, Verdicts
  <1> QED  BY <1>1, <1>2 DEF Attempt, Sincere, SelfJudged, JudgeAvailable

-----------------------------------------------------------------------------
\* What stays honest when a step leaves the request and the sources alone.
LEMMA Carried ==
    ASSUME EJInv, setup' = setup
    PROVE  /\ Honest(file)' \/ file' # file
           /\ job'.report = job.report => Honest(job.report)'
           /\ harness'.report = harness.report => Honest(harness.report)'
           /\ \A x \in Cancellers :
                cancel'[x].payload = cancel[x].payload => Honest(cancel[x].payload)'
  BY DEF EJInv, Honest, GateEarned

LEMMA SincereStays ==
    ASSUME setup' = setup, NEW r, Sincere(r)
    PROVE  Sincere(r)'
  BY DEF Sincere, JudgeAvailable

LEMMA RowsStay ==
    ASSUME EJInv, setup' = setup, harness'.rows = harness.rows
    PROVE  RowsSincere'
  BY DEF EJInv, RowsSincere, Sincere, JudgeAvailable

\* A step that moves program counters only.
LEMMA KillStep ==
    ASSUME EJInv, setup' = setup, Kill
    PROVE  /\ harness' \in Subprocess
           /\ RowsSincere' /\ Honest(harness.report)'
           /\ Honest(file)' /\ Honest(file')
  <1>0. Honest(file)' /\ Honest(file')
    <2>1. CASE WriteFails
      BY <2>1, FailingWrites DEF EJInv
    <2>2. CASE file' = file
      BY <2>2, SameSetup DEF EJInv
    <2> QED  BY <2>1, <2>2 DEF Kill
  <1>1. Honest(NoReport)'
    <2>1. Honest(NoReport)
      BY BareReports DEF NoReport, ReportStates
    <2> QED  BY <2>1, SameSetup
  <1>2. /\ harness'.pc = "killed" /\ harness'.rows = harness.rows
        /\ harness'.cancelled = harness.cancelled /\ harness'.db = harness.db
        /\ harness'.report \in {harness.report, NoReport}
    BY DEF Kill, EJInv, EJTypeOK, Subprocess
  <1>3. NoReport \in ReportRow
    BY DEF NoReport, Report, ReportRow, ReportStates
  <1>4. harness' \in Subprocess
    BY <1>3 DEF Kill, EJInv, EJTypeOK, Subprocess
  <1>5. RowsSincere'
    BY <1>2, RowsStay
  <1> QED  BY <1>0, <1>1, <1>2, <1>4, <1>5, Carried

LEMMA JobKeeps ==
    ASSUME EJInv, CreateEvaluation \/ JobStep
    PROVE  EJInv'
  <1>0. setup' = setup /\ cancel' = cancel
    BY DEF CreateEvaluation, JobStep, Spawn, Communicate, TimeoutKill, ReadBack, WriteBack
  <1>1. \A x \in Cancellers : Honest(cancel[x].payload)'
    BY <1>0, Carried
  <1>2. Honest(Failed)' /\ Honest(Report("queued", FALSE, <<>>))'
    <2>1. Honest(Failed) /\ Honest(Report("queued", FALSE, <<>>))
      BY BareReports DEF Failed, ReportStates
    <2> QED  BY <2>1, <1>0, SameSetup
  <1>n. Honest(NoReport)' /\ NoReport \in ReportRow
    <2>1. Honest(NoReport)
      BY BareReports DEF NoReport, ReportStates
    <2> QED  BY <2>1, <1>0, SameSetup DEF Honest
  <1>3. /\ Honest(file)' /\ Honest(job.report)'
        /\ job' \in Task
    <2>0. Failed \in ReportRow /\ job \in Task /\ harness \in Subprocess
          /\ Honest(file) /\ Honest(job.report) /\ Honest(harness.report)
      BY DEF EJInv, EJTypeOK, Failed, Report, ReportRow, ReportStates
    <2>1. CASE CreateEvaluation
      BY <2>0, <2>1, <1>0, <1>2, SameSetup DEF CreateEvaluation, Task
    <2>2. CASE Spawn
      BY <2>0, <2>2, <1>0, <1>2, SameSetup DEF Spawn, Task
    <2>3. CASE Communicate
      <3> DEFINE cut == [harness.report EXCEPT !.status = "failed"]
      <3>1. Honest(cut) /\ cut \in ReportRow
        BY <2>0, Remarked DEF ReportStates, Honest
      <3>2. harness.report \in ReportRow /\ file' = file
        BY <2>0, <2>3 DEF Subprocess, Communicate
      <3>3. PICK at \in {"read", "except"}, rep \in {harness.report, Failed, cut} :
              job' = [pc |-> at, report |-> rep]
        BY <2>3 DEF Communicate
      <3>4. Honest(rep) /\ rep \in ReportRow
        BY <2>0, <3>1, <3>2, <3>3, BareReports DEF Failed, ReportStates
      <3> QED  BY <2>0, <3>2, <3>3, <3>4, <1>0, SameSetup DEF Task
    <2>4. CASE TimeoutKill
      BY <2>0, <2>4, <1>0, <1>2, KillStep DEF TimeoutKill, Task
    <2>5. CASE ReadBack
      BY <2>0, <2>5, <1>0, <1>2, <1>n, SameSetup DEF ReadBack, Task
    <2>6. CASE WriteBack
      <3>1. job' \in Task /\ Honest(job.report)'
        BY <2>0, <2>6, <1>0, <1>2, <1>n, SameSetup DEF WriteBack, Task
      <3>2. CASE file' = job.report
        BY <3>1, <3>2, <2>0, <1>0, SameSetup
      <3>3. CASE WriteFails
        BY <3>1, <3>3, <2>0, <1>0, FailingWrites
      <3> QED  BY <2>6, <3>2, <3>3 DEF WriteBack
    <2> QED  BY <2>1, <2>2, <2>3, <2>4, <2>5, <2>6 DEF JobStep
  <1>4. /\ harness' \in Subprocess
        /\ RowsSincere' /\ Honest(harness.report)'
    <2>1. CASE TimeoutKill
      BY <2>1, <1>0, KillStep DEF TimeoutKill
    <2>2. CASE harness' = harness
      BY <2>2, <1>0, Carried, RowsStay DEF EJInv, EJTypeOK
    <2>3. CASE HGoto("start")
      BY <2>3, <1>0, Carried, RowsStay DEF HGoto, EJInv, EJTypeOK, Subprocess
    <2> QED  BY <2>1, <2>2, <2>3 DEF CreateEvaluation, JobStep, Spawn, Communicate,
                                     ReadBack, WriteBack
  <1> QED  BY <1>0, <1>1, <1>3, <1>4 DEF EJInv, EJTypeOK

\* The harness: what a step does to its own record, and that a report it
\* builds or writes is honest.
LEMMA RunAttemptKeeps ==
    ASSUME EJInv, RunAttempt
    PROVE  EJInv'
  <1> DEFINE n == Len(harness.rows)
  <1>a. /\ setup' = setup /\ file' = file /\ job' = job /\ cancel' = cancel
        /\ n < Total
    BY Zenon DEF RunAttempt
  <1>0. /\ setup' = setup /\ file' = file /\ job' = job /\ cancel' = cancel
        /\ harness \in Subprocess /\ harness.rows \in Seq(Attempt)
        /\ n \in Nat /\ n < Total /\ Total \in Nat
    BY <1>a, EvaluationAssumption DEF EJInv, EJTypeOK, Subprocess, Total
  <1>f. CASE HGoto("failed")
    <2>1. harness' \in Subprocess /\ harness'.rows = harness.rows
          /\ harness'.report = harness.report
      BY <1>0, <1>f DEF HGoto, Subprocess
    <2>2. RowsSincere'
      BY <1>0, <2>1, RowsStay
    <2>3. /\ Honest(file)' /\ Honest(job.report)' /\ Honest(harness.report)'
          /\ \A x \in Cancellers : Honest(cancel[x].payload)'
      BY <1>0, <2>1, SameSetup DEF EJInv
    <2> QED  BY <1>0, <2>1, <2>2, <2>3 DEF EJInv, EJTypeOK
  <1> SUFFICES ASSUME ~HGoto("failed") PROVE EJInv'
    BY <1>f
  <1>p. PICK t \in {TrackOf(n + 1)} :
          \E driven \in RunCase(t), verdict \in JudgeVerdicts(t), db \in Persisted :
            harness' = [harness EXCEPT
              !.rows = Append(harness.rows,
                         [track |-> t, error |-> driven.error, hard |-> driven.hard,
                          judge |-> verdict, self |-> SelfJudged /\ verdict # "none"]),
              !.db = db]
    BY Zenon DEF RunAttempt
  <1>1. t \in Tracks
    <2>1. n + 1 \in 1..Total
      BY <1>0
    <2> QED  BY <1>p, <2>1, TrackKnown
  <1>2. PICK driven \in RunCase(t), verdict \in JudgeVerdicts(t), db \in Persisted :
          harness' = [harness EXCEPT
            !.rows = Append(harness.rows,
                       [track |-> t, error |-> driven.error, hard |-> driven.hard,
                        judge |-> verdict, self |-> SelfJudged /\ verdict # "none"]),
            !.db = db]
    BY <1>p, Zenon
  <1> DEFINE r == [track |-> t, error |-> driven.error, hard |-> driven.hard,
                   judge |-> verdict, self |-> SelfJudged /\ verdict # "none"]
             rows == Append(harness.rows, r)
  <1>3. r \in Attempt /\ Sincere(r)
    BY <1>1, AttemptSincere
  <1>4. db \in BOOLEAN
    BY <1>0 DEF Persisted, Subprocess
  <1>5. harness' = [harness EXCEPT !.rows = rows, !.db = db]
    BY <1>2
  <1> HIDE DEF r
  <1>6. /\ rows \in Seq(Attempt) /\ Len(rows) = n + 1
        /\ \A i \in DOMAIN rows : rows[i] = IF i = n + 1 THEN r ELSE harness.rows[i]
        /\ \A i \in DOMAIN rows : i # n + 1 => i \in DOMAIN harness.rows
    BY <1>0, <1>3
  <1> HIDE DEF rows
  <1>7. harness' \in Subprocess /\ harness'.rows = rows /\ harness'.report = harness.report
    BY <1>0, <1>4, <1>5, <1>6 DEF Subprocess
  <1>8. RowsSincere'
    <2>1. \A i \in DOMAIN rows : Sincere(rows[i])
      BY <1>3, <1>6 DEF EJInv, RowsSincere
    <2> QED  BY <2>1, <1>0, <1>6, <1>7 DEF RowsSincere, Sincere, JudgeAvailable, Total
  <1>9. /\ Honest(file)' /\ Honest(job.report)' /\ Honest(harness.report)'
        /\ \A x \in Cancellers : Honest(cancel[x].payload)'
    BY <1>0, <1>7, SameSetup DEF EJInv
  <1> QED  BY <1>0, <1>7, <1>8, <1>9 DEF EJInv, EJTypeOK

LEMMA EndLoopKeeps ==
    ASSUME EJInv, EndLoop
    PROVE  EJInv'
  <1> DEFINE rep == Finalised(BuildReport(harness.rows, harness.cancelled))
  <1>0. /\ setup' = setup /\ file' = file /\ job' = job /\ cancel' = cancel
        /\ setup \in AllSetups /\ harness \in Subprocess
        /\ harness.cancelled \/ Len(harness.rows) = Total
        /\ harness' = [harness EXCEPT !.pc = "finish", !.report = rep]
    BY DEF EndLoop, EJInv, EJTypeOK
  <1>1. Honest(rep)
    <2>1. harness.rows \in Seq(Attempt) /\ harness.cancelled \in BOOLEAN
      BY <1>0 DEF Subprocess
    <2>2. \A i \in DOMAIN harness.rows : Sincere(harness.rows[i])
      BY DEF EJInv, RowsSincere
    <2> QED  BY <1>0, <2>1, <2>2, BuiltReportHonest
  <1> HIDE DEF rep
  <1>2. rep \in ReportRow
    BY <1>1 DEF Honest
  <1>3. harness' \in Subprocess /\ harness'.rows = harness.rows /\ harness'.report = rep
    BY <1>0, <1>2 DEF Subprocess
  <1>4. RowsSincere'
    BY <1>0, <1>3, RowsStay
  <1>5. /\ Honest(file)' /\ Honest(job.report)' /\ Honest(harness.report)'
        /\ \A x \in Cancellers : Honest(cancel[x].payload)'
    BY <1>0, <1>1, <1>3, SameSetup DEF EJInv
  <1> QED  BY <1>0, <1>3, <1>4, <1>5 DEF EJInv, EJTypeOK

LEMMA HarnessKeeps ==
    ASSUME EJInv, HarnessStart \/ FinishRun \/ WriteReport \/ PrintReport \/ Interrupt
    PROVE  EJInv'
  <1>0. /\ setup' = setup /\ job' = job /\ cancel' = cancel /\ harness \in Subprocess
        /\ file' = file \/ file' = harness.report \/ WriteFails
    BY DEF HarnessStart, FinishRun, WriteReport, PrintReport, Interrupt, EJInv, EJTypeOK
  <1>1. /\ harness' \in Subprocess /\ harness'.rows = harness.rows
        /\ harness'.report = harness.report
    <2>1. CASE HarnessStart
      BY <2>1, <1>0 DEF HarnessStart, HGoto, Subprocess
    <2>2. CASE FinishRun \/ WriteReport \/ PrintReport
      BY <2>2, <1>0 DEF FinishRun, WriteReport, PrintReport, HGoto, Subprocess
    <2>3. CASE Interrupt
      BY <2>3, <1>0 DEF Interrupt, Subprocess
    <2> QED  BY <2>1, <2>2, <2>3
  <1>2. RowsSincere'
    BY <1>0, <1>1, RowsStay
  <1>3. /\ Honest(file)' /\ Honest(job.report)' /\ Honest(harness.report)'
        /\ \A x \in Cancellers : Honest(cancel[x].payload)'
    BY <1>0, <1>1, SameSetup, FailingWrites DEF EJInv
  <1> QED  BY <1>0, <1>1, <1>2, <1>3 DEF EJInv, EJTypeOK

\* A cancel request writes back what it read, however stale, as cancelled.
LEMMA CancelKeeps ==
    ASSUME EJInv, NEW x \in Cancellers, CancelRead(x) \/ CancelKill(x) \/ CancelWrite(x)
    PROVE  EJInv'
  <1>0. /\ setup' = setup /\ job' = job /\ job \in Task /\ setup \in AllSetups
        /\ cancel \in [Cancellers -> CancelRow]
        /\ Honest(file) /\ Honest(job.report) /\ Honest(harness.report)
        /\ \A y \in Cancellers : Honest(cancel[y].payload)
    BY DEF CancelRead, CancelKill, CancelWrite, EJInv, EJTypeOK
  <1>1. Honest(NoReport) /\ NoReport \in ReportRow
    BY BareReports DEF NoReport, ReportStates, Honest
  <1>2. PICK c \in CancelRow : cancel' = [cancel EXCEPT ![x] = c] /\ Honest(c.payload)
    <2>1. CASE CancelRead(x)
      <3>1. file \in ReportRow
        BY <1>0 DEF Honest
      <3>2. PICK at \in {"done", "kill"}, rep \in {NoReport, file} :
              cancel' = [cancel EXCEPT ![x] = [pc |-> at, payload |-> rep]]
        BY <2>1 DEF CancelRead
      <3>3. [pc |-> at, payload |-> rep] \in CancelRow /\ Honest(rep)
        BY <3>1, <3>2, <1>0, <1>1 DEF CancelRow
      <3> QED  BY <3>2, <3>3
    <2>2. CASE CancelKill(x)
      <3> DEFINE c == [cancel[x] EXCEPT !.pc = "write"]
      <3>1. c \in CancelRow /\ c.payload = cancel[x].payload
        BY <1>0 DEF CancelRow
      <3>2. cancel' = [cancel EXCEPT ![x] = c]
        BY <2>2 DEF CancelKill
      <3> QED  BY <3>1, <3>2, <1>0
    <2>3. CASE CancelWrite(x)
      <3>1. [pc |-> "done", payload |-> NoReport] \in CancelRow
        BY <1>1 DEF CancelRow
      <3> QED  BY <2>3, <3>1, <1>1 DEF CancelWrite
    <2> QED  BY <2>1, <2>2, <2>3
  <1>3. /\ cancel' \in [Cancellers -> CancelRow]
        /\ \A y \in Cancellers : Honest(cancel'[y].payload)
    BY <1>0, <1>2
  <1>4. Honest(file')
    <2>1. CASE CancelWrite(x)
      BY <2>1, <1>0, Remarked, FailingWrites DEF CancelWrite, ReportStates
    <2>2. CASE file' = file
      BY <2>2, <1>0
    <2>3. CASE Kill
      BY <2>3, <1>0, KillStep
    <2> QED  BY <2>1, <2>2, <2>3 DEF CancelRead, CancelKill
  <1>5. harness' \in Subprocess /\ RowsSincere' /\ Honest(harness.report)'
    <2>1. CASE Kill
      BY <2>1, <1>0, KillStep
    <2>2. CASE harness' = harness
      BY <2>2, <1>0, SameSetup, RowsStay DEF EJInv, EJTypeOK
    <2> QED  BY <2>1, <2>2 DEF CancelRead, CancelKill, CancelWrite
  <1>6. /\ Honest(file)' /\ Honest(job.report)'
        /\ \A y \in Cancellers : Honest(cancel[y].payload)'
    BY <1>0, <1>3, <1>4, SameSetup
  <1> QED  BY <1>0, <1>3, <1>5, <1>6 DEF EJInv, EJTypeOK

LEMMA EJInvStep ==
    ASSUME EJInv, [EJNext]_ejVars
    PROVE  EJInv'
  <1>1. CASE CreateEvaluation \/ JobStep
    BY <1>1, JobKeeps
  <1>2. CASE RunAttempt
    BY <1>2, RunAttemptKeeps
  <1>3. CASE EndLoop
    BY <1>3, EndLoopKeeps
  <1>4. CASE HarnessStart \/ FinishRun \/ WriteReport \/ PrintReport \/ Interrupt
    BY <1>4, HarnessKeeps
  <1>5. CASE \E x \in Cancellers : CancelRead(x) \/ CancelKill(x) \/ CancelWrite(x)
    BY <1>5, CancelKeeps
  <1>6. CASE ApiCrash \/ UNCHANGED ejVars
    <2>1. setup' = setup /\ file' = file /\ job' = job /\ harness' = harness
          /\ cancel' = cancel
      BY <1>6 DEF ApiCrash, ejVars
    <2>2. RowsSincere'
      BY <2>1, RowsStay
    <2>3. /\ Honest(file)' /\ Honest(job.report)' /\ Honest(harness.report)'
          /\ \A x \in Cancellers : Honest(cancel[x].payload)'
      BY <2>1, SameSetup DEF EJInv
    <2> QED  BY <2>1, <2>2, <2>3 DEF EJInv, EJTypeOK
  <1> QED  BY <1>1, <1>2, <1>3, <1>4, <1>5, <1>6 DEF EJNext, HarnessStep

LEMMA EJInvInit == EJInit => EJInv
  <1> SUFFICES ASSUME EJInit PROVE EJInv
    OBVIOUS
  <1>1. Honest(NoReport) /\ NoReport \in ReportRow
    BY BareReports DEF NoReport, ReportStates, Honest
  <1>2. setup \in AllSetups
    BY EvaluationAssumption DEF EJInit
  <1>3. job \in Task /\ job.report = NoReport
    BY <1>1 DEF EJInit, Task
  <1>4. harness \in Subprocess /\ harness.report = NoReport /\ harness.rows = <<>>
    BY <1>1 DEF EJInit, Subprocess
  <1>5. cancel \in [Cancellers -> CancelRow]
        /\ \A x \in Cancellers : cancel[x].payload = NoReport
    BY <1>1 DEF EJInit, CancelRow
  <1>6. RowsSincere
    <2>1. Total \in Nat
      BY EvaluationAssumption DEF Total
    <2> QED  BY <1>4, <2>1 DEF RowsSincere
  <1> QED  BY <1>1, <1>2, <1>3, <1>4, <1>5, <1>6 DEF EJInv, EJTypeOK, EJInit

\* Whatever the dataset, the number of repetitions and of cancel requests:
\* the report in report.json is honest whoever wrote it last.
THEOREM ReportsAreHonest == EJSpec => []ReportHonest
  <1>1. EJInv => ReportHonest
    BY DEF EJInv, Honest, GateEarned, ReportHonest
  <1> QED  BY <1>1, EJInvInit, EJInvStep, PTL DEF EJSpec

-----------------------------------------------------------------------------
-------------------------------------------------------------------------------
(* The safety boundary.                                                      *)

\* Past the safety check the message in hand is a safe one; UnsafeStaysOut
\* alone is not inductive, for the text leaves in a later step.
SafeInv ==
    /\ pc \in {"classify", "dispatch"} => ~HardBlock(turn)
    /\ UnsafeStaysOut

LEMMA SafeInit == ADInit => SafeInv
  BY DEF ADInit, SafeInv, UnsafeStaysOut, HardBlock, NoMessage, None

LEMMA SafeStep == SafeInv /\ [ADNext]_adVars => SafeInv'
  <1> SUFFICES ASSUME SafeInv, [ADNext]_adVars
               PROVE  SafeInv'
    OBVIOUS
  <1> USE DEF SafeInv, UnsafeStaysOut, HardBlock
  <1>1. ASSUME NEW m \in Texts, Say(m)
        PROVE  SafeInv'
    BY <1>1 DEF Say
  <1>2. CASE Safety
    BY <1>2 DEF Safety, SafetyHandoff, Returns
  <1>3. CASE ClassifyFails
    BY <1>3 DEF ClassifyFails, Returns
  <1>4. ASSUME NEW a \in Answers, NEW canary \in BOOLEAN, Classify(a, canary)
        PROVE  SafeInv'
    <2>1. seen' = turn /\ pc = "classify"
      BY <1>4 DEF Classify
    <2>2. pc' = "idle" \/ (pc' = "dispatch" /\ turn' = turn)
      BY <1>4 DEF Classify, Returns
    <2> QED  BY <2>1, <2>2
  <1>5. CASE Converse
    BY <1>5 DEF Converse, Returns
  <1>6. CASE ReadonlyLoop
    BY <1>6 DEF ReadonlyLoop, Returns
  <1>7. CASE PlanMutation
    BY <1>7 DEF PlanMutation, Returns
  <1>8. CASE SubmitLowRisk
    BY <1>8 DEF SubmitLowRisk, Returns
  <1>9. CASE UNCHANGED adVars
    BY <1>9 DEF adVars
  <1> QED
    BY <1>1, <1>2, <1>3, <1>4, <1>5, <1>6, <1>7, <1>8, <1>9 DEF ADNext

\* No unsafe text reaches the classifier, the loop, the planner or a low-risk
\* request, as the first message of a run or as a later answer, for any texts
\* and any number of turns (the executor's SafetyRouter call).
THEOREM SafetyFirst == ADSpec => []UnsafeStaysOut
  <1>1. SafeInv => UnsafeStaysOut
    BY DEF SafeInv
  <1> QED  BY SafeInit, SafeStep, <1>1, PTL DEF ADSpec

-------------------------------------------------------------------------------
(* The confirmation card.                                                    *)

LEMMA PreparedIsSound ==
    ASSUME NEW type \in DOMAIN RequiredSlots, NEW m, Prepare(type, m) = "prepared"
    PROVE  /\ Orders[m.order].owner = Actor
           /\ type \in {"cancel_order", "change_order"} =>
                Orders[m.order].status \notin {"shipped", "delivered"}
           /\ NamesItem(type) => Orders[m.order].item = m.skus[1]
  <1>1. Owned(m) /\ Eligible(type, m.order) /\ ItemOf(type, m) = Orders[m.order].item
    BY DEF Prepare
  <1> QED  BY <1>1 DEF Owned, Eligible, ItemOf

LEMMA MutationTypes ==
    \A w \in DOMAIN MutationType : MutationType[w] \in DOMAIN RequiredSlots
  BY DEF MutationType, RequiredSlots

\* Every card the planner makes is for the actor's own order, in a state the
\* change is allowed in and for the item it holds, for any order book and any
\* text (MutationPlanner.prepare).
THEOREM CardsAreSound == ADSpec => []CardIsSound
  <1>1. ADInit => CardIsSound
    BY DEF ADInit, CardIsSound, NoEffect, None
  <1>2. CardIsSound /\ [ADNext]_adVars => CardIsSound'
    <2> SUFFICES ASSUME CardIsSound, [ADNext]_adVars
                 PROVE  CardIsSound'
      OBVIOUS
    <2>1. CASE UNCHANGED effect
      BY <2>1 DEF CardIsSound
    <2>2. CASE effect'.kind # "preview"
      BY <2>2 DEF CardIsSound
    <2>3. CASE PlanMutation /\ effect' # effect
      <3>1. /\ run.workflow \in DOMAIN MutationType
            /\ Prepare(MutationType[run.workflow], turn) = "prepared"
            /\ effect' = [kind |-> "preview", message |-> turn, workflow |-> run.workflow]
        BY <2>3 DEF PlanMutation, Starts
      <3>2. effect'.message = turn /\ effect'.workflow = run.workflow
        BY <3>1
      <3>3. MutationType[run.workflow] \in DOMAIN RequiredSlots
        BY <3>1, MutationTypes
      <3> QED  BY <3>1, <3>2, <3>3, PreparedIsSound DEF CardIsSound
    <2>4. \/ UNCHANGED effect
          \/ effect'.kind # "preview"
          \/ PlanMutation /\ effect' # effect
      <3>1. CASE \E m \in Texts : Say(m)
        BY <3>1 DEF Say
      <3>2. CASE Safety \/ ClassifyFails
        BY <3>2 DEF Safety, ClassifyFails
      <3>3. CASE \E a \in Answers, canary \in BOOLEAN : Classify(a, canary)
        BY <3>3 DEF Classify
      <3>4. CASE Converse \/ ReadonlyLoop
        BY <3>4 DEF Converse, ReadonlyLoop, Starts
      <3>5. CASE SubmitLowRisk
        BY <3>5 DEF SubmitLowRisk, Starts
      <3>6. CASE UNCHANGED adVars
        BY <3>6 DEF adVars
      <3> QED  BY <3>1, <3>2, <3>3, <3>4, <3>5, <3>6 DEF ADNext
    <2> QED  BY <2>1, <2>2, <2>3, <2>4
  <1> QED  BY <1>1, <1>2, PTL DEF ADSpec

-------------------------------------------------------------------------------
(* The route.                                                                *)

\* A piecewise linear curve stays below 0.80 until its fifth point, so the
\* scores that pass the threshold are these.
LEMMA DomainThreshold ==
    ASSUME NEW x \in 0..100, ConservativeCurve(DomainCurve, x) >= 8000
    PROVE  x >= 87
  <1> SUFFICES ASSUME x <= 86
               PROVE  FALSE
    OBVIOUS
  <1> DEFINE Fits(j) == /\ x <= DomainCurve[j + 1][1]
                        /\ j > 1 => x > DomainCurve[j][1]
             i == Segment(DomainCurve, x)
  <1>1. Len(DomainCurve) = 7
    BY DEF DomainCurve
  <1>2. \E j \in 1..6 : Fits(j)
    BY DEF DomainCurve
  <1>3. i \in 1..6 /\ Fits(i)
    <2>1. i = CHOOSE j \in 1..6 : Fits(j)
      BY <1>1 DEF Segment
    <2> HIDE DEF Fits, i
    <2> QED  BY <1>2, <2>1
  <1>4. ConservativeCurve(DomainCurve, x) =
          DomainCurve[i][2] * 100 + (x - DomainCurve[i][1]) *
            (((DomainCurve[i + 1][2] - DomainCurve[i][2]) * 100)
                \div (DomainCurve[i + 1][1] - DomainCurve[i][1]))
    BY DEF ConservativeCurve
  <1> HIDE DEF i
  <1>5. CASE i = 1
    <2>1. ConservativeCurve(DomainCurve, x) = 0 + (x - 0) * (4000 \div 50) /\ x <= 50
      BY <1>3, <1>4, <1>5 DEF DomainCurve
    <2>2. 4000 \div 50 = 80
      OBVIOUS
    <2> QED  BY <2>1, <2>2
  <1>6. CASE i = 2
    <2>1. ConservativeCurve(DomainCurve, x) = 4000 + (x - 50) * (2000 \div 20) /\ x <= 70
      BY <1>3, <1>4, <1>6 DEF DomainCurve
    <2>2. 2000 \div 20 = 100
      OBVIOUS
    <2> QED  BY <2>1, <2>2
  <1>7. CASE i = 3
    <2>1. ConservativeCurve(DomainCurve, x) = 6000 + (x - 70) * (1200 \div 10) /\ x <= 80
      BY <1>3, <1>4, <1>7 DEF DomainCurve
    <2>2. 1200 \div 10 = 120
      OBVIOUS
    <2> QED  BY <2>1, <2>2
  <1>8. CASE i = 4
    <2>1. ConservativeCurve(DomainCurve, x) = 7200 + (x - 80) * (1200 \div 10)
      BY <1>3, <1>4, <1>8 DEF DomainCurve
    <2>2. 1200 \div 10 = 120
      OBVIOUS
    <2> QED  BY <2>1, <2>2
  <1>9. i \notin {5, 6}
    BY <1>3 DEF DomainCurve
  <1> QED  BY <1>3, <1>5, <1>6, <1>7, <1>8, <1>9

LEMMA RiskThreshold ==
    ASSUME NEW x \in 0..100, ConservativeCurve(RiskCurve, x) >= 8000
    PROVE  x >= 88
  <1> SUFFICES ASSUME x <= 87
               PROVE  FALSE
    OBVIOUS
  <1> DEFINE Fits(j) == /\ x <= RiskCurve[j + 1][1]
                        /\ j > 1 => x > RiskCurve[j][1]
             i == Segment(RiskCurve, x)
  <1>1. Len(RiskCurve) = 7
    BY DEF RiskCurve
  <1>2. \E j \in 1..6 : Fits(j)
    BY DEF RiskCurve
  <1>3. i \in 1..6 /\ Fits(i)
    <2>1. i = CHOOSE j \in 1..6 : Fits(j)
      BY <1>1 DEF Segment
    <2> HIDE DEF Fits, i
    <2> QED  BY <1>2, <2>1
  <1>4. ConservativeCurve(RiskCurve, x) =
          RiskCurve[i][2] * 100 + (x - RiskCurve[i][1]) *
            (((RiskCurve[i + 1][2] - RiskCurve[i][2]) * 100)
                \div (RiskCurve[i + 1][1] - RiskCurve[i][1]))
    BY DEF ConservativeCurve
  <1> HIDE DEF i
  <1>5. CASE i = 1
    <2>1. ConservativeCurve(RiskCurve, x) = 0 + (x - 0) * (3500 \div 50) /\ x <= 50
      BY <1>3, <1>4, <1>5 DEF RiskCurve
    <2>2. 3500 \div 50 = 70
      OBVIOUS
    <2> QED  BY <2>1, <2>2
  <1>6. CASE i = 2
    <2>1. ConservativeCurve(RiskCurve, x) = 3500 + (x - 50) * (2300 \div 20) /\ x <= 70
      BY <1>3, <1>4, <1>6 DEF RiskCurve
    <2>2. 2300 \div 20 = 115
      OBVIOUS
    <2> QED  BY <2>1, <2>2
  <1>7. CASE i = 3
    <2>1. ConservativeCurve(RiskCurve, x) = 5800 + (x - 70) * (1200 \div 10) /\ x <= 80
      BY <1>3, <1>4, <1>7 DEF RiskCurve
    <2>2. 1200 \div 10 = 120
      OBVIOUS
    <2> QED  BY <2>1, <2>2
  <1>8. CASE i = 4
    <2>1. ConservativeCurve(RiskCurve, x) = 7000 + (x - 80) * (1400 \div 10)
      BY <1>3, <1>4, <1>8 DEF RiskCurve
    <2>2. 1400 \div 10 = 140
      OBVIOUS
    <2> QED  BY <2>1, <2>2
  <1>9. i \notin {5, 6}
    BY <1>3 DEF RiskCurve
  <1> QED  BY <1>3, <1>5, <1>6, <1>7, <1>8, <1>9

\* Both curves are integer valued on the hundredths.
LEMMA CurveInt ==
    ASSUME NEW x \in 0..100
    PROVE  /\ ConservativeCurve(DomainCurve, x) \in Int
           /\ ConservativeCurve(RiskCurve, x) \in Int
  <1>1. ASSUME NEW points \in {DomainCurve, RiskCurve}
        PROVE  ConservativeCurve(points, x) \in Int
    <2> DEFINE Fits(j) == x <= points[j + 1][1] /\ (j > 1 => x > points[j][1])
               i == Segment(points, x)
               slope == ((points[i + 1][2] - points[i][2]) * 100)
                            \div (points[i + 1][1] - points[i][1])
    <2>1. Len(points) = 7
      BY <1>1 DEF DomainCurve, RiskCurve
    <2>2. \E j \in 1..6 : Fits(j)
      BY <1>1 DEF DomainCurve, RiskCurve
    <2>3. i \in 1..6
      <3>1. i = CHOOSE j \in 1..6 : Fits(j)
        BY <2>1 DEF Segment
      <3> HIDE DEF Fits, i
      <3> QED  BY <2>2, <3>1
    <2>4. ConservativeCurve(points, x) = points[i][2] * 100 + (x - points[i][1]) * slope
      BY DEF ConservativeCurve
    <2> HIDE DEF i
    <2>5. /\ points[i][1] \in Int /\ points[i][2] \in Int
          /\ points[i + 1][1] \in Int /\ points[i + 1][2] \in Int
          /\ points[i + 1][1] - points[i][1] > 0
      BY <1>1, <2>3 DEF DomainCurve, RiskCurve
    <2>6. slope \in Int
      BY <2>5
    <2> HIDE DEF slope
    <2> QED  BY <2>4, <2>5, <2>6
  <1> QED  BY <1>1

\* What a decision to execute says about the answer it was made from.
Earned(d, a, m) ==
    /\ a.conf >= MinConfidence
    /\ d.flow = "readonly" => a.hint # "write"
    /\ d.flow = "workflow" => a.intent \in DOMAIN WorkflowOf
    /\ d.policy = "conversation" =>
         /\ a.risk = "low" \/ m.mark \in {"social", "capability"}
         /\ a.risk \notin {"medium", "high"}
         /\ Scored(a.domainConf, a.conf) >= 87
         /\ Scored(a.riskConf, a.conf) >= 88

Workflows == {WorkflowOf[i] : i \in DOMAIN WorkflowOf}
                 \cup {"readonly", "conversational_response"}

\* The shape of a decision to execute.
Shaped(d) ==
    /\ d.flow \in {"readonly", "workflow"}
    /\ d.policy \in {"execute", "conversation"}
    /\ d.policy = "conversation" => d.flow = "readonly"
    /\ d.workflow \in Workflows

LEMMA ScoredRange ==
    ASSUME NEW x \in -1..100, NEW overall \in 0..100
    PROVE  Scored(x, overall) \in 0..100
  BY DEF Scored

LEMMA CandidateFields ==
    ASSUME NEW a \in ProviderAnswer, NEW m
    PROVE  LET c == Candidate(a, m)
           IN  /\ c.intent = a.intent /\ c.conf = a.conf
               /\ c.domainConf = a.domainConf /\ c.riskConf = a.riskConf
               /\ c.hint = ParsedHint(a.hint)
               /\ c.domain = Known(ParsedDomain(a.domain), Assess(m).domain)
               /\ c.risk = Known(ParsedRisk(a.risk), Assess(m).risk)
  BY DEF Candidate

LEMMA AssessedLow ==
    ASSUME NEW m, Assess(m).risk = "low"
    PROVE  m.mark \in {"social", "capability"}
  <1>1. CASE HardBlock(m)
    BY <1>1 DEF Assess
  <1>2. CASE ~HardBlock(m)
    BY <1>2 DEF Assess
  <1> QED  BY <1>1, <1>2

LEMMA ExecuteFields ==
    ASSUME NEW flow, NEW workflow, NEW policy
    PROVE  /\ Execute(flow, workflow, policy).outcome = "execute"
           /\ Execute(flow, workflow, policy).flow = flow
           /\ Execute(flow, workflow, policy).workflow = workflow
           /\ Execute(flow, workflow, policy).policy = policy
  BY DEF Execute

LEMMA NotExecuted == Handoff.outcome # "execute" /\ AskUser.outcome # "execute"
  BY DEF Handoff, AskUser

\* A conversation is started by a decision that passed every check.
LEMMA ConversesEarned ==
    ASSUME NEW a \in ProviderAnswer, NEW m, a.conf >= MinConfidence,
           Converses(Candidate(a, m)).outcome = "execute"
    PROVE  /\ Shaped(Converses(Candidate(a, m)))
           /\ Earned(Converses(Candidate(a, m)), a, m)
  <1> DEFINE c == Candidate(a, m)
  <1>0. /\ c.intent = a.intent /\ c.conf = a.conf
        /\ c.domainConf = a.domainConf /\ c.riskConf = a.riskConf
        /\ c.hint = ParsedHint(a.hint)
        /\ c.domain = Known(ParsedDomain(a.domain), Assess(m).domain)
        /\ c.risk = Known(ParsedRisk(a.risk), Assess(m).risk)
    BY CandidateFields
  <1> HIDE DEF c
  <1>1. /\ ~(CalibratedDomain(c) < MinConfidence * 100)
        /\ ~(CalibratedRisk(c) < MinConfidence * 100)
        /\ c.risk = "low" /\ c.hint # "write"
        /\ Converses(c) = Execute("readonly", "conversational_response", "conversation")
    BY NotExecuted DEF Converses, c
  <1>2. a.hint # "write"
    BY <1>0, <1>1 DEF ParsedHint
  <1>3. /\ a.risk = "low" \/ m.mark \in {"social", "capability"}
        /\ a.risk \notin {"medium", "high"}
    <2>1. CASE ParsedRisk(a.risk) = "unknown"
      BY <2>1, <1>0, <1>1, AssessedLow DEF Known, ParsedRisk
    <2>2. CASE ParsedRisk(a.risk) # "unknown"
      BY <2>2, <1>0, <1>1 DEF Known, ParsedRisk
    <2> QED  BY <2>1, <2>2
  <1>4. /\ Scored(a.domainConf, a.conf) \in 0..100
        /\ Scored(a.riskConf, a.conf) \in 0..100
    BY ScoredRange, Zenon DEF ProviderAnswer
  <1>5. CalibratedRisk(c) = ConservativeCurve(RiskCurve, Scored(a.riskConf, a.conf))
    BY <1>0, <1>1 DEF CalibratedRisk
  <1>6. \/ CalibratedDomain(c) = 0
        \/ CalibratedDomain(c) = ConservativeCurve(DomainCurve, Scored(a.domainConf, a.conf))
    BY <1>0 DEF CalibratedDomain
  <1>7. ASSUME NEW x \in 0..100
        PROVE  /\ ConservativeCurve(DomainCurve, x) \in Int
               /\ ConservativeCurve(RiskCurve, x) \in Int
    BY CurveInt
  <1>8. Scored(a.riskConf, a.conf) >= 88
    BY <1>1, <1>4, <1>5, <1>7, RiskThreshold DEF MinConfidence
  <1>9. Scored(a.domainConf, a.conf) >= 87
    BY <1>1, <1>4, <1>6, <1>7, DomainThreshold DEF MinConfidence
  <1>10. Converses(c).flow = "readonly" /\ Converses(c).policy = "conversation"
         /\ Converses(c).workflow = "conversational_response"
    BY <1>1, ExecuteFields
  <1> QED
    BY <1>2, <1>3, <1>8, <1>9, <1>10 DEF Shaped, Earned, Workflows, c

\* Whatever the flags, a decision to execute is earned.
LEMMA DecideEarned ==
    ASSUME NEW v2 \in BOOLEAN, NEW a \in ProviderAnswer, NEW m,
           Decide(v2, Candidate(a, m)).outcome = "execute"
    PROVE  /\ Shaped(Decide(v2, Candidate(a, m)))
           /\ Earned(Decide(v2, Candidate(a, m)), a, m)
  <1> DEFINE c == Candidate(a, m)
             kind == RuleKind(v2, c.intent)
             d == Decide(v2, c)
  <1>0. c.intent = a.intent /\ c.conf = a.conf /\ c.hint = ParsedHint(a.hint)
    BY CandidateFields
  <1>1. kind \in {None, "human", "conversation", "readonly", "workflow"}
    BY DEF RuleKind
  <1>2. kind = "workflow" => a.intent \in DOMAIN WorkflowOf
    BY <1>0 DEF RuleKind, None
  <1>3. a.conf \in 0..100
    BY DEF ProviderAnswer
  <1>4. d = IF kind \in {None, "human"} THEN Handoff
            ELSE IF c.conf < MinConfidence THEN AskUser
            ELSE IF kind = "conversation" THEN Converses(c)
            ELSE IF kind = "workflow" THEN Execute("workflow", WorkflowOf[c.intent], "execute")
            ELSE IF c.hint = "write" THEN Handoff
            ELSE Execute("readonly", "readonly", "execute")
    BY DEF Decide
  <1>5. d.outcome = "execute"
    OBVIOUS
  <1> HIDE DEF c, kind, d
  <1>6. kind \notin {None, "human"} /\ ~(c.conf < MinConfidence)
    BY <1>4, <1>5, NotExecuted
  <1>7. a.conf >= MinConfidence
    BY <1>0, <1>3, <1>6 DEF MinConfidence
  <1>8. CASE kind = "conversation"
    <2>1. d = Converses(c)
      BY <1>4, <1>6, <1>8 DEF None
    <2>2. Shaped(Converses(c)) /\ Earned(Converses(c), a, m)
      BY <2>1, <1>5, <1>7, ConversesEarned DEF c
    <2> QED  BY <2>1, <2>2 DEF d, c
  <1>9. CASE kind = "readonly"
    <2>1. d = IF c.hint = "write" THEN Handoff ELSE Execute("readonly", "readonly", "execute")
      BY <1>4, <1>6, <1>9 DEF None
    <2>2. c.hint # "write" /\ d = Execute("readonly", "readonly", "execute")
      BY <2>1, <1>5, NotExecuted
    <2>3. a.hint # "write"
      BY <2>2, <1>0 DEF ParsedHint
    <2>4. d.flow = "readonly" /\ d.policy = "execute" /\ d.workflow = "readonly"
      BY <2>2, ExecuteFields
    <2> QED  BY <2>3, <2>4, <1>7 DEF Shaped, Earned, Workflows, d, c
  <1>10. CASE kind = "workflow"
    <2>1. d = Execute("workflow", WorkflowOf[c.intent], "execute")
      BY <1>4, <1>6, <1>10 DEF None
    <2>2. a.intent \in DOMAIN WorkflowOf
      BY <1>2, <1>10 DEF kind, c
    <2>3. d.flow = "workflow" /\ d.policy = "execute" /\ d.workflow = WorkflowOf[a.intent]
      BY <2>1, <1>0, ExecuteFields
    <2>4. d.workflow \in Workflows
      BY <2>2, <2>3 DEF Workflows
    <2> QED  BY <2>2, <2>3, <2>4, <1>7 DEF Shaped, Earned, d, c
  <1> QED  BY <1>1, <1>6, <1>8, <1>9, <1>10 DEF kind, c

LEMMA RoutedEarned ==
    ASSUME routingV2 \in BOOLEAN, NEW a \in ProviderAnswer, NEW m,
           NEW canary \in BOOLEAN, Routed(Candidate(a, m), m, canary).outcome = "execute"
    PROVE  /\ Shaped(Routed(Candidate(a, m), m, canary))
           /\ Earned(Routed(Candidate(a, m), m, canary), a, m)
  <1>1. PICK v2 \in BOOLEAN :
            Routed(Candidate(a, m), m, canary) = Decide(v2, Candidate(a, m))
    BY DEF Routed
  <1> QED  BY <1>1, DecideEarned

\* The route stays what the answer earned: a conversation ends in the turn it
\* was routed in, and no later answer replaces the one the run was routed by.
Statuses == {"created", "running", "waiting_user", "waiting_human",
             "waiting_confirmation", "completed", "failed"}
RunRow == [status : Statuses, flow : {None, "readonly", "workflow"},
           workflow : Workflows \cup {None},
           policy : {None, "execute", "conversation"}]
RouteInv ==
    /\ routingV2 \in BOOLEAN
    /\ pc \in {"idle", "safety", "classify", "dispatch"}
    /\ run \in RunRow
    /\ run.policy = None <=> run.workflow = None
    /\ run.policy = None => effect.kind = None
    /\ run.policy # None =>
         /\ run.status # "created"
         /\ Shaped(run)
         /\ answer.conf >= MinConfidence
         /\ run.flow = "readonly" => answer.hint # "write"
         /\ run.flow = "workflow" => answer.intent \in DOMAIN WorkflowOf
    /\ pc = "dispatch" => run.policy # None
    /\ run.policy = "conversation" =>
         /\ run.status \in {"running", "completed"}
         /\ pc \in {"idle", "dispatch"}
         /\ pc = "dispatch" => Earned(run, answer, turn)
    /\ RouteEarned

LEMMA NoneIsNoWorkflow == None \notin Workflows
  BY DEF Workflows, WorkflowOf, None

\* A call of the executor that returns leaves the route as it is.
LEMMA ReturnsFields ==
    ASSUME run \in RunRow, NEW s \in Statuses, Returns(s)
    PROVE  /\ run' \in RunRow /\ run'.status = s /\ run'.flow = run.flow
           /\ run'.workflow = run.workflow /\ run'.policy = run.policy
           /\ pc' = "idle"
  BY DEF Returns, RunRow

\* With the route kept and nothing started, the invariant is kept too.
LEMMA RouteKept ==
    ASSUME RouteInv, UNCHANGED <<routingV2, answer>>,
           effect' = effect,
           run' \in RunRow, run'.flow = run.flow, run'.workflow = run.workflow,
           run'.policy = run.policy, run'.status # "created" \/ run' = run,
           pc' \in {"idle", "safety", "classify", "dispatch"},
           pc' = "dispatch" => run.policy # None,
           run.policy = "conversation" =>
               /\ run'.status \in {"running", "completed"}
               /\ pc' \in {"idle", "dispatch"}
               /\ pc' = "dispatch" => pc = "dispatch" /\ turn' = turn
    PROVE  RouteInv'
  <1>1. RouteEarned'
    BY DEF RouteInv, RouteEarned
  <1>2. run.policy # None => run'.status # "created" /\ Shaped(run)'
    BY DEF RouteInv, Shaped
  <1>3. run.policy = "conversation" /\ pc' = "dispatch" => Earned(run, answer, turn)'
    BY DEF RouteInv, Earned
  <1> QED  BY <1>1, <1>2, <1>3 DEF RouteInv

\* With something started from a dispatch, it is the answer's due.
LEMMA RouteStarted ==
    ASSUME RouteInv, UNCHANGED <<routingV2, answer>>, pc = "dispatch",
           NEW kind \in {"conversation", "readonly", "preview", "low_risk"},
           Starts(kind), NEW s \in Statuses, Returns(s), s # "created",
           run.policy = "conversation" => s = "completed",
           kind = "conversation" => run.policy = "conversation",
           kind = "readonly" => run.flow = "readonly",
           kind \in {"preview", "low_risk"} => run.flow = "workflow"
    PROVE  RouteInv'
  <1>0. /\ run' \in RunRow /\ run'.status = s /\ run'.flow = run.flow
        /\ run'.workflow = run.workflow /\ run'.policy = run.policy /\ pc' = "idle"
    BY ReturnsFields DEF RouteInv
  <1>1. run.policy # None
    BY DEF RouteInv
  <1>2. effect'.kind = kind /\ effect'.message = turn
    BY DEF Starts
  <1>3. /\ answer.conf >= MinConfidence
        /\ run.flow = "readonly" => answer.hint # "write"
        /\ run.flow = "workflow" => answer.intent \in DOMAIN WorkflowOf
        /\ run.policy = "conversation" => Earned(run, answer, turn) /\ run.flow = "readonly"
    BY <1>1 DEF RouteInv, Shaped
  <1>4. RouteEarned'
    BY <1>2, <1>3 DEF RouteEarned, Earned, Scored, None
  <1>5. Shaped(run)'
    BY <1>0, <1>1 DEF RouteInv, Shaped
  <1> QED  BY <1>0, <1>1, <1>3, <1>4, <1>5 DEF RouteInv

LEMMA RouteStep == RouteInv /\ [ADNext]_adVars => RouteInv'
  <1> SUFFICES ASSUME RouteInv, [ADNext]_adVars
               PROVE  RouteInv'
    OBVIOUS
  <1>0. run \in RunRow
    BY DEF RouteInv
  <1>1. ASSUME NEW m \in Texts, Say(m)
        PROVE  RouteInv'
    <2>1. run.policy # "conversation"
      BY <1>1 DEF Say, RouteInv
    <2> QED  BY <1>0, <1>1, <2>1, RouteKept DEF Say
  <1>2. CASE Safety
    <2>1. CASE Returns("waiting_human")
      <3>1. run.policy # "conversation"
        BY <1>2 DEF Safety, RouteInv
      <3>2. /\ run' \in RunRow /\ run'.status = "waiting_human" /\ run'.flow = run.flow
            /\ run'.workflow = run.workflow /\ run'.policy = run.policy /\ pc' = "idle"
        BY <2>1, <1>0, ReturnsFields DEF Statuses
      <3> QED  BY <1>2, <3>1, <3>2, RouteKept DEF Safety
    <2>2. CASE pc' = (IF run.workflow # None THEN "dispatch" ELSE "classify") /\ run' = run
      <3>1. run.policy # "conversation"
        BY <1>2 DEF Safety, RouteInv
      <3>2. pc' = "dispatch" => run.policy # None
        BY <2>2 DEF RouteInv
      <3> QED  BY <1>0, <1>2, <2>2, <3>1, <3>2, RouteKept DEF Safety
    <2> QED  BY <1>2, <2>1, <2>2 DEF Safety
  <1>3. CASE ClassifyFails
    <2>1. run.policy # "conversation" /\ pc = "classify"
      BY <1>3 DEF ClassifyFails, RouteInv
    <2>2. ASSUME NEW s \in {"failed", "waiting_human"}, Returns(s)
          PROVE  RouteInv'
      <3>2. /\ run' \in RunRow /\ run'.status = s /\ run'.flow = run.flow
            /\ run'.workflow = run.workflow /\ run'.policy = run.policy /\ pc' = "idle"
        BY <2>2, <1>0, ReturnsFields DEF Statuses
      <3> QED  BY <1>3, <2>1, <2>2, <3>2, RouteKept DEF ClassifyFails
    <2>3. CASE run' = run /\ pc' = pc
      BY <1>0, <1>3, <2>1, <2>3, RouteKept DEF ClassifyFails
    <2> QED  BY <1>3, <2>2, <2>3 DEF ClassifyFails
  <1>4. ASSUME NEW a \in Answers, NEW canary \in BOOLEAN, Classify(a, canary)
        PROVE  RouteInv'
    <2> DEFINE d == Routed(Candidate(a, turn), turn, canary)
    <2>1. run.policy # "conversation" /\ pc = "classify"
      BY <1>4 DEF Classify, RouteInv
    <2>2. ASSUME NEW s \in {"failed", "waiting_human", "waiting_user"}, Returns(s),
                 UNCHANGED answer
          PROVE  RouteInv'
      <3>1. /\ run' \in RunRow /\ run'.status = s /\ run'.flow = run.flow
            /\ run'.workflow = run.workflow /\ run'.policy = run.policy /\ pc' = "idle"
        BY <2>2, <1>0, ReturnsFields DEF Statuses
      <3> QED  BY <1>4, <2>1, <2>2, <3>1, RouteKept DEF Classify
    <2>3. CASE /\ run.status = "created" /\ d.outcome = "execute"
               /\ run' = [status |-> "running", flow |-> d.flow,
                          workflow |-> d.workflow, policy |-> d.policy]
               /\ pc' = "dispatch" /\ answer' = a /\ turn' = turn
      <3>1. a \in ProviderAnswer
        BY AnswerAssumption
      <3>2. Shaped(d) /\ Earned(d, a, turn)
        BY <2>3, <3>1, RoutedEarned DEF RouteInv
      <3> HIDE DEF d
      <3>3. run'.status = "running" /\ run'.flow = d.flow /\ run'.policy = d.policy
            /\ run'.workflow = d.workflow
        BY <2>3
      <3>4. Shaped(run') /\ Earned(run', answer', turn')
        BY <2>3, <3>2, <3>3 DEF Shaped, Earned
      <3>5. run.policy = None /\ effect' = effect /\ routingV2' = routingV2
        BY <1>4, <2>3 DEF Classify, RouteInv
      <3>6. RouteEarned'
        BY <3>5 DEF RouteInv, RouteEarned
      <3>7. run' \in RunRow
        BY <2>3, <3>2 DEF RunRow, Shaped, Statuses
      <3> QED
        BY <2>3, <3>3, <3>4, <3>5, <3>6, <3>7, NoneIsNoWorkflow
        DEF RouteInv, Shaped, Earned, None
    <2> QED  BY <1>4, <2>2, <2>3 DEF Classify
  <1>5. CASE Converse
    BY <1>5, RouteStarted DEF Converse, Statuses
  <1>6. CASE ReadonlyLoop
    <2>1. PICK s \in {"completed", "waiting_user", "waiting_human", "failed"} : Returns(s)
      BY <1>6 DEF ReadonlyLoop
    <2> QED  BY <1>6, <2>1, RouteStarted DEF ReadonlyLoop, Statuses
  <1>7. CASE PlanMutation \/ SubmitLowRisk
    <2>0. /\ pc = "dispatch" /\ run.policy = "execute" /\ run.flow = "workflow"
          /\ UNCHANGED <<routingV2, answer>>
      BY <1>7 DEF PlanMutation, SubmitLowRisk
    <2>1. ASSUME NEW s \in {"waiting_confirmation", "completed", "failed",
                             "waiting_human"}, Returns(s),
                 NEW kind \in {"preview", "low_risk"}, Starts(kind)
          PROVE  RouteInv'
      BY <2>0, <2>1, RouteStarted DEF Statuses
    <2>2. ASSUME NEW s \in {"failed"}, Returns(s), UNCHANGED effect
          PROVE  RouteInv'
      <3>1. /\ run' \in RunRow /\ run'.status = s /\ run'.flow = run.flow
            /\ run'.workflow = run.workflow /\ run'.policy = run.policy /\ pc' = "idle"
        BY <2>2, <1>0, ReturnsFields DEF Statuses
      <3> QED  BY <2>0, <2>2, <3>1, RouteKept
    <2> QED  BY <1>7, <2>1, <2>2 DEF PlanMutation, SubmitLowRisk
  <1>8. CASE UNCHANGED adVars
    BY <1>0, <1>8, RouteKept DEF adVars, RouteInv
  <1> QED
    BY <1>1, <1>2, <1>3, <1>4, <1>5, <1>6, <1>7, <1>8 DEF ADNext

\* Whatever the provider answers, a loop or a conversation is started only on
\* an answer above the thresholds that does not speak of a write, and a write
\* only on a write intent of the catalogue (IntentRouter.decide, the
\* calibration, the routing branches of the executor).
THEOREM RoutesAreEarned == ADSpec => []RouteEarned
  <1>1. ADInit => RouteInv
    BY DEF ADInit, RouteInv, RouteEarned, RunRow, Statuses, Pre, NoEffect, None
  <1>2. RouteInv => RouteEarned
    BY DEF RouteInv
  <1> QED  BY <1>1, <1>2, RouteStep, PTL DEF ADSpec

=============================================================================
