------------------------------- MODULE Outbox -------------------------------
(***************************************************************************)
(* Leases on the rows of runtime.runtime_outbox, which commit_step inserts *)
(* with the events they announce (repositories/outbox.py).  The publisher  *)
(* that calls these operations is not in the repository; it is modelled as *)
(* the operations are meant to be used: lease, deliver, then settle or ask *)
(* for a retry.  Nothing but its lease's age tells whether a publisher is  *)
(* still alive, so a lease may run out while its holder is only slow, and  *)
(* the row is then held twice.                                             *)
(***************************************************************************)
EXTENDS Naturals, FiniteSets

CONSTANTS
    Messages,      \* outbox rows
    Publishers,
    MaxAttempts,   \* dead_letter's max_attempts
    AttemptBound,  \* bound on attempt_count, above MaxAttempts
    LeaseLimit     \* lease_pending's limit

ASSUME OutboxAssumption ==
    MaxAttempts \in Nat /\ AttemptBound \in Nat /\ LeaseLimit \in Nat

VARIABLES
    row,     \* status and attempt_count of each row
    held,    \* the leases each publisher believes it holds
    swept    \* the rows a running dead_letter statement has selected

obVars == <<row, held, swept>>

Status(r) == row[r].status
Settled == {"published", "dead_letter"}
SetStatus(S, s) ==
    row' = [r \in Messages |-> IF r \in S THEN [row[r] EXCEPT !.status = s] ELSE row[r]]

OBInit ==
    /\ row = [r \in Messages |-> [status |-> "pending", attempts |-> 0]]
    /\ held = [p \in Publishers |-> {}]
    /\ swept = {}

(* lease_pending: rows that wait, and rows whose lease has run out; SKIP   *)
(* LOCKED makes the statement take each row once.  Time is abstracted: a   *)
(* retry's delay and a lease may have passed or not.                       *)
LeasePending(p) ==
    \E S \in SUBSET {r \in Messages : Status(r) \in {"pending", "publishing"}} :
        /\ S # {} /\ Cardinality(S) <= LeaseLimit
        /\ \A r \in S : row[r].attempts < AttemptBound
        /\ row' = [r \in Messages |->
              IF r \in S THEN [status |-> "publishing", attempts |-> row[r].attempts + 1]
              ELSE row[r]]
        /\ held' = [held EXCEPT ![p] = @ \cup S]
        /\ UNCHANGED swept

(* mark_published, after the delivery: only a row that is being published. *)
MarkPublished(p, r) ==
    /\ r \in held[p]
    /\ IF Status(r) = "publishing" THEN SetStatus({r}, "published") ELSE UNCHANGED row
    /\ held' = [held EXCEPT ![p] = @ \ {r}]
    /\ UNCHANGED swept

\* Mutant: retry does not ask for status = 'publishing'.
MutRetry(p, r) ==
    /\ r \in held[p]
    /\ SetStatus({r}, "pending")
    /\ held' = [held EXCEPT ![p] = @ \ {r}]
    /\ UNCHANGED swept

(* retry, after a failed delivery.                                         *)
Retry(p, r) ==
    /\ r \in held[p]
    /\ IF Status(r) = "publishing" THEN SetStatus({r}, "pending") ELSE UNCHANGED row
    /\ held' = [held EXCEPT ![p] = @ \ {r}]
    /\ UNCHANGED swept

(* dead_letter: its subquery selects without a lock, and the update does   *)
(* not look at the status again when it had to wait for a row: what the    *)
(* statement selected is quarantined even if it was published meanwhile.   *)
DeadLetterSelect ==
    /\ swept = {}
    /\ swept' = {r \in Messages : /\ Status(r) \in {"pending", "publishing"}
                                  /\ row[r].attempts >= MaxAttempts}
    /\ swept' # {}
    /\ UNCHANGED <<row, held>>

DeadLetterUpdate ==
    /\ swept # {}
    /\ SetStatus(swept, "dead_letter")
    /\ swept' = {}
    /\ UNCHANGED held

(* A publisher dies and forgets its leases.                                *)
PublisherDies(p) ==
    /\ held[p] # {}
    /\ held' = [held EXCEPT ![p] = {}]
    /\ UNCHANGED <<row, swept>>

OBNext ==
    \/ \E p \in Publishers :
         \/ LeasePending(p) \/ PublisherDies(p)
         \/ \E r \in Messages : MarkPublished(p, r) \/ Retry(p, r)
    \/ DeadLetterSelect \/ DeadLetterUpdate

OBSpec == OBInit /\ [][OBNext]_obVars

-----------------------------------------------------------------------------
(* The columns keep their CHECKed values and no publisher remembers a lease  *)
(* on a row that does not exist.                                           *)
OBTypeOK ==
    /\ row \in [Messages -> [status : {"pending", "publishing"} \cup Settled,
                             attempts : 0..AttemptBound]]
    /\ held \in [Publishers -> SUBSET Messages]
    /\ swept \subseteq Messages

(* A publisher that outlived its lease cannot bring back a row that the    *)
(* next holder published, or that was quarantined: a settled row never     *)
(* waits for delivery again.                                               *)
NeverRequeued ==
    [][\A r \in Messages :
          Status(r) \in Settled => row'[r].status \in Settled]_obVars

=============================================================================
