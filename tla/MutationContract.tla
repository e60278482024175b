--------------------------- MODULE MutationContract ---------------------------
(***************************************************************************)
(* What the confirmed-mutation path of CommerceAgent promises about a run, *)
(* with no tokens, checkpoints, handlers or crashes in sight: the business *)
(* system is asked to change something at most once, never for a run the   *)
(* user withdrew, and a run is declared completed only when the change is  *)
(* there or a person has been given the case.                              *)
(***************************************************************************)
CONSTANT Runs

VARIABLES
    invoked,    \* runs whose mutation was sent to the business system
    effect,     \* runs whose mutation took effect there
    escalated,  \* runs handed to a person
    withdrawn,  \* runs the user cancelled or rejected
    declared    \* runs reported as completed

contractVars == <<invoked, effect, escalated, withdrawn, declared>>

Init ==
    /\ invoked = {}
    /\ effect = {}
    /\ escalated = {}
    /\ withdrawn = {}
    /\ declared = {}

\* The one external call, whether or not it takes effect.
Invoke(run) ==
    /\ run \notin invoked \cup withdrawn
    /\ invoked' = invoked \cup {run}
    /\ effect' \in {effect, effect \cup {run}}
    /\ UNCHANGED <<escalated, withdrawn, declared>>

\* The user takes the request back, which only counts before the call.
Withdraw(run) ==
    /\ run \notin invoked \cup withdrawn
    /\ withdrawn' = withdrawn \cup {run}
    /\ UNCHANGED <<invoked, effect, escalated, declared>>

\* A called mutation whose result cannot be established goes to a person.
Escalate(run) ==
    /\ run \in invoked \ escalated
    /\ escalated' = escalated \cup {run}
    /\ UNCHANGED <<invoked, effect, withdrawn, declared>>

\* Completion is announced for a change that is there, or on a person's word.
Declare(run) ==
    /\ run \in (effect \cup escalated) \ declared
    /\ declared' = declared \cup {run}
    /\ UNCHANGED <<invoked, effect, escalated, withdrawn>>

Next ==
    \E run \in Runs :
        \/ Invoke(run)
        \/ Withdraw(run)
        \/ Escalate(run)
        \/ Declare(run)

Spec == Init /\ [][Next]_contractVars
===============================================================================
