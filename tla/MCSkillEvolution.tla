---------------------------- MODULE MCSkillEvolution ----------------------------
(* Instances of SkillEvolution: two runs and one evaluation case evaluated   *)
(* twice, two independent sources wanted, two skills of different scope.     *)
EXTENDS SkillEvolution, TLC

CONSTANTS w1, w2, s1, s2, r1, r2, c1, MaxAttributions

MCEventType == [e \in Events |-> "tool"]

\* A run that fails for want of a tool, and one handed over for its cost, which
\* is two signals.
MCOutcomes == {[status |-> "failed", reason |-> {"TOOL"}, flags |-> {}],
               [status |-> "waiting_human", reason |-> {"COST"}, flags |-> {}]}

Creation(scope, keywords, cluster, gates) ==
    [scope |-> scope, keywords |-> keywords, cluster |-> cluster,
     policy |-> "graceful_unsupported", dangerous |-> FALSE,
     offline |-> gates, safety |-> gates, project_safety |-> FALSE]

MCCreations == {Creation(<<"route", "faq">>, {"refund"}, "run_signal", TRUE),
                Creation(<<"tenant", "demo">>, {"refund", "parcel"}, "run_signal", TRUE),
                Creation(<<"tenant", "demo">>, {"refund"}, "eval_fail", TRUE),
                Creation(<<"route", "faq">>, {"parcel"}, "run_signal", FALSE)}

MCVerdicts == {[gate |-> TRUE, safety |-> "pass", disagreements |-> 0],
               [gate |-> TRUE, safety |-> "pass", disagreements |-> 1]}

MCText == [q \in Requests |-> {"refund"}]
MCRoute == [q \in Requests |-> "faq"]

RECURSIVE Total(_)
Total(rows) == IF rows = {} THEN 0
               ELSE LET row == CHOOSE row \in rows : TRUE
                    IN  Len(attributions[row]) + Total(rows \ {row})

Registered == \E s \in Skills : skill[s].status # "absent"
Present == {row \in Rows : cases[row].status # "absent"}
Busy == {w \in Workers : job[w].stage # "idle"}

\* Up to MaxAttributions attributions of one case, with two projections of its
\* source interleaved, or else any number of cases whose projections were lost
\* before they attributed anything: the registry reads only the clusters of the
\* cases. Requests and the switch move once there is a skill.
Bounds ==
    /\ Total(Rows) <= MaxAttributions
    /\ \/ /\ mode = "active" /\ Cardinality(Present) <= 1
          /\ Cardinality({job[w].source : w \in Busy} \cup {row.source : row \in Present}) <= 1
       \/ /\ Cardinality(Busy) <= 1
          /\ \A row \in Present : /\ cases[row].status = "open"
                                  /\ cases[row].refs = {}
                                  /\ attributions[row] = <<>>
                                  /\ cases[row].signal \in {"run_failed", "eval_fail"}
    /\ Registered => /\ Busy = {}
                     /\ Cardinality(Present) = 2
                     /\ \A row \in Present : cases[row].status = "open" /\ attributions[row] = <<>>
    /\ ~Registered => enabled /\ \A q \in Requests : request[q].pc = "routed"

Symmetry == Permutations(Workers) \cup Permutations(Skills) \cup Permutations(RunSources)
=============================================================================
