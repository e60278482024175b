----------------------------- MODULE SkillEvolution -----------------------------
(***************************************************************************)
(* What the system learns from its failures: the failure pool with its     *)
(* attributions and human reviews, the skill candidates generated from it, *)
(* their human-gated lifecycle, the kill switch, and the runs that match   *)
(* skills while all of that goes on.                                       *)
(*                                                                         *)
(* An action is one repository transaction together with the reads before  *)
(* it and the refresh after it; a projection of several signals takes one  *)
(* step to record a signal and one to attribute it, for every signal.      *)
(***************************************************************************)
EXTENDS Integers, Sequences, FiniteSets

CONSTANTS
    RunSources,   \* runs that may fail
    EvalCases,    \* evaluation cases that may fail
    Copies,       \* numbers of the rows one evaluation case may insert
    Outcomes,     \* ends of a run: [status, reason, flags], the reason a set of tags
    Workers,      \* projections that may be under way at once
    Events,       \* ids of replayable run events
    EventType,    \* "tool", "reply" or "other" for each of them
    Forged,       \* event ids an attribution model may invent
    Skills,       \* skill ids
    Creations,    \* payloads of a candidate creation
    Verdicts,     \* paired evaluations: [gate, safety, disagreements]
    Requests,     \* routed requests that look for a skill
    Words, Text,  \* keywords, and those the text of each request holds
    Route,        \* route of each request
    Modes,        \* match modes the settings may select
    Threshold,    \* independent sources a candidate needs (5 in the code)
    MinimumScore  \* 75 percent in the code

ASSUME EvolutionAssumption ==
    /\ Threshold \in Nat /\ MinimumScore \in Nat
    /\ Copies \subseteq Nat
    /\ Events \cap Forged = {}
    /\ EventType \in [Events -> {"tool", "reply", "other"}]
    /\ Text \in [Requests -> SUBSET Words]
    /\ \A c \in Creations : c.keywords \subseteq Words
    /\ IsFiniteSet(RunSources) /\ IsFiniteSet(EvalCases)
    /\ Modes \subseteq {"active", "canary", "shadow"}
    /\ "none" \notin Skills

Rows == {[source |-> r, no |-> 0] : r \in RunSources} \cup
        {[source |-> c, no |-> n] : c \in EvalCases, n \in Copies}

VARIABLES
    cases,         \* evaluation.failure_cases
    attributions,  \* evaluation.failure_attributions of each case, oldest first
    job,           \* projections and reanalyses under way
    skill,         \* skill_candidates, each with its one version
    evaluations,   \* skill_evaluations of each skill
    lapsed,        \* 0, 1 (review deadline passed), 2 (version expired as well)
    enabled,       \* skill_controls.matching_enabled
    mode,          \* match mode of the process
    request,       \* requests on their way through the two matching places
    matches        \* skill_matches

poolVars == <<cases, attributions, job>>
skillVars == <<skill, evaluations, lapsed>>
matchVars == <<enabled, mode, request, matches>>
vars == <<poolVars, skillVars, matchVars>>

Terminal == {"REJECTED", "EXPIRED", "ROLLED_BACK"}
Served == {"CANARY", "ACTIVE"}
Decided == {"verified_success", "verified_failure"}

NoCase == [status |-> "absent", cluster |-> "none", signal |-> "none", refs |-> {}]
NoSkill == [status |-> "absent", version |-> "absent", reviewer |-> FALSE,
            scope |-> <<>>, keywords |-> {}, body |-> <<>>, cluster |-> "none"]
Idle == [stage |-> "idle", source |-> "none", left |-> <<>>, row |-> {},
         tags |-> {}, allowed |-> {}, refs |-> {}]
None == "none"

Init ==
    /\ cases = [row \in Rows |-> NoCase]
    /\ attributions = [row \in Rows |-> <<>>]
    /\ job = [w \in Workers |-> Idle]
    /\ skill = [s \in Skills |-> NoSkill]
    /\ evaluations = [s \in Skills |-> {}]
    /\ lapsed = [s \in Skills |-> 0]
    /\ enabled = TRUE
    /\ mode \in Modes
    /\ request = [q \in Requests |-> [pc |-> "routed", permitted |-> FALSE,
                                      found |-> None, strategy |-> None]]
    /\ matches = {}

-----------------------------------------------------------------------------
(* The failure pool.                                                       *)

\* signals_for_run: the observations of one outcome, in the order of the code.
SignalsForRun(o) ==
    LET Signal(holds, name) == IF holds THEN <<name>> ELSE <<>>
    IN  Signal(o.status = "failed", "run_failed") \o
        Signal(o.status = "waiting_human", "human_handoff") \o
        Signal(o.status = "expired", "expired") \o
        Signal("CONFIDENCE" \in o.reason, "low_confidence") \o
        Signal("COST" \in o.reason, "cost_exceeded") \o
        Signal("eval_failed" \in o.flags, "eval_fail") \o
        Signal("human_rejected" \in o.flags, "human_rejected")

\* signals_for_evaluation: a missing cost or budget is never an overrun.
SignalsForEvaluation(failed, cost, budget) ==
    (IF failed THEN <<"eval_fail">> ELSE <<>>) \o
    (IF cost # {} /\ budget # {} /\ \E c \in cost, b \in budget : b >= 0 /\ c > b
     THEN <<"cost_exceeded">> ELSE <<>>)

Taxonomy == <<[tag |-> "SAFETY", category |-> "safety_error"],
              [tag |-> "TOOL", category |-> "tool_error"],
              [tag |-> "RETRIEV", category |-> "retrieval_error"],
              [tag |-> "CONFIDENCE", category |-> "intent_error"],
              [tag |-> "POLICY", category |-> "policy_error"],
              [tag |-> "MODEL", category |-> "model_error"],
              [tag |-> "RESPONSE", category |-> "response_error"]>>

\* The first rule that fits a tag of the reason code, or the type of an event.
DeterministicCategory(tags, events) ==
    LET types == {EventType[e] : e \in events}
        fits == {i \in DOMAIN Taxonomy :
                    \/ Taxonomy[i].tag \in tags
                    \/ i = 2 /\ "tool" \in types
                    \/ i = 7 /\ "reply" \in types}
    IN  IF fits = {} THEN "unknown"
        ELSE Taxonomy[CHOOSE i \in fits : \A k \in fits : i <= k].category

\* cluster_key: all signals of a run fall into the cluster of its route, those
\* of an evaluation case into one cluster for each signal.
ClusterKey(source, signal) ==
    IF source \in RunSources THEN "run_signal" ELSE signal

\* record_run_outcome, and record_run_signal for a downvote: a projection
\* starts, in a background thread or inside the feedback request. A replayed
\* feedback starts it again.
RunEnds(w, r, o) ==
    /\ job[w].stage = "idle"
    /\ SignalsForRun(o) # <<>>
    /\ job' = [job EXCEPT ![w] = [Idle EXCEPT
                  !.stage = "record", !.source = r, !.left = SignalsForRun(o),
                  !.tags = o.reason]]
    /\ UNCHANGED <<cases, attributions, skillVars, matchVars>>

Downvote(w, r) ==
    /\ job[w].stage = "idle"
    /\ job' = [job EXCEPT ![w] = [Idle EXCEPT
                  !.stage = "record", !.source = r, !.left = <<"user_downvote">>]]
    /\ UNCHANGED <<cases, attributions, skillVars, matchVars>>

EvalEnds(w, c) ==
    \E failed \in BOOLEAN, cost \in {{}, {2}}, budget \in {{}, {1}} :
        /\ job[w].stage = "idle"
        /\ SignalsForEvaluation(failed, cost, budget) # <<>>
        /\ job' = [job EXCEPT ![w] = [Idle EXCEPT
                      !.stage = "record", !.source = c,
                      !.left = SignalsForEvaluation(failed, cost, budget)]]
        /\ UNCHANGED <<cases, attributions, skillVars, matchVars>>

\* The row a signal is written to: a run has one row for its cluster, which
\* every later signal of the run updates; an evaluation case inserts a new one.
TargetRows(source) ==
    IF source \in RunSources THEN {[source |-> source, no |-> 0]}
    ELSE {row \in Rows : row.source = source /\ cases[row].status = "absent"}

\* _event_facts replays the run's events, or fails and knows none; then
\* record_signal merges the signal and the events into the row.
RecordSignal(w) ==
    LET j == job[w] IN
    /\ j.stage = "record"
    /\ \E facts \in IF j.source \in RunSources THEN SUBSET Events ELSE {{}} :
       \E row \in TargetRows(j.source) :
           LET refs == cases[row].refs \cup facts IN
           /\ cases' = [cases EXCEPT ![row] =
                  [status |-> IF @.status = "absent" THEN "open" ELSE @.status,
                   cluster |-> ClusterKey(j.source, Head(j.left)),
                   signal |-> Head(j.left), refs |-> refs]]
           /\ job' = [job EXCEPT ![w] = [j EXCEPT
                  !.stage = "attribute", !.row = {row}, !.allowed = facts,
                  !.refs = refs]]
    /\ UNCHANGED <<attributions, skillVars, matchVars>>

\* validate_attribution: cited ids must have been replayed, some id must be
\* cited, and the model must be confident.
Valid(cites, confident, allowed) ==
    /\ cites \subseteq allowed
    /\ allowed # {} => cites # {}
    /\ confident

\* What AttributionAnalyzer may return: nothing when it is not configured, has
\* no event to cite or fails, otherwise a valid output.
Outputs(allowed) ==
    {{}} \cup {{cites} : cites \in
        {c \in SUBSET (Events \cup Forged) :
            allowed # {} /\ \E confident \in BOOLEAN : Valid(c, confident, allowed)}}

\* The attribution appended: the deterministic category, the model's evidence
\* or the case's own, and always "pending".
PendingAttribution(j, output) ==
    [category |-> DeterministicCategory(j.tags, j.allowed),
     llm |-> output # {},
     cites |-> IF output = {} THEN j.refs ELSE UNION output,
     review |-> "pending"]

\* Mutant: a case has one attribution, which a newer one replaces.
MutAddAttribution(row, attribution) ==
    attributions' = [attributions EXCEPT ![row] = <<attribution>>]

AddAttribution(row, attribution) ==
    attributions' = [attributions EXCEPT ![row] = Append(@, attribution)]

\* _append_attribution, after which the projection takes its next signal.
Attribute(w) ==
    LET j == job[w] IN
    /\ j.stage = "attribute"
    /\ \E output \in Outputs(j.allowed), row \in j.row :
           AddAttribution(row, PendingAttribution(j, output))
    /\ job' = [job EXCEPT ![w] =
           IF Len(j.left) > 1
           THEN [Idle EXCEPT !.stage = "record", !.source = j.source,
                             !.left = Tail(j.left), !.tags = j.tags]
           ELSE Idle]
    /\ UNCHANGED <<cases, skillVars, matchVars>>

\* A projection is best effort: an exception ends it silently, as a crash does.
JobLost(w) ==
    /\ job[w].stage # "idle"
    /\ job' = [job EXCEPT ![w] = Idle]
    /\ UNCHANGED <<cases, attributions, skillVars, matchVars>>

\* reanalyze: the case as it was read, a fresh replay, and the signal in the
\* place of the reason code, which carries none of its tags.
Reanalyze(w, row) ==
    /\ job[w].stage = "idle"
    /\ cases[row].status # "absent"
    /\ \E facts \in IF row.source \in RunSources THEN SUBSET Events ELSE {{}} :
           job' = [job EXCEPT ![w] = [Idle EXCEPT
                      !.stage = "attribute", !.source = row.source,
                      !.left = <<cases[row].signal>>, !.row = {row},
                      !.allowed = facts, !.refs = cases[row].refs]]
    /\ UNCHANGED <<cases, attributions, skillVars, matchVars>>

\* review_attribution: the decision is attached to the latest attribution, or
\* to a new row when there is none.
Review(row, outcome) ==
    LET n == Len(attributions[row]) IN
    /\ cases[row].status # "absent"
    /\ IF n = 0
       THEN AddAttribution(row, [category |-> "unknown", llm |-> FALSE,
                                 cites |-> {}, review |-> outcome])
       ELSE attributions' = [attributions EXCEPT ![row][n].review = outcome]
    /\ cases' = [cases EXCEPT ![row].status = "reviewed"]
    /\ UNCHANGED <<job, skillVars, matchVars>>

-----------------------------------------------------------------------------
(* The skill registry.                                                     *)

\* expire_due: versions first, then the review windows, then the served skills
\* left without a live version. It runs before every list, get and match load,
\* hence after every transition, whose reply is read back.
ExpireDue(s, k) ==
    LET version == IF lapsed[s] = 2 /\ k.version \in {"PENDING_REVIEW", "APPROVED"} \cup Served
                   THEN "EXPIRED" ELSE k.version
        live == version \in {"APPROVED"} \cup Served /\ lapsed[s] < 2
        late == \/ k.status \in {"CANDIDATE", "PENDING_REVIEW"} /\ lapsed[s] >= 1
                \/ k.status \in Served /\ ~live
    IN  [k EXCEPT !.version = version, !.status = IF late THEN "EXPIRED" ELSE @]

Due(skills) == [s \in Skills |-> ExpireDue(s, skills[s])]

\* The failures of a cluster, and their distinct origins.
Cluster(cluster) ==
    {row \in Rows : cases[row].status # "absent" /\ cases[row].cluster = cluster}

Sources(cluster) == {row.source : row \in Cluster(cluster)}

\* Mutant: the rows of the cluster are counted, not their origins.
MutEnoughEvidence(cluster) == Cardinality(Cluster(cluster)) >= Threshold

EnoughEvidence(cluster) == Cardinality(Sources(cluster)) >= Threshold

\* What validate_skill_definition leaves to the caller of build_skill_candidate.
ValidDefinition(c) ==
    /\ Cardinality(c.keywords) \in 1 .. 32
    /\ c.policy \in {"conversational_response", "graceful_unsupported",
                     "safety_deescalation"}
    /\ ~c.dangerous

\* generate_from_cluster and create_candidate; the hash of the definition is
\* unique over all versions.
CreateCandidate(s, c) ==
    LET body == <<c.keywords, c.policy, c.scope, c.cluster>> IN
    /\ skill[s].status = "absent"
    /\ c.offline /\ c.safety
    /\ c.scope[1] = "global" => c.project_safety
    /\ ValidDefinition(c)
    /\ EnoughEvidence(c.cluster)
    /\ \A t \in Skills : skill[t].body # body
    /\ skill' = Due([skill EXCEPT ![s] =
           [status |-> "CANDIDATE", version |-> "PENDING_REVIEW", reviewer |-> FALSE,
            scope |-> c.scope, keywords |-> c.keywords, body |-> body,
            cluster |-> c.cluster]])
    /\ UNCHANGED <<evaluations, lapsed, poolVars, matchVars>>

SubmitForReview(s) ==
    /\ skill[s].status = "CANDIDATE"
    /\ skill' = Due([skill EXCEPT ![s].status = "PENDING_REVIEW"])
    /\ UNCHANGED <<evaluations, lapsed, poolVars, matchVars>>

\* record_evaluation: a passing gate admits no disagreement among the judges.
RecordEvaluation(s, e) ==
    /\ skill[s].status # "absent"
    /\ ~(e.gate /\ e.disagreements > 0)
    /\ evaluations' = [evaluations EXCEPT ![s] = @ \cup {e}]
    /\ UNCHANGED <<skill, lapsed, poolVars, matchVars>>

Passed(s) == \E e \in evaluations[s] :
                 e.gate /\ e.safety = "pass" /\ e.disagreements = 0

\* Mutant: a reviewer may approve what no evaluation has passed.
MutApprove(s) ==
    /\ skill[s].status = "PENDING_REVIEW"
    /\ skill' = Due([skill EXCEPT ![s] = [@ EXCEPT
           !.status = "APPROVED", !.version = "APPROVED", !.reviewer = TRUE]])
    /\ UNCHANGED <<evaluations, lapsed, poolVars, matchVars>>

Approve(s) ==
    /\ skill[s].status = "PENDING_REVIEW"
    /\ Passed(s)
    /\ skill' = Due([skill EXCEPT ![s] = [@ EXCEPT
           !.status = "APPROVED",
           !.version = IF skill[s].version = "PENDING_REVIEW" THEN "APPROVED"
                       ELSE skill[s].version,
           !.reviewer = skill[s].reviewer \/ skill[s].version = "PENDING_REVIEW"]])
    /\ UNCHANGED <<evaluations, lapsed, poolVars, matchVars>>

Reject(s) ==
    /\ skill[s].status = "PENDING_REVIEW"
    /\ skill' = Due([skill EXCEPT ![s] = [@ EXCEPT
           !.status = "REJECTED",
           !.version = IF skill[s].version \in {"PENDING_REVIEW", "APPROVED"}
                       THEN "ROLLED_BACK" ELSE skill[s].version]])
    /\ UNCHANGED <<evaluations, lapsed, poolVars, matchVars>>

\* One canary or active skill for each scope, by the partial unique index.
Canary(s) ==
    /\ skill[s].status = "APPROVED"
    /\ \A t \in Skills \ {s} :
           ~(skill[t].status \in Served /\ skill[t].scope = skill[s].scope)
    /\ skill' = Due([skill EXCEPT ![s] = [@ EXCEPT
           !.status = "CANARY",
           !.version = IF skill[s].version = "APPROVED" THEN "CANARY"
                       ELSE skill[s].version]])
    /\ UNCHANGED <<evaluations, lapsed, poolVars, matchVars>>

Rollback(s) ==
    /\ skill[s].status \in Served
    /\ skill' = Due([skill EXCEPT ![s] = [@ EXCEPT
           !.status = "ROLLED_BACK",
           !.version = IF skill[s].version \in Served THEN "ROLLED_BACK"
                       ELSE skill[s].version]])
    /\ UNCHANGED <<evaluations, lapsed, poolVars, matchVars>>

\* list and get change nothing but what has fallen due.
ListSkills ==
    /\ Due(skill) # skill
    /\ skill' = Due(skill)
    /\ UNCHANGED <<evaluations, lapsed, poolVars, matchVars>>

\* Time passes: the review deadline and then the expiry of the version.
Lapse(s) ==
    /\ skill[s].status # "absent"
    /\ lapsed[s] < 2
    /\ lapsed' = [lapsed EXCEPT ![s] = @ + 1]
    /\ UNCHANGED <<skill, evaluations, poolVars, matchVars>>

-----------------------------------------------------------------------------
(* Matching.                                                               *)

ModeStatuses == [active |-> {"ACTIVE", "CANARY"}, canary |-> {"CANARY"},
                 shadow |-> {"APPROVED", "CANARY", "ACTIVE"}]

\* Mutant: the version is not joined.
MutLoads(k, s) == k.status \in ModeStatuses[mode]

\* candidates_for_match
Loads(k, s) ==
    /\ k.status \in ModeStatuses[mode]
    /\ k.version = k.status
    /\ lapsed[s] < 2

\* match_skill, in percent
MatchScore(q, keywords) ==
    LET size == Cardinality(keywords)
        hits == Cardinality(keywords \cap Text[q])
        score == (100 * hits) \div (IF size < 8 THEN size ELSE 8)
    IN  IF score > 100 THEN 100 ELSE score

ScopeMatches(q, scope) ==
    \/ scope[1] = "global"
    \/ scope[1] = "route" /\ scope[2] = Route[q]
    \/ scope[1] = "tenant" /\ scope[2] = "demo"

ScopeRank == [route |-> 0, tenant |-> 1, global |-> 2]

\* select_skill: the highest score, then the narrowest scope; ids, which are
\* random, break the ties.
Selected(q, skills) ==
    LET options == {s \in Skills : /\ Loads(skills[s], s)
                                   /\ ScopeMatches(q, skills[s].scope)
                                   /\ MatchScore(q, skills[s].keywords) >= MinimumScore}
        Key(s) == 10 * MatchScore(q, skills[s].keywords) - ScopeRank[skills[s].scope[1]]
    IN  {s \in options : \A t \in options : Key(s) >= Key(t)}

SetMatchingEnabled(value) ==
    /\ enabled # value
    /\ enabled' = value
    /\ UNCHANGED <<mode, request, matches, poolVars, skillVars>>

\* The executor reads the kill switch; a failed read forbids matching.
ReadSwitch(q) ==
    /\ request[q].pc = "routed"
    /\ \E read \in {enabled, FALSE} :
           request' = [request EXCEPT ![q].pc = "asked", ![q].permitted = read]
    /\ UNCHANGED <<enabled, mode, matches, poolVars, skillVars>>

\* ... and matches when it was permitted to. A load that fails is a miss.
MatchRouted(q) ==
    /\ request[q].pc = "asked"
    /\ \/ \E s \in Selected(q, Due(skill)) :
              /\ request[q].permitted
              /\ skill' = Due(skill)
              /\ request' = [request EXCEPT ![q].pc = "record", ![q].found = s,
                                            ![q].strategy = s]
       \/ /\ \/ /\ request[q].permitted /\ Selected(q, Due(skill)) = {}
                /\ skill' = Due(skill)
             \/ skill' = skill
          /\ request' = [request EXCEPT ![q].pc = "readonly"]
    /\ UNCHANGED <<evaluations, lapsed, enabled, mode, matches, poolVars>>

\* record_match, whose failure is swallowed after the routed state was updated.
RecordMatch(q) ==
    /\ request[q].pc = "record"
    /\ matches' \in {matches, matches \cup {<<q, request[q].found>>}}
    /\ request' = [request EXCEPT ![q].pc = "readonly"]
    /\ UNCHANGED <<enabled, mode, poolVars, skillVars>>

\* execute_readonly_run keeps a skill already in the state, whose strategy it
\* uses unless it runs in shadow mode or an exception drops it.
KeepMatch(q) ==
    /\ request[q].pc = "readonly"
    /\ request[q].found # None
    /\ \E strategy \in {None, IF mode = "shadow" THEN None ELSE request[q].strategy} :
           request' = [request EXCEPT ![q].pc = "done", ![q].strategy = strategy]
    /\ UNCHANGED <<enabled, mode, matches, poolVars, skillVars>>

\* Without one it asks the registry, and not the kill switch; a match that
\* cannot be recorded stays in the state and lends no strategy.
MatchReadonly(q) ==
    /\ request[q].pc = "readonly"
    /\ request[q].found = None
    /\ \/ \E s \in Selected(q, Due(skill)), recorded \in BOOLEAN :
              /\ skill' = Due(skill)
              /\ matches' = IF recorded THEN matches \cup {<<q, s>>} ELSE matches
              /\ request' = [request EXCEPT ![q].pc = "done", ![q].found = s,
                     ![q].strategy = IF recorded /\ mode # "shadow" THEN s ELSE None]
       \/ /\ \/ skill' = Due(skill) /\ Selected(q, Due(skill)) = {}
             \/ skill' = skill
          /\ request' = [request EXCEPT ![q].pc = "done"]
          /\ UNCHANGED matches
    /\ UNCHANGED <<evaluations, lapsed, enabled, mode, poolVars>>

-----------------------------------------------------------------------------
Next ==
    \/ \E w \in Workers :
          \/ \E r \in RunSources : Downvote(w, r) \/ \E o \in Outcomes : RunEnds(w, r, o)
          \/ \E c \in EvalCases : EvalEnds(w, c)
          \/ RecordSignal(w) \/ Attribute(w) \/ JobLost(w)
          \/ \E row \in Rows : Reanalyze(w, row)
    \/ \E row \in Rows, outcome \in Decided : Review(row, outcome)
    \/ \E s \in Skills :
          \/ \E c \in Creations : CreateCandidate(s, c)
          \/ \E e \in Verdicts : RecordEvaluation(s, e)
          \/ SubmitForReview(s) \/ Approve(s) \/ Reject(s) \/ Canary(s) \/ Rollback(s)
          \/ Lapse(s)
    \/ ListSkills
    \/ \E value \in BOOLEAN : SetMatchingEnabled(value)
    \/ \E q \in Requests :
          ReadSwitch(q) \/ MatchRouted(q) \/ RecordMatch(q) \/ KeepMatch(q)
          \/ MatchReadonly(q)

Spec == Init /\ [][Next]_vars

-----------------------------------------------------------------------------
(* Properties.                                                             *)

\* An attribution, once appended, keeps its automatic part for good, and a
\* human decision on it is never turned back to pending by a later signal, a
\* replayed feedback or a reanalysis (review_attribution: automatic fields are
\* preserved; _append_attribution only inserts).
DecisionsSurvive ==
    [][\A row \in Rows : \A i \in DOMAIN attributions[row] :
           /\ i \in DOMAIN attributions'[row]
           /\ [attributions'[row][i] EXCEPT !.review = "pending"]
                 = [attributions[row][i] EXCEPT !.review = "pending"]
           /\ attributions[row][i].review \in Decided =>
                 attributions'[row][i].review \in Decided]_vars

\* A skill rests on the failures of at least Threshold different runs or
\* evaluation cases: repeated signals of one run, and repeated evaluations of
\* one case, do not add up to evidence (create_candidate, record_signal).
IndependentEvidence ==
    \A s \in Skills : skill[s].status # "absent" =>
        \E origins \in SUBSET (RunSources \cup EvalCases) :
            /\ Cardinality(origins) = Threshold
            /\ \A o \in origins : \E row \in Cluster(skill[s].cluster) : row.source = o

\* A skill that any request ever matched had passed an evaluation without
\* disagreement and had been approved by a reviewer, in every match mode and
\* through either matching place (approve, candidates_for_match).
VettedBeforeUse ==
    \A q \in Requests, s \in Skills :
        request[q].found = s => Passed(s) /\ skill[s].reviewer

\* A request never newly matches a skill that was rejected, rolled back or
\* expired, nor one whose version has expired although no sweep has noticed:
\* an approval given after the deadline serves nobody (candidates_for_match,
\* expire_due).
MatchesLiveVersion ==
    [][\A q \in Requests : LET s == request'[q].found IN
           request[q].found # s =>
               /\ skill[s].status \notin Terminal
               /\ skill'[s].status \in ModeStatuses[mode]
               /\ lapsed[s] < 2]_vars

\* Every match belongs to a request that had read the kill switch as enabled:
\* "The runtime reads this value before every registry match" (main.py,
\* set_skill_kill_switch). execute_readonly_run matches without reading it.
KillSwitchStops ==
    \A q \in Requests : request[q].found # None => request[q].permitted
=============================================================================
