------------------------- MODULE SkillEvolutionProofs -------------------------
(***************************************************************************)
(* Skill evolution for any finite set of sources, any events, skills,      *)
(* requests and workers: human decisions survive the automatic             *)
(* attributions, a skill rests on independent evidence, and whatever a     *)
(* request matches was vetted and is alive.                                *)
(***************************************************************************)
EXTENDS SkillEvolution, FiniteSetTheorems, SequenceTheorems, TLAPS

-------------------------------------------------------------------------------
(***************************************************************************)
(* The failure pool                                                        *)
(***************************************************************************)

SignalType == {"run_failed", "human_handoff", "expired", "low_confidence",
               "cost_exceeded", "eval_fail", "human_rejected", "user_downvote"}
Category == {"safety_error", "tool_error", "retrieval_error", "intent_error",
             "policy_error", "model_error", "response_error", "unknown"}

CaseRow == [status : {"absent", "open", "reviewed"},
            cluster : {"none", "run_signal"} \cup SignalType,
            signal : {"none"} \cup SignalType, refs : SUBSET Events]
Attribution == [category : Category, llm : BOOLEAN,
                cites : SUBSET (Events \cup Forged),
                review : {"pending"} \cup Decided]
Job == [stage : {"idle", "record", "attribute"},
        source : {"none"} \cup RunSources \cup EvalCases, left : Seq(SignalType),
        row : SUBSET Rows, tags : {{}} \cup {o.reason : o \in Outcomes},
        allowed : SUBSET Events, refs : SUBSET Events]

PoolTypeOK ==
    /\ cases \in [Rows -> CaseRow]
    /\ attributions \in [Rows -> Seq(Attribution)]
    /\ job \in [Workers -> Job]

\* A projection under way has a signal left; a recorded case has its signal,
\* and a run's case is in the one cluster of run signals.
PoolShape ==
    /\ \A w \in Workers : job[w].stage # "idle" => job[w].left # <<>>
    /\ \A row \in Rows : cases[row].status # "absent" =>
           /\ cases[row].signal \in SignalType
           /\ row.source \in RunSources => cases[row].cluster = "run_signal"

PoolInv == PoolTypeOK /\ PoolShape

\* A step of the pool: no recorded case disappears or changes its cluster.
ClusterStable ==
    \A row \in Rows : cases[row].status # "absent" =>
        cases'[row].status # "absent" /\ cases'[row].cluster = cases[row].cluster

\* What a step may do to the attributions of a case (the step of DecisionsSurvive).
DecisionsKept ==
    \A row \in Rows : \A i \in DOMAIN attributions[row] :
        /\ i \in DOMAIN attributions'[row]
        /\ [attributions'[row][i] EXCEPT !.review = "pending"]
              = [attributions[row][i] EXCEPT !.review = "pending"]
        /\ attributions[row][i].review \in Decided =>
              attributions'[row][i].review \in Decided

PoolStep == PoolInv' /\ ClusterStable /\ DecisionsKept

-------------------------------------------------------------------------------
(* Operators of the pool.                                                  *)

LEMMA OneSignal ==
    ASSUME NEW name \in SignalType
    PROVE  <<name>> \in Seq(SignalType) /\ <<>> \in Seq(SignalType) /\ <<name>> # <<>>
  OBVIOUS

\* The signals of an outcome are signals.
LEMMA RunSignals ==
    ASSUME NEW o
    PROVE  SignalsForRun(o) \in Seq(SignalType)
  <1> DEFINE S(holds, name) == IF holds THEN <<name>> ELSE <<>>
  <1>1. ASSUME NEW h, NEW name \in SignalType
        PROVE  S(h, name) \in Seq(SignalType)
    BY OneSignal
  <1>2. ASSUME NEW s \in Seq(SignalType), NEW t \in Seq(SignalType)
        PROVE  s \o t \in Seq(SignalType)
    BY ConcatProperties
  <1>3. /\ S(o.status = "failed", "run_failed") \in Seq(SignalType)
        /\ S(o.status = "waiting_human", "human_handoff") \in Seq(SignalType)
        /\ S(o.status = "expired", "expired") \in Seq(SignalType)
        /\ S("CONFIDENCE" \in o.reason, "low_confidence") \in Seq(SignalType)
        /\ S("COST" \in o.reason, "cost_exceeded") \in Seq(SignalType)
        /\ S("eval_failed" \in o.flags, "eval_fail") \in Seq(SignalType)
        /\ S("human_rejected" \in o.flags, "human_rejected") \in Seq(SignalType)
    <2>1. {"run_failed", "human_handoff", "expired", "low_confidence",
           "cost_exceeded", "eval_fail", "human_rejected"} \subseteq SignalType
      BY DEF SignalType
    <2> HIDE DEF S
    <2> QED  BY <1>1, <2>1
  <1>4. SignalsForRun(o) =
          S(o.status = "failed", "run_failed") \o
          S(o.status = "waiting_human", "human_handoff") \o
          S(o.status = "expired", "expired") \o
          S("CONFIDENCE" \in o.reason, "low_confidence") \o
          S("COST" \in o.reason, "cost_exceeded") \o
          S("eval_failed" \in o.flags, "eval_fail") \o
          S("human_rejected" \in o.flags, "human_rejected")
    BY DEF SignalsForRun
  <1> HIDE DEF S
  <1> QED  BY <1>2, <1>3, <1>4

LEMMA EvaluationSignals ==
    ASSUME NEW failed, NEW cost, NEW budget
    PROVE  SignalsForEvaluation(failed, cost, budget) \in Seq(SignalType)
  <1>1. (IF failed THEN <<"eval_fail">> ELSE <<>>) \in Seq(SignalType)
    BY OneSignal DEF SignalType
  <1>2. (IF cost # {} /\ budget # {} /\ \E c \in cost, b \in budget : b >= 0 /\ c > b
         THEN <<"cost_exceeded">> ELSE <<>>) \in Seq(SignalType)
    BY OneSignal DEF SignalType
  <1> QED  BY <1>1, <1>2, ConcatProperties DEF SignalsForEvaluation

\* Every failure has a category: the first rule that fits, or "unknown".
LEMMA CategoryTyped ==
    ASSUME NEW tags, NEW events
    PROVE  DeterministicCategory(tags, events) \in Category
  <1> DEFINE types == {EventType[e] : e \in events}
             fits == {i \in DOMAIN Taxonomy :
                        \/ Taxonomy[i].tag \in tags
                        \/ i = 2 /\ "tool" \in types
                        \/ i = 7 /\ "reply" \in types}
             Least(i) == \A k \in fits : i <= k
  <1>1. DOMAIN Taxonomy = 1..7
    BY DEF Taxonomy
  <1>2. \A i \in 1..7 : Taxonomy[i].category \in Category
    BY DEF Taxonomy, Category
  <1>3. fits \subseteq 1..7
    BY <1>1
  <1>4. CASE fits = {}
    BY <1>4 DEF DeterministicCategory, Category
  <1>5. CASE fits # {}
    <2> HIDE DEF fits
    <2>1. \E i \in fits : Least(i)
      <3>1. fits \subseteq {1, 2, 3, 4, 5, 6, 7}
        BY <1>3
      <3>2. CASE 1 \in fits
        <4>1. Least(1)
          BY <3>1, <3>2
        <4> QED  BY <3>2, <4>1
      <3>3. CASE 2 \in fits /\ {1} \cap fits = {}
        <4>1. Least(2)
          BY <3>1, <3>3
        <4> QED  BY <3>3, <4>1
      <3>4. CASE 3 \in fits /\ {1, 2} \cap fits = {}
        <4>1. Least(3)
          BY <3>1, <3>4
        <4> QED  BY <3>4, <4>1
      <3>5. CASE 4 \in fits /\ {1, 2, 3} \cap fits = {}
        <4>1. Least(4)
          BY <3>1, <3>5
        <4> QED  BY <3>5, <4>1
      <3>6. CASE 5 \in fits /\ {1, 2, 3, 4} \cap fits = {}
        <4>1. Least(5)
          BY <3>1, <3>6
        <4> QED  BY <3>6, <4>1
      <3>7. CASE 6 \in fits /\ {1, 2, 3, 4, 5} \cap fits = {}
        <4>1. Least(6)
          BY <3>1, <3>7
        <4> QED  BY <3>7, <4>1
      <3>8. CASE 7 \in fits /\ {1, 2, 3, 4, 5, 6} \cap fits = {}
        <4>1. Least(7)
          BY <3>1, <3>8
        <4> QED  BY <3>8, <4>1
      <3>9. CASE {1, 2, 3, 4, 5, 6, 7} \cap fits = {}
        BY <1>5, <3>1, <3>9
      <3> QED  BY <3>2, <3>3, <3>4, <3>5, <3>6, <3>7, <3>8, <3>9
    <2>2. (CHOOSE i \in fits : Least(i)) \in fits
      BY <2>1
    <2>3. Taxonomy[CHOOSE i \in fits : Least(i)].category \in Category
      BY <1>2, <1>3, <2>2
    <2>4. DeterministicCategory(tags, events)
            = Taxonomy[CHOOSE i \in fits : Least(i)].category
      BY <1>5 DEF DeterministicCategory, fits
    <2> QED  BY <2>3, <2>4
  <1> QED  BY <1>4, <1>5

LEMMA AttributionTyped ==
    ASSUME NEW j \in Job, NEW output \in Outputs(j.allowed)
    PROVE  PendingAttribution(j, output) \in Attribution
  <1>1. DeterministicCategory(j.tags, j.allowed) \in Category
    BY CategoryTyped
  <1>2. (IF output = {} THEN j.refs ELSE UNION output) \in SUBSET (Events \cup Forged)
    <2>1. j.refs \in SUBSET Events
      BY DEF Job
    <2>2. output = {} \/ \E c \in SUBSET (Events \cup Forged) : output = {c}
      BY DEF Outputs
    <2> QED  BY <2>1, <2>2
  <1>3. (output # {}) \in BOOLEAN
    OBVIOUS
  <1> QED  BY <1>1, <1>2, <1>3 DEF PendingAttribution, Attribution

-------------------------------------------------------------------------------
(* Every step keeps the pool.                                              *)

\* Appending leaves the earlier attributions of a case as they are.
LEMMA AppendKeeps ==
    ASSUME PoolTypeOK, NEW row \in Rows, NEW a \in Attribution, AddAttribution(row, a)
    PROVE  attributions' \in [Rows -> Seq(Attribution)] /\ DecisionsKept
  <1>1. /\ attributions[row] \in Seq(Attribution)
        /\ attributions' = [attributions EXCEPT ![row] = Append(attributions[row], a)]
    BY DEF PoolTypeOK, AddAttribution
  <1>2. /\ Append(attributions[row], a) \in Seq(Attribution)
        /\ Len(Append(attributions[row], a)) = Len(attributions[row]) + 1
        /\ \A i \in 1..Len(attributions[row]) :
              Append(attributions[row], a)[i] = attributions[row][i]
    BY <1>1, AppendProperties
  <1>3. attributions' \in [Rows -> Seq(Attribution)]
    BY <1>1, <1>2 DEF PoolTypeOK
  <1>4. ASSUME NEW r \in Rows, NEW i \in DOMAIN attributions[r]
        PROVE  i \in DOMAIN attributions'[r] /\ attributions'[r][i] = attributions[r][i]
    <2>1. CASE r # row
      BY <1>1, <2>1 DEF PoolTypeOK
    <2>2. CASE r = row
      <3>1. attributions'[row] = Append(attributions[row], a)
        BY <1>1 DEF PoolTypeOK
      <3>2. DOMAIN attributions[row] = 1..Len(attributions[row])
        BY <1>1, LenProperties
      <3>3. DOMAIN Append(attributions[row], a) = 1..(Len(attributions[row]) + 1)
        BY <1>2, LenProperties
      <3>4. Len(attributions[row]) \in Nat
        BY <1>1, LenProperties
      <3>5. i \in 1..Len(attributions[row]) /\ i \in 1..(Len(attributions[row]) + 1)
        BY <1>4, <2>2, <3>2, <3>4
      <3> QED  BY <1>2, <2>2, <3>1, <3>3, <3>5
    <2> QED  BY <2>1, <2>2
  <1> QED  BY <1>3, <1>4 DEF DecisionsKept

\* A decision lands on the latest attribution and on its review column alone.
LEMMA ReviewKeeps ==
    ASSUME PoolTypeOK, NEW row \in Rows, NEW outcome \in Decided,
           NEW n \in 1..Len(attributions[row]), n = Len(attributions[row]),
           attributions' = [attributions EXCEPT ![row][n].review = outcome]
    PROVE  attributions' \in [Rows -> Seq(Attribution)] /\ DecisionsKept
  <1> DEFINE seq == attributions[row]
             new == [seq[n] EXCEPT !.review = outcome]
  <1>1. seq \in Seq(Attribution) /\ seq[n] \in Attribution
    <2>1. seq \in Seq(Attribution)
      BY DEF PoolTypeOK
    <2> QED  BY <2>1, ElementOfSeq
  <1>2. new \in Attribution /\ new.review = outcome
    BY <1>1 DEF Attribution
  <1>3. [new EXCEPT !.review = "pending"] = [seq[n] EXCEPT !.review = "pending"]
    BY <1>1 DEF Attribution
  <1>4. attributions' = [attributions EXCEPT ![row] = [seq EXCEPT ![n] = new]]
    OBVIOUS
  <1> HIDE DEF new
  <1>5. /\ [seq EXCEPT ![n] = new] \in Seq(Attribution)
        /\ Len([seq EXCEPT ![n] = new]) = Len(seq)
        /\ \A i \in 1..Len(seq) : [seq EXCEPT ![n] = new][i] = IF i = n THEN new ELSE seq[i]
    BY <1>1, <1>2, ExceptSeq
  <1>6. attributions' \in [Rows -> Seq(Attribution)]
    BY <1>4, <1>5 DEF PoolTypeOK
  <1>7. ASSUME NEW r \in Rows, NEW i \in DOMAIN attributions[r]
        PROVE  /\ i \in DOMAIN attributions'[r]
               /\ attributions'[r][i] = attributions[r][i] \/ (r = row /\ i = n)
    <2>1. CASE r # row
      BY <1>4, <2>1 DEF PoolTypeOK
    <2>2. CASE r = row
      <3>1. attributions'[row] = [seq EXCEPT ![n] = new]
        BY <1>4 DEF PoolTypeOK
      <3>2. DOMAIN seq = 1..Len(seq) /\ DOMAIN [seq EXCEPT ![n] = new] = 1..Len(seq)
        BY <1>1, <1>5, LenProperties
      <3> QED  BY <1>5, <2>2, <3>1, <3>2
    <2> QED  BY <2>1, <2>2
  <1>8. attributions'[row][n] = new
    <2>1. attributions'[row] = [seq EXCEPT ![n] = new]
      BY <1>4 DEF PoolTypeOK
    <2> QED  BY <1>5, <2>1
  <1>9. ASSUME NEW r \in Rows, NEW i \in DOMAIN attributions[r]
        PROVE  /\ i \in DOMAIN attributions'[r]
               /\ [attributions'[r][i] EXCEPT !.review = "pending"]
                     = [attributions[r][i] EXCEPT !.review = "pending"]
               /\ attributions[r][i].review \in Decided =>
                     attributions'[r][i].review \in Decided
    <2>1. CASE attributions'[r][i] = attributions[r][i]
      BY <1>7, <2>1
    <2>2. CASE r = row /\ i = n
      BY <1>2, <1>3, <1>7, <1>8, <2>2
    <2> QED  BY <1>7, <2>1, <2>2
  <1> QED  BY <1>6, <1>9 DEF DecisionsKept

\* A step that starts, advances or drops a projection touches no row.
LEMMA JobStep ==
    ASSUME PoolInv, NEW w \in Workers, NEW j \in Job,
           j.stage # "idle" => j.left # <<>>,
           job' = [job EXCEPT ![w] = j],
           UNCHANGED <<cases, attributions>>
    PROVE  PoolStep
  <1>1. job' \in [Workers -> Job]
    BY DEF PoolInv, PoolTypeOK
  <1>2. \A v \in Workers : job'[v] = IF v = w THEN j ELSE job[v]
    BY DEF PoolInv, PoolTypeOK
  <1>3. PoolTypeOK'
    BY <1>1 DEF PoolInv, PoolTypeOK
  <1>4. PoolShape'
    BY <1>2 DEF PoolInv, PoolShape
  <1> QED  BY <1>3, <1>4 DEF PoolStep, PoolInv, ClusterStable, DecisionsKept

\* The records of job, for the provers.
LEMMA JobFields ==
    ASSUME NEW src \in {"none"} \cup RunSources \cup EvalCases,
           NEW left \in Seq(SignalType), left # <<>>,
           NEW tags \in {{}} \cup {o.reason : o \in Outcomes},
           NEW rows \in SUBSET Rows, NEW allowed \in SUBSET Events,
           NEW refs \in SUBSET Events
    PROVE  /\ Idle \in Job /\ Idle.stage = "idle"
           /\ [Idle EXCEPT !.stage = "record", !.source = src, !.left = left,
                           !.tags = tags] \in Job
           /\ [Idle EXCEPT !.stage = "record", !.source = src, !.left = left,
                           !.tags = tags].left # <<>>
           /\ [Idle EXCEPT !.stage = "record", !.source = src, !.left = left] \in Job
           /\ [Idle EXCEPT !.stage = "record", !.source = src, !.left = left].left # <<>>
           /\ [Idle EXCEPT !.stage = "attribute", !.source = src, !.left = left,
                 !.row = rows, !.allowed = allowed, !.refs = refs] \in Job
           /\ [Idle EXCEPT !.stage = "attribute", !.source = src, !.left = left,
                 !.row = rows, !.allowed = allowed, !.refs = refs].left # <<>>
  <1>1. <<>> \in Seq(SignalType)
    BY EmptySeq
  <1> QED  BY <1>1 DEF Idle, Job

LEMMA ProjectionStarts ==
    ASSUME PoolInv, NEW w \in Workers,
           \/ \E r \in RunSources : Downvote(w, r) \/ \E o \in Outcomes : RunEnds(w, r, o)
           \/ \E c \in EvalCases : EvalEnds(w, c)
    PROVE  PoolStep
  <1>1. ASSUME NEW r \in RunSources, Downvote(w, r)
        PROVE  PoolStep
    <2>1. <<"user_downvote">> \in Seq(SignalType) /\ <<"user_downvote">> # <<>>
      BY OneSignal DEF SignalType
    <2> QED  BY <1>1, <2>1, JobStep, JobFields DEF Downvote
  <1>2. ASSUME NEW r \in RunSources, NEW o \in Outcomes, RunEnds(w, r, o)
        PROVE  PoolStep
    <2>1. SignalsForRun(o) \in Seq(SignalType) /\ SignalsForRun(o) # <<>>
      BY <1>2, RunSignals DEF RunEnds
    <2> DEFINE j == [Idle EXCEPT !.stage = "record", !.source = r,
                                 !.left = SignalsForRun(o), !.tags = o.reason]
    <2>2. o.reason \in {{}} \cup {x.reason : x \in Outcomes}
      OBVIOUS
    <2>3. j \in Job /\ j.left # <<>>
      BY <2>1, <2>2, JobFields
    <2>4. job' = [job EXCEPT ![w] = j] /\ UNCHANGED <<cases, attributions>>
      BY <1>2 DEF RunEnds
    <2> HIDE DEF j
    <2> QED  BY <2>3, <2>4, JobStep
  <1>3. ASSUME NEW c \in EvalCases, EvalEnds(w, c)
        PROVE  PoolStep
    <2>1. PICK left \in Seq(SignalType) :
            /\ left # <<>>
            /\ job' = [job EXCEPT ![w] = [Idle EXCEPT
                          !.stage = "record", !.source = c, !.left = left]]
            /\ UNCHANGED <<cases, attributions>>
      BY <1>3, EvaluationSignals DEF EvalEnds
    <2> QED  BY <2>1, JobStep, JobFields
  <1> QED  BY <1>1, <1>2, <1>3

LEMMA JobLostStep ==
    ASSUME PoolInv, NEW w \in Workers, JobLost(w)
    PROVE  PoolStep
  <1>1. Idle \in Job /\ Idle.stage = "idle"
    BY EmptySeq DEF Idle, Job
  <1> QED  BY <1>1, JobStep DEF JobLost

LEMMA ReanalyzeStep ==
    ASSUME PoolInv, NEW w \in Workers, NEW row \in Rows, Reanalyze(w, row)
    PROVE  PoolStep
  <1>1. row.source \in RunSources \cup EvalCases
    BY DEF Rows
  <1>2. /\ cases[row].signal \in SignalType /\ cases[row].refs \in SUBSET Events
        /\ <<cases[row].signal>> \in Seq(SignalType) /\ <<cases[row].signal>> # <<>>
    BY OneSignal DEF Reanalyze, PoolInv, PoolShape, PoolTypeOK, CaseRow
  <1>3. PICK facts \in SUBSET Events :
          job' = [job EXCEPT ![w] = [Idle EXCEPT
                      !.stage = "attribute", !.source = row.source,
                      !.left = <<cases[row].signal>>, !.row = {row},
                      !.allowed = facts, !.refs = cases[row].refs]]
    BY DEF Reanalyze
  <1>4. {row} \in SUBSET Rows
    OBVIOUS
  <1>5. UNCHANGED <<cases, attributions>>
    BY DEF Reanalyze
  <1> QED  BY <1>1, <1>2, <1>3, <1>4, <1>5, JobStep, JobFields, ZenonT(40)

\* The row of a run keeps its cluster, and an evaluation case takes a fresh row.
LEMMA RecordSignalStep ==
    ASSUME PoolInv, NEW w \in Workers, RecordSignal(w)
    PROVE  PoolStep
  <1> DEFINE j == job[w]
  <1>1. /\ j \in Job /\ j.stage = "record" /\ j.left \in Seq(SignalType)
        /\ j.left # <<>> /\ attributions' = attributions
    BY DEF RecordSignal, PoolInv, PoolTypeOK, PoolShape, Job
  <1>2. PICK facts \in SUBSET Events, row \in TargetRows(j.source) :
          /\ cases' = [cases EXCEPT ![row] =
                [status |-> IF cases[row].status = "absent" THEN "open"
                            ELSE cases[row].status,
                 cluster |-> ClusterKey(j.source, Head(j.left)),
                 signal |-> Head(j.left), refs |-> cases[row].refs \cup facts]]
          /\ job' = [job EXCEPT ![w] = [j EXCEPT
                !.stage = "attribute", !.row = {row}, !.allowed = facts,
                !.refs = cases[row].refs \cup facts]]
    <2>1. PICK facts \in IF j.source \in RunSources THEN SUBSET Events ELSE {{}},
               row \in TargetRows(j.source) :
            /\ cases' = [cases EXCEPT ![row] =
                  [status |-> IF @.status = "absent" THEN "open" ELSE @.status,
                   cluster |-> ClusterKey(j.source, Head(j.left)),
                   signal |-> Head(j.left), refs |-> cases[row].refs \cup facts]]
            /\ job' = [job EXCEPT ![w] = [j EXCEPT
                  !.stage = "attribute", !.row = {row}, !.allowed = facts,
                  !.refs = cases[row].refs \cup facts]]
      BY DEF RecordSignal
    <2>2. facts \in SUBSET Events
      BY <2>1
    <2> QED  BY <2>1, <2>2
  <1>3. /\ row \in Rows /\ row.source = j.source
        /\ j.source \notin RunSources => cases[row].status = "absent"
    BY DEF TargetRows, Rows
  <1>4. Head(j.left) \in SignalType
    BY <1>1, HeadTailProperties
  <1>5. cases[row] \in CaseRow
    BY <1>3 DEF PoolInv, PoolTypeOK
  <1> DEFINE new == [status |-> IF cases[row].status = "absent" THEN "open"
                                ELSE cases[row].status,
                     cluster |-> ClusterKey(j.source, Head(j.left)),
                     signal |-> Head(j.left), refs |-> cases[row].refs \cup facts]
  <1>6. /\ new \in CaseRow /\ new.status # "absent" /\ new.signal \in SignalType
        /\ new.cluster = ClusterKey(j.source, Head(j.left))
    BY <1>4, <1>5 DEF CaseRow, ClusterKey
  <1>7. /\ cases' \in [Rows -> CaseRow]
        /\ \A r \in Rows : cases'[r] = IF r = row THEN new ELSE cases[r]
    BY <1>2, <1>3, <1>6 DEF PoolInv, PoolTypeOK
  <1> HIDE DEF new
  <1>8. ClusterStable
    BY <1>3, <1>6, <1>7 DEF ClusterStable, ClusterKey, PoolInv, PoolShape
  <1>9. /\ [j EXCEPT !.stage = "attribute", !.row = {row}, !.allowed = facts,
                     !.refs = cases[row].refs \cup facts] \in Job
        /\ [j EXCEPT !.stage = "attribute", !.row = {row}, !.allowed = facts,
                     !.refs = cases[row].refs \cup facts].left = j.left
    <2>1. cases[row].refs \cup facts \in SUBSET Events /\ {row} \in SUBSET Rows
      BY <1>3, <1>5 DEF CaseRow
    <2> HIDE DEF j
    <2> QED  BY <1>1, <2>1 DEF Job
  <1>10. job' \in [Workers -> Job] /\ \A v \in Workers : job'[v].stage # "idle" => job'[v].left # <<>>
    <2>1. \A v \in Workers : v # w => job'[v] = job[v]
      BY <1>2 DEF PoolInv, PoolTypeOK
    <2>2. job'[w].left = j.left /\ job' \in [Workers -> Job]
      BY <1>2, <1>9 DEF PoolInv, PoolTypeOK
    <2> QED  BY <1>1, <2>1, <2>2 DEF PoolInv, PoolShape
  <1>11. PoolTypeOK'
    BY <1>1, <1>7, <1>10 DEF PoolInv, PoolTypeOK
  <1>12. PoolShape'
    BY <1>3, <1>6, <1>7, <1>10 DEF PoolInv, PoolShape, ClusterKey
  <1>13. DecisionsKept
    BY <1>1 DEF DecisionsKept
  <1> QED  BY <1>8, <1>11, <1>12, <1>13 DEF PoolStep, PoolInv

LEMMA AttributeStep ==
    ASSUME PoolInv, NEW w \in Workers, Attribute(w)
    PROVE  PoolStep
  <1> DEFINE j == job[w]
             next == IF Len(j.left) > 1
                     THEN [Idle EXCEPT !.stage = "record", !.source = j.source,
                                       !.left = Tail(j.left), !.tags = j.tags]
                     ELSE Idle
  <1>1. /\ j \in Job /\ j.left \in Seq(SignalType) /\ j.left # <<>> /\ cases' = cases
        /\ j.source \in {"none"} \cup RunSources \cup EvalCases
        /\ j.tags \in {{}} \cup {o.reason : o \in Outcomes} /\ j.row \in SUBSET Rows
    BY DEF Attribute, PoolInv, PoolTypeOK, PoolShape, Job
  <1>2. PICK output \in Outputs(j.allowed), row \in j.row :
          AddAttribution(row, PendingAttribution(j, output))
    BY DEF Attribute
  <1>3. attributions' \in [Rows -> Seq(Attribution)] /\ DecisionsKept
    <2>1. PendingAttribution(j, output) \in Attribution
      BY <1>1, AttributionTyped
    <2> QED  BY <1>1, <1>2, <2>1, AppendKeeps DEF PoolInv
  <1>4. job' = [job EXCEPT ![w] = next]
    BY DEF Attribute
  <1>5. next \in Job /\ (next.stage # "idle" => next.left # <<>>)
    <2>1. CASE Len(j.left) > 1
      <3>1. Tail(j.left) \in Seq(SignalType) /\ Len(Tail(j.left)) = Len(j.left) - 1
        BY <1>1, HeadTailProperties
      <3>2. Tail(j.left) # <<>>
        BY <1>1, <2>1, <3>1, LenProperties, EmptySeq
      <3> QED  BY <1>1, <2>1, <3>1, <3>2, JobFields, Zenon
    <2>2. CASE ~(Len(j.left) > 1)
      BY <2>2, EmptySeq DEF Idle, Job
    <2> QED  BY <2>1, <2>2
  <1> HIDE DEF next, j
  <1>6. /\ job' \in [Workers -> Job]
        /\ \A v \in Workers : job'[v] = IF v = w THEN next ELSE job[v]
    BY <1>4, <1>5 DEF PoolInv, PoolTypeOK
  <1>7. PoolTypeOK' /\ PoolShape'
    BY <1>1, <1>3, <1>5, <1>6 DEF PoolInv, PoolTypeOK, PoolShape
  <1> QED  BY <1>1, <1>3, <1>7 DEF PoolStep, PoolInv, ClusterStable

LEMMA ReviewStep ==
    ASSUME PoolInv, NEW row \in Rows, NEW outcome \in Decided, Review(row, outcome)
    PROVE  PoolStep
  <1> DEFINE n == Len(attributions[row])
  <1>1. attributions' \in [Rows -> Seq(Attribution)] /\ DecisionsKept
    <2>1. attributions[row] \in Seq(Attribution) /\ n \in Nat
      BY LenProperties DEF PoolInv, PoolTypeOK
    <2>2. CASE n = 0
      <3>1. [category |-> "unknown", llm |-> FALSE, cites |-> {}, review |-> outcome]
              \in Attribution
        BY DEF Attribution, Category
      <3> QED  BY <2>2, <3>1, AppendKeeps DEF Review, PoolInv
    <2>3. CASE n # 0
      <3>1. n \in 1..n
        BY <2>1, <2>3
      <3> QED  BY <2>3, <3>1, ReviewKeeps DEF Review, PoolInv
    <2> QED  BY <2>2, <2>3
  <1>2. cases' = [cases EXCEPT ![row].status = "reviewed"] /\ job' = job
    BY DEF Review
  <1>3. /\ cases' \in [Rows -> CaseRow]
        /\ \A r \in Rows : r # row => cases'[r] = cases[r]
        /\ cases'[row].signal = cases[row].signal
        /\ cases'[row].cluster = cases[row].cluster
        /\ cases'[row].status = "reviewed"
    BY <1>2 DEF PoolInv, PoolTypeOK, CaseRow
  <1>4. cases[row].status # "absent"
    BY DEF Review
  <1>5. PoolTypeOK'
    BY <1>1, <1>2, <1>3 DEF PoolInv, PoolTypeOK
  <1>6. PoolShape' /\ ClusterStable
    BY <1>2, <1>3, <1>4 DEF PoolInv, PoolShape, ClusterStable
  <1> QED  BY <1>1, <1>5, <1>6 DEF PoolStep, PoolInv

\* Every step of the system keeps the pool's invariant, every recorded case in its
\* cluster and every attribution; the steps of the registry do not touch the pool.
LEMMA PoolNext ==
    ASSUME PoolInv, [Next]_vars
    PROVE  PoolStep
  <1>1. CASE UNCHANGED poolVars
    BY <1>1 DEF poolVars, PoolStep, PoolInv, PoolTypeOK, PoolShape, ClusterStable,
                DecisionsKept
  <1>2. ASSUME NEW w \in Workers,
               \/ \E r \in RunSources :
                     Downvote(w, r) \/ \E o \in Outcomes : RunEnds(w, r, o)
               \/ \E c \in EvalCases : EvalEnds(w, c)
        PROVE  PoolStep
    BY <1>2, ProjectionStarts
  <1>3. ASSUME NEW w \in Workers, RecordSignal(w) \/ Attribute(w) \/ JobLost(w)
        PROVE  PoolStep
    BY <1>3, RecordSignalStep, AttributeStep, JobLostStep
  <1>4. ASSUME NEW w \in Workers, NEW row \in Rows, Reanalyze(w, row)
        PROVE  PoolStep
    BY <1>4, ReanalyzeStep
  <1>5. ASSUME NEW row \in Rows, NEW outcome \in Decided, Review(row, outcome)
        PROVE  PoolStep
    BY <1>5, ReviewStep
  <1>6. ASSUME NEW s \in Skills,
               \/ \E c \in Creations : CreateCandidate(s, c)
               \/ \E e \in Verdicts : RecordEvaluation(s, e)
               \/ SubmitForReview(s) \/ Approve(s) \/ Reject(s) \/ Canary(s)
               \/ Rollback(s) \/ Lapse(s)
        PROVE  UNCHANGED poolVars
    BY <1>6 DEF CreateCandidate, RecordEvaluation, SubmitForReview, Approve, Reject,
       Canary, Rollback, Lapse
  <1>7. ASSUME NEW q \in Requests,
               \/ ReadSwitch(q) \/ MatchRouted(q) \/ RecordMatch(q) \/ KeepMatch(q)
               \/ MatchReadonly(q)
        PROVE  UNCHANGED poolVars
    BY <1>7 DEF ReadSwitch, MatchRouted, RecordMatch, KeepMatch, MatchReadonly
  <1>8. ASSUME ListSkills \/ \E value \in BOOLEAN : SetMatchingEnabled(value)
        PROVE  UNCHANGED poolVars
    BY <1>8 DEF ListSkills, SetMatchingEnabled
  <1>9. ASSUME UNCHANGED vars
        PROVE  UNCHANGED poolVars
    BY <1>9 DEF vars
  <1> QED
    BY <1>1, <1>2, <1>3, <1>4, <1>5, <1>6, <1>7, <1>8, <1>9 DEF Next

LEMMA PoolInit == Init => PoolInv
  <1> SUFFICES ASSUME Init
               PROVE  PoolInv
    OBVIOUS
  <1>1. NoCase \in CaseRow /\ NoCase.status = "absent"
    BY DEF NoCase, CaseRow
  <1>2. Idle \in Job /\ Idle.stage = "idle"
    BY EmptySeq DEF Idle, Job
  <1>3. <<>> \in Seq(Attribution)
    BY EmptySeq
  <1>4. PoolTypeOK
    BY <1>1, <1>2, <1>3 DEF Init, PoolTypeOK
  <1> QED  BY <1>1, <1>2, <1>4 DEF Init, PoolInv, PoolShape

LEMMA PoolInvariant == Spec => []PoolInv
  <1>1. PoolInv /\ [Next]_vars => PoolInv'
    BY PoolNext DEF PoolStep
  <1> QED  BY PoolInit, <1>1, PTL DEF Spec

\* However projections, reanalyses and reviews interleave, an attribution keeps
\* its automatic part and a human decision is never turned back to pending.
THEOREM HumanDecisionsSurvive == Spec => DecisionsSurvive
  <1>1. PoolInv /\ [Next]_vars => [DecisionsKept]_vars
    BY PoolNext DEF PoolStep
  <1> QED  BY PoolInvariant, <1>1, PTL DEF Spec, DecisionsSurvive, DecisionsKept

-------------------------------------------------------------------------------
(***************************************************************************)
(* The registry and the requests                                           *)
(***************************************************************************)

SkillStatus == {"CANDIDATE", "PENDING_REVIEW", "APPROVED"} \cup Served \cup Terminal
Reviewed == {"APPROVED"} \cup Served

SkillRow == [status : {"absent"} \cup SkillStatus, version : {"absent"} \cup SkillStatus,
             reviewer : BOOLEAN,
             scope : {<<>>} \cup {c.scope : c \in Creations},
             keywords : SUBSET Words,
             body : {<<>>} \cup
                    {<<c.keywords, c.policy, c.scope, c.cluster>> : c \in Creations},
             cluster : {"none"} \cup {c.cluster : c \in Creations}]

RequestRow == [pc : {"routed", "asked", "record", "readonly", "done"},
               permitted : BOOLEAN, found : Skills \cup {None},
               strategy : Skills \cup {None}]

SkillTypeOK ==
    /\ skill \in [Skills -> SkillRow]
    /\ evaluations \in [Skills -> SUBSET Verdicts]
    /\ lapsed \in [Skills -> 0..2]
    /\ enabled \in BOOLEAN
    /\ mode \in Modes
    /\ request \in [Requests -> RequestRow]

\* The cluster of a skill holds failures of Threshold different origins.
Backed(cluster) ==
    \E origins \in SUBSET (RunSources \cup EvalCases) :
        /\ Cardinality(origins) = Threshold
        /\ \A o \in origins : \E row \in Cluster(cluster) : row.source = o

\* The chain behind a match: it needs a reviewed version, a reviewed version
\* needs a reviewer, a reviewer needs a passed evaluation.
SkillShape ==
    \A s \in Skills :
        /\ skill[s].version \in Reviewed => skill[s].reviewer
        /\ skill[s].reviewer => Passed(s) /\ skill[s].status # "absent"
        /\ skill[s].status # "absent" => Backed(skill[s].cluster)

FoundReviewed ==
    \A q \in Requests, s \in Skills : request[q].found = s => skill[s].reviewer

SkillInv == SkillTypeOK /\ SkillShape /\ FoundReviewed

-------------------------------------------------------------------------------
(* Independent evidence.                                                   *)

\* A finite set of at least n elements has a subset of exactly n.
LEMMA SubsetOfSize ==
    ASSUME NEW S, IsFiniteSet(S), NEW n \in Nat, Cardinality(S) >= n
    PROVE  \E T \in SUBSET S : Cardinality(T) = n
  <1> DEFINE m == Cardinality(S)
  <1>1. m \in Nat /\ ExistsBijection(1..m, S)
    BY FS_CardinalityType
  <1>2. PICK f \in Bijection(1..m, S) : TRUE
    BY <1>1 DEF ExistsBijection
  <1> HIDE DEF m
  <1>3. /\ f \in [1..m -> S]
        /\ \A a, b \in 1..m : f[a] = f[b] => a = b
    BY <1>2 DEF Bijection, Injection, IsInjective
  <1> DEFINE T == {f[i] : i \in 1..n}
             g == [i \in 1..n |-> f[i]]
  <1>4. 1..n \subseteq 1..m
    BY <1>1 DEF m
  <1>5. T \in SUBSET S
    BY <1>3, <1>4
  <1>6. g \in Bijection(1..n, T)
    <2>1. g \in [1..n -> T] /\ \A a, b \in 1..n : g[a] = g[b] => a = b
      BY <1>3, <1>4
    <2>2. \A t \in T : \E i \in 1..n : g[i] = t
      OBVIOUS
    <2> QED  BY <2>1, <2>2 DEF Bijection, Injection, Surjection, IsInjective
  <1>7. ExistsBijection(1..n, T)
    BY <1>6 DEF ExistsBijection
  <1>8. IsFiniteSet(1..n) /\ Cardinality(1..n) = n
    BY FS_Interval
  <1> HIDE DEF T
  <1>9. Cardinality(T) = n
    BY <1>7, <1>8, FS_Bijection
  <1> QED  BY <1>5, <1>9

\* What the threshold of create_candidate counts.
LEMMA EvidenceBacks ==
    ASSUME NEW cluster, EnoughEvidence(cluster)
    PROVE  Backed(cluster)
  <1>1. Sources(cluster) \subseteq RunSources \cup EvalCases
    BY DEF Sources, Cluster, Rows
  <1>2. IsFiniteSet(RunSources \cup EvalCases)
    BY EvolutionAssumption, FS_Union
  <1>3. IsFiniteSet(Sources(cluster))
    BY <1>1, <1>2, FS_Subset
  <1>4. Cardinality(Sources(cluster)) >= Threshold /\ Threshold \in Nat
    BY EvolutionAssumption DEF EnoughEvidence
  <1>5. PICK origins \in SUBSET Sources(cluster) : Cardinality(origins) = Threshold
    BY <1>3, <1>4, SubsetOfSize
  <1>6. \A o \in origins : \E row \in Cluster(cluster) : row.source = o
    BY <1>5 DEF Sources
  <1> QED  BY <1>1, <1>5, <1>6 DEF Backed

\* Evidence does not go away: recorded cases keep their cluster.
LEMMA BackedStable ==
    ASSUME PoolInv, ClusterStable, NEW cluster, Backed(cluster)
    PROVE  Backed(cluster)'
  <1>1. Cluster(cluster) \subseteq Cluster(cluster)'
    BY DEF Cluster, ClusterStable
  <1> QED  BY <1>1 DEF Backed

-------------------------------------------------------------------------------
(* Every step keeps the registry.                                          *)

\* The sweep changes a status or a version only to EXPIRED.
LEMMA DueEffect ==
    ASSUME NEW K \in [Skills -> SkillRow]
    PROVE  /\ Due(K) \in [Skills -> SkillRow]
           /\ \A s \in Skills :
                 /\ Due(K)[s].reviewer = K[s].reviewer
                 /\ Due(K)[s].cluster = K[s].cluster
                 /\ Due(K)[s].version \in {K[s].version, "EXPIRED"}
                 /\ Due(K)[s].status \in {K[s].status, "EXPIRED"}
                 /\ Due(K)[s].status = "absent" <=> K[s].status = "absent"
  <1>1. ASSUME NEW s \in Skills
        PROVE  /\ ExpireDue(s, K[s]) \in SkillRow
               /\ ExpireDue(s, K[s]).reviewer = K[s].reviewer
               /\ ExpireDue(s, K[s]).cluster = K[s].cluster
               /\ ExpireDue(s, K[s]).version \in {K[s].version, "EXPIRED"}
               /\ ExpireDue(s, K[s]).status \in {K[s].status, "EXPIRED"}
               /\ ExpireDue(s, K[s]).status = "absent" <=> K[s].status = "absent"
    <2>1. K[s] \in SkillRow /\ "EXPIRED" \in SkillStatus
      BY DEF SkillStatus, Terminal
    <2> DEFINE k == K[s]
               v == IF lapsed[s] = 2
                       /\ k.version \in {"PENDING_REVIEW", "APPROVED"} \cup Served
                    THEN "EXPIRED" ELSE k.version
               live == v \in {"APPROVED"} \cup Served /\ lapsed[s] < 2
               late == \/ k.status \in {"CANDIDATE", "PENDING_REVIEW"} /\ lapsed[s] >= 1
                       \/ k.status \in Served /\ ~live
               st == IF late THEN "EXPIRED" ELSE k.status
    <2>2. ExpireDue(s, k) = [k EXCEPT !.version = v, !.status = st]
      BY <2>1 DEF ExpireDue, SkillRow
    <2>3. v \in {k.version, "EXPIRED"} /\ st \in {k.status, "EXPIRED"}
      OBVIOUS
    <2>4. st = "absent" <=> k.status = "absent"
      BY DEF Served
    <2> HIDE DEF v, st, k
    <2>5. k \in SkillRow
      BY <2>1 DEF k
    <2>6. [k EXCEPT !.version = v, !.status = st] \in SkillRow
      BY <2>1, <2>3, <2>5, ZenonT(40) DEF SkillRow
    <2>7. /\ [k EXCEPT !.version = v, !.status = st].reviewer = k.reviewer
          /\ [k EXCEPT !.version = v, !.status = st].cluster = k.cluster
          /\ [k EXCEPT !.version = v, !.status = st].version = v
          /\ [k EXCEPT !.version = v, !.status = st].status = st
      BY <2>5 DEF SkillRow
    <2> QED  BY <2>2, <2>3, <2>4, <2>6, <2>7 DEF k
  <1> QED  BY <1>1 DEF Due

\* A step of the registry that writes one skill and sweeps: the written row must
\* keep the chain, and must not drop a reviewer on whom a match may rest.
LEMMA Transition ==
    ASSUME PoolInv, SkillInv, NEW s \in Skills, NEW k \in SkillRow,
           k.status # "absent", k.version \in Reviewed => k.reviewer,
           k.reviewer => Passed(s), skill[s].reviewer => k.reviewer,
           Backed(k.cluster),
           skill' = Due([skill EXCEPT ![s] = k]),
           UNCHANGED <<evaluations, lapsed, poolVars, matchVars>>
    PROVE  SkillInv'
  <1> DEFINE K == [skill EXCEPT ![s] = k]
  <1>1. /\ K \in [Skills -> SkillRow]
        /\ \A t \in Skills : K[t] = IF t = s THEN k ELSE skill[t]
    BY DEF SkillInv, SkillTypeOK
  <1>2. /\ skill' \in [Skills -> SkillRow]
        /\ \A t \in Skills :
              /\ skill'[t].reviewer = K[t].reviewer
              /\ skill'[t].cluster = K[t].cluster
              /\ skill'[t].version \in {K[t].version, "EXPIRED"}
              /\ skill'[t].status = "absent" <=> K[t].status = "absent"
    <2>1. skill' = Due(K)
      OBVIOUS
    <2> HIDE DEF K
    <2>2. K \in [Skills -> SkillRow]
      BY <1>1
    <2>3. /\ Due(K) \in [Skills -> SkillRow]
          /\ \A t \in Skills :
                /\ Due(K)[t].reviewer = K[t].reviewer
                /\ Due(K)[t].cluster = K[t].cluster
                /\ Due(K)[t].version \in {K[t].version, "EXPIRED"}
                /\ Due(K)[t].status = "absent" <=> K[t].status = "absent"
      BY <2>2, DueEffect
    <2> QED  BY <2>1, <2>3
  <1> HIDE DEF K
  <1>3. SkillTypeOK'
    BY <1>2 DEF SkillInv, SkillTypeOK, matchVars
  <1>4. \A t \in Skills : Passed(t)' = Passed(t)
    BY DEF Passed
  <1>5. \A cluster : Backed(cluster)' = Backed(cluster)
    BY DEF Backed, Cluster, poolVars
  <1>6. "EXPIRED" \notin Reviewed
    BY DEF Reviewed, Served
  <1>7. ASSUME NEW t \in Skills
        PROVE  /\ skill'[t].version \in Reviewed => skill'[t].reviewer
               /\ skill'[t].reviewer => Passed(t)' /\ skill'[t].status # "absent"
               /\ skill'[t].status # "absent" => Backed(skill'[t].cluster)
    <2>a. /\ skill'[t].reviewer = K[t].reviewer /\ skill'[t].cluster = K[t].cluster
          /\ skill'[t].version \in Reviewed => skill'[t].version = K[t].version
          /\ skill'[t].status = "absent" <=> K[t].status = "absent"
      BY <1>2, <1>6, Zenon
    <2>1. CASE t = s
      <3>1. K[t] = k
        BY <1>1, <2>1, Zenon
      <3> QED  BY <1>4, <2>1, <2>a, <3>1, Zenon
    <2>2. CASE t # s
      <3>1. /\ K[t] = skill[t]
            /\ skill[t].version \in Reviewed => skill[t].reviewer
            /\ skill[t].reviewer => Passed(t) /\ skill[t].status # "absent"
            /\ skill[t].status # "absent" => Backed(skill[t].cluster)
        BY <1>1, <2>2 DEF SkillInv, SkillShape
      <3> QED  BY <1>4, <2>a, <3>1, Zenon
    <2> QED  BY <2>1, <2>2
  <1>8. SkillShape'
    BY <1>5, <1>7 DEF SkillShape
  <1>9. FoundReviewed'
    <2>1. ASSUME NEW t \in Skills, skill[t].reviewer PROVE skill'[t].reviewer
      <3>1. K[t].reviewer
        BY <1>1, <2>1, Zenon
      <3> QED  BY <1>2, <3>1, Zenon
    <2> QED  BY <2>1 DEF SkillInv, FoundReviewed, matchVars
  <1> QED  BY <1>3, <1>8, <1>9 DEF SkillInv

LEMMA SkillRowOf ==
    ASSUME SkillInv, NEW s \in Skills
    PROVE  /\ skill[s] \in SkillRow
           /\ skill[s].version \in Reviewed => skill[s].reviewer
           /\ skill[s].reviewer => Passed(s) /\ skill[s].status # "absent"
           /\ skill[s].status # "absent" => Backed(skill[s].cluster)
  BY DEF SkillInv, SkillTypeOK, SkillShape

\* A candidate is a new row, and no match can rest on a row that was absent.
LEMMA CreateCandidateStep ==
    ASSUME PoolInv, SkillInv, NEW s \in Skills, NEW c \in Creations, CreateCandidate(s, c)
    PROVE  SkillInv'
  <1> DEFINE body == <<c.keywords, c.policy, c.scope, c.cluster>>
             k == [status |-> "CANDIDATE", version |-> "PENDING_REVIEW",
                   reviewer |-> FALSE, scope |-> c.scope, keywords |-> c.keywords,
                   body |-> body, cluster |-> c.cluster]
  <1>1. k \in SkillRow
    <2>1. {"CANDIDATE", "PENDING_REVIEW"} \subseteq SkillStatus
      BY DEF SkillStatus
    <2>2. c.keywords \in SUBSET Words
      BY EvolutionAssumption
    <2>3. /\ c.scope \in {x.scope : x \in Creations}
          /\ c.cluster \in {x.cluster : x \in Creations}
          /\ body \in {<<x.keywords, x.policy, x.scope, x.cluster>> : x \in Creations}
      OBVIOUS
    <2>4. FALSE \in BOOLEAN
      OBVIOUS
    <2> HIDE DEF body
    <2> QED  BY <2>1, <2>2, <2>3, <2>4 DEF SkillRow
  <1>2. /\ k.status = "CANDIDATE" /\ k.version = "PENDING_REVIEW" /\ ~k.reviewer
        /\ k.cluster = c.cluster
    OBVIOUS
  <1>3. /\ skill' = Due([skill EXCEPT ![s] = k])
        /\ UNCHANGED <<evaluations, lapsed, poolVars, matchVars>>
    BY DEF CreateCandidate
  <1> HIDE DEF k
  <1>4. Backed(k.cluster)
    BY <1>2, EvidenceBacks DEF CreateCandidate
  <1>5. ~skill[s].reviewer
    BY SkillRowOf DEF CreateCandidate
  <1>6. k.version \notin Reviewed
    BY <1>2 DEF Reviewed, Served
  <1> QED  BY <1>1, <1>2, <1>3, <1>4, <1>5, <1>6, Transition

\* A transition that keeps the reviewer and takes no version into review.
LEMMA Moved ==
    ASSUME PoolInv, SkillInv, NEW s \in Skills, skill[s].status # "absent",
           NEW st \in SkillStatus, NEW v \in {"absent"} \cup SkillStatus,
           v \in Reviewed => skill[s].version \in Reviewed,
           skill' = Due([skill EXCEPT ![s] = [skill[s] EXCEPT !.status = st, !.version = v]]),
           UNCHANGED <<evaluations, lapsed, poolVars, matchVars>>
    PROVE  SkillInv'
  <1> DEFINE k == [skill[s] EXCEPT !.status = st, !.version = v]
  <1>1. skill[s] \in SkillRow
    BY SkillRowOf
  <1>2. k \in SkillRow
    BY <1>1 DEF SkillRow
  <1>3. /\ k.status = st /\ k.version = v /\ k.reviewer = skill[s].reviewer
        /\ k.cluster = skill[s].cluster
    BY <1>1 DEF SkillRow
  <1>4. st # "absent"
    BY DEF SkillStatus, Served, Terminal
  <1> HIDE DEF k
  <1>5. skill' = Due([skill EXCEPT ![s] = k])
    BY DEF k
  <1> QED  BY <1>2, <1>3, <1>4, <1>5, SkillRowOf, Transition

LEMMA LifecycleStep ==
    ASSUME PoolInv, SkillInv, NEW s \in Skills,
           SubmitForReview(s) \/ Reject(s) \/ Canary(s) \/ Rollback(s)
    PROVE  SkillInv'
  <1>1. /\ skill[s] \in SkillRow /\ skill[s].version \in {"absent"} \cup SkillStatus
        /\ skill \in [Skills -> SkillRow]
    BY SkillRowOf DEF SkillRow, SkillInv, SkillTypeOK
  <1>2. /\ {"PENDING_REVIEW", "APPROVED", "CANARY", "REJECTED", "ROLLED_BACK"}
              \subseteq SkillStatus
        /\ Reviewed = {"APPROVED", "CANARY", "ACTIVE"}
    BY DEF SkillStatus, Served, Terminal, Reviewed
  <1>3. CASE SubmitForReview(s)
    <2>1. [skill EXCEPT ![s].status = "PENDING_REVIEW"]
            = [skill EXCEPT ![s] = [skill[s] EXCEPT !.status = "PENDING_REVIEW",
                                                    !.version = skill[s].version]]
      BY <1>1 DEF SkillRow
    <2> QED  BY <1>1, <1>2, <1>3, <2>1, Moved DEF SubmitForReview
  <1>4. CASE Reject(s)
    <2> DEFINE v == IF skill[s].version \in {"PENDING_REVIEW", "APPROVED"}
                    THEN "ROLLED_BACK" ELSE skill[s].version
    <2>1. /\ v \in {"absent"} \cup SkillStatus
          /\ v \in Reviewed => skill[s].version \in Reviewed
      BY <1>1, <1>2
    <2>2. /\ skill' = Due([skill EXCEPT ![s] =
                             [skill[s] EXCEPT !.status = "REJECTED", !.version = v]])
          /\ skill[s].status # "absent"
          /\ UNCHANGED <<evaluations, lapsed, poolVars, matchVars>>
      BY <1>1, <1>4 DEF Reject
    <2> HIDE DEF v
    <2> QED  BY <1>2, <2>1, <2>2, Moved
  <1>5. CASE Canary(s)
    <2> DEFINE v == IF skill[s].version = "APPROVED" THEN "CANARY" ELSE skill[s].version
    <2>1. /\ v \in {"absent"} \cup SkillStatus
          /\ v \in Reviewed => skill[s].version \in Reviewed
      BY <1>1, <1>2
    <2>2. /\ skill' = Due([skill EXCEPT ![s] =
                             [skill[s] EXCEPT !.status = "CANARY", !.version = v]])
          /\ skill[s].status # "absent"
          /\ UNCHANGED <<evaluations, lapsed, poolVars, matchVars>>
      BY <1>1, <1>5 DEF Canary
    <2> HIDE DEF v
    <2> QED  BY <1>2, <2>1, <2>2, Moved
  <1>6. CASE Rollback(s)
    <2> DEFINE v == IF skill[s].version \in Served THEN "ROLLED_BACK"
                    ELSE skill[s].version
    <2>1. /\ v \in {"absent"} \cup SkillStatus
          /\ v \in Reviewed => skill[s].version \in Reviewed
      BY <1>1, <1>2
    <2>2. /\ skill' = Due([skill EXCEPT ![s] =
                             [skill[s] EXCEPT !.status = "ROLLED_BACK", !.version = v]])
          /\ skill[s].status # "absent"
          /\ UNCHANGED <<evaluations, lapsed, poolVars, matchVars>>
      BY <1>1, <1>6 DEF Rollback, Served
    <2> HIDE DEF v
    <2> QED  BY <1>2, <2>1, <2>2, Moved
  <1> QED  BY <1>3, <1>4, <1>5, <1>6

\* Approval is where the reviewer enters, with a passed evaluation.
LEMMA ApproveStep ==
    ASSUME PoolInv, SkillInv, NEW s \in Skills, Approve(s)
    PROVE  SkillInv'
  <1> DEFINE v == IF skill[s].version = "PENDING_REVIEW" THEN "APPROVED"
                  ELSE skill[s].version
             r == skill[s].reviewer \/ skill[s].version = "PENDING_REVIEW"
             k == [skill[s] EXCEPT !.status = "APPROVED", !.version = v, !.reviewer = r]
  <1>1. skill[s] \in SkillRow /\ skill \in [Skills -> SkillRow]
    BY SkillRowOf DEF SkillInv, SkillTypeOK
  <1>2. v \in {"absent"} \cup SkillStatus /\ "APPROVED" \in SkillStatus
    BY <1>1 DEF SkillRow, SkillStatus
  <1>3. r \in BOOLEAN
    OBVIOUS
  <1>4. v \in Reviewed => r
    BY SkillRowOf
  <1>5. skill' = Due([skill EXCEPT ![s] = k])
    BY <1>1 DEF Approve
  <1> HIDE DEF v, r
  <1>6. k \in SkillRow
    BY <1>1, <1>2, <1>3 DEF SkillRow
  <1>7. /\ k.status = "APPROVED" /\ k.version = v /\ k.reviewer = r
        /\ k.cluster = skill[s].cluster
    BY <1>1 DEF SkillRow
  <1>8. skill[s].reviewer => r
    BY DEF r
  <1>9. Passed(s) /\ skill[s].status # "absent"
    BY DEF Approve
  <1>10. Backed(skill[s].cluster)
    BY <1>9, SkillRowOf
  <1>11. UNCHANGED <<evaluations, lapsed, poolVars, matchVars>>
    BY DEF Approve
  <1> HIDE DEF k
  <1> QED
    BY <1>4, <1>5, <1>6, <1>7, <1>8, <1>9, <1>10, <1>11, Transition

\* A step that at most sweeps the registry.
LEMMA Swept ==
    ASSUME PoolInv, SkillInv, skill' \in {skill, Due(skill)},
           UNCHANGED <<evaluations, lapsed, poolVars>>
    PROVE  /\ skill' \in [Skills -> SkillRow]
           /\ SkillShape'
           /\ \A s \in Skills : skill'[s].reviewer = skill[s].reviewer
  <1>1. skill \in [Skills -> SkillRow]
    BY DEF SkillInv, SkillTypeOK
  <1>2. /\ Due(skill) \in [Skills -> SkillRow]
        /\ \A t \in Skills :
              /\ Due(skill)[t].reviewer = skill[t].reviewer
              /\ Due(skill)[t].cluster = skill[t].cluster
              /\ Due(skill)[t].version \in {skill[t].version, "EXPIRED"}
              /\ Due(skill)[t].status = "absent" <=> skill[t].status = "absent"
    BY <1>1, DueEffect
  <1>3. /\ skill' \in [Skills -> SkillRow]
        /\ \A t \in Skills :
              /\ skill'[t].reviewer = skill[t].reviewer
              /\ skill'[t].cluster = skill[t].cluster
              /\ skill'[t].version \in {skill[t].version, "EXPIRED"}
              /\ skill'[t].status = "absent" <=> skill[t].status = "absent"
    BY <1>1, <1>2
  <1>4. \A t \in Skills : Passed(t)' = Passed(t)
    BY DEF Passed
  <1>5. \A cluster : Backed(cluster)' = Backed(cluster)
    BY DEF Backed, Cluster, poolVars
  <1>6. "EXPIRED" \notin Reviewed
    BY DEF Reviewed, Served
  <1>7. ASSUME NEW t \in Skills
        PROVE  /\ skill'[t].version \in Reviewed => skill'[t].reviewer
               /\ skill'[t].reviewer => Passed(t)' /\ skill'[t].status # "absent"
               /\ skill'[t].status # "absent" => Backed(skill'[t].cluster)
    BY <1>3, <1>4, <1>6, SkillRowOf
  <1>8. SkillShape'
    BY <1>5, <1>7 DEF SkillShape
  <1> QED  BY <1>3, <1>8

\* Evaluations only accumulate.
LEMMA EvaluationStep ==
    ASSUME SkillInv, NEW s \in Skills, NEW e \in Verdicts, RecordEvaluation(s, e)
    PROVE  SkillInv'
  <1>1. /\ evaluations' = [evaluations EXCEPT ![s] = @ \cup {e}]
        /\ UNCHANGED <<skill, lapsed, poolVars, matchVars>>
    BY DEF RecordEvaluation
  <1>2. /\ evaluations' \in [Skills -> SUBSET Verdicts]
        /\ \A t \in Skills : evaluations[t] \subseteq evaluations'[t]
    BY <1>1 DEF SkillInv, SkillTypeOK
  <1>3. \A t \in Skills : Passed(t) => Passed(t)'
    BY <1>2 DEF Passed
  <1>4. \A cluster : Backed(cluster)' = Backed(cluster)
    BY <1>1 DEF Backed, Cluster, poolVars
  <1>5. SkillShape'
    BY <1>1, <1>3, <1>4 DEF SkillInv, SkillShape
  <1>6. SkillTypeOK' /\ FoundReviewed'
    BY <1>1, <1>2 DEF SkillInv, SkillTypeOK, FoundReviewed, matchVars
  <1> QED  BY <1>5, <1>6 DEF SkillInv

LEMMA LapseStep ==
    ASSUME SkillInv, NEW s \in Skills, Lapse(s)
    PROVE  SkillInv'
  <1>1. /\ lapsed[s] < 2 /\ lapsed' = [lapsed EXCEPT ![s] = @ + 1]
        /\ UNCHANGED <<skill, evaluations, poolVars, matchVars>>
    BY DEF Lapse
  <1>2. lapsed' \in [Skills -> 0..2]
    BY <1>1 DEF SkillInv, SkillTypeOK
  <1>3. \A t \in Skills : Passed(t)' = Passed(t)
    BY <1>1 DEF Passed
  <1>4. \A cluster : Backed(cluster)' = Backed(cluster)
    BY <1>1 DEF Backed, Cluster, poolVars
  <1>5. SkillShape'
    BY <1>1, <1>3, <1>4 DEF SkillInv, SkillShape
  <1>6. SkillTypeOK' /\ FoundReviewed'
    BY <1>1, <1>2 DEF SkillInv, SkillTypeOK, FoundReviewed, matchVars
  <1> QED  BY <1>5, <1>6 DEF SkillInv

LEMMA ListStep ==
    ASSUME PoolInv, SkillInv, ListSkills
    PROVE  SkillInv'
  <1>1. skill' \in {skill, Due(skill)} /\ UNCHANGED <<evaluations, lapsed, poolVars, matchVars>>
    BY DEF ListSkills
  <1>2. SkillTypeOK' /\ FoundReviewed'
    BY <1>1, Swept DEF SkillInv, SkillTypeOK, FoundReviewed, matchVars
  <1> QED  BY <1>1, <1>2, Swept DEF SkillInv

LEMMA SwitchStep ==
    ASSUME SkillInv, NEW value \in BOOLEAN, SetMatchingEnabled(value)
    PROVE  SkillInv'
  <1>1. enabled' = value /\ UNCHANGED <<mode, request, matches, poolVars, skillVars>>
    BY DEF SetMatchingEnabled
  <1>2. \A t \in Skills : Passed(t)' = Passed(t)
    BY <1>1 DEF Passed, skillVars
  <1>3. \A cluster : Backed(cluster)' = Backed(cluster)
    BY <1>1 DEF Backed, Cluster, poolVars
  <1>4. SkillShape'
    BY <1>1, <1>2, <1>3 DEF SkillInv, SkillShape, skillVars
  <1>5. SkillTypeOK' /\ FoundReviewed'
    BY <1>1 DEF SkillInv, SkillTypeOK, FoundReviewed, skillVars
  <1> QED  BY <1>4, <1>5 DEF SkillInv

\* The pool's steps leave the registry alone and take no evidence away.
LEMMA PoolKeepsRegistry ==
    ASSUME PoolInv, SkillInv, ClusterStable, UNCHANGED <<skillVars, matchVars>>
    PROVE  SkillInv'
  <1>1. \A t \in Skills : Passed(t)' = Passed(t)
    BY DEF Passed, skillVars
  <1>2. \A t \in Skills : Backed(skill[t].cluster) => Backed(skill[t].cluster)'
    <2>1. \A t \in Skills : Cluster(skill[t].cluster) \subseteq Cluster(skill[t].cluster)'
      BY DEF Cluster, ClusterStable, skillVars
    <2> QED  BY <2>1 DEF Backed
  <1>3. SkillShape'
    BY <1>1, <1>2 DEF SkillInv, SkillShape, skillVars
  <1>4. SkillTypeOK' /\ FoundReviewed'
    BY DEF SkillInv, SkillTypeOK, FoundReviewed, skillVars, matchVars
  <1> QED  BY <1>3, <1>4 DEF SkillInv

\* What a request may select: a live, reviewed version, in every mode.
LEMMA SelectedLive ==
    ASSUME SkillInv, NEW q \in Requests, NEW s \in Selected(q, Due(skill))
    PROVE  /\ s \in Skills /\ s # None /\ lapsed[s] < 2
           /\ Due(skill)[s].status \in ModeStatuses[mode]
           /\ skill[s].status \notin Terminal
           /\ skill[s].reviewer
  <1>1. s \in Skills /\ Loads(Due(skill)[s], s)
    BY DEF Selected
  <1>2. s # None
    BY <1>1, EvolutionAssumption DEF None
  <1>3. /\ Due(skill)[s].status \in ModeStatuses[mode]
        /\ Due(skill)[s].version = Due(skill)[s].status /\ lapsed[s] < 2
    BY <1>1 DEF Loads
  <1>4. ModeStatuses[mode] \subseteq Reviewed
    <2>1. mode \in {"active", "canary", "shadow"}
      BY EvolutionAssumption DEF SkillInv, SkillTypeOK
    <2> QED  BY <2>1 DEF ModeStatuses, Reviewed, Served
  <1>5. /\ skill \in [Skills -> SkillRow]
        /\ skill[s].version \in Reviewed => skill[s].reviewer
    BY <1>1, SkillRowOf DEF SkillInv, SkillTypeOK
  <1>6. /\ Due(skill)[s].version \in {skill[s].version, "EXPIRED"}
        /\ Due(skill)[s].status \in {skill[s].status, "EXPIRED"}
    BY <1>1, <1>5, DueEffect
  <1>7. "EXPIRED" \notin Reviewed /\ Reviewed \cap Terminal = {}
    BY DEF Reviewed, Served, Terminal
  <1> QED  BY <1>1, <1>2, <1>3, <1>4, <1>5, <1>6, <1>7

\* The step of MatchesLiveVersion, and what a request may be given: a skill whose
\* reviewer has approved it, or nothing new.
RequestKept ==
    /\ request' \in [Requests -> RequestRow]
    /\ \A q \in Requests : request'[q].found # request[q].found =>
           LET s == request'[q].found IN
           /\ s \in Skills /\ lapsed[s] < 2
           /\ skill[s].status \notin Terminal
           /\ skill'[s].status \in ModeStatuses[mode]
           /\ skill[s].reviewer

LEMMA RequestOf ==
    ASSUME SkillInv, NEW q \in Requests
    PROVE  request[q] \in RequestRow /\ request \in [Requests -> RequestRow]
  BY DEF SkillInv, SkillTypeOK

\* One request moves to another place with the skill it had.
LEMMA RequestMoves ==
    ASSUME SkillInv, NEW q \in Requests, NEW r \in RequestRow,
           r.found = request[q].found, request' = [request EXCEPT ![q] = r]
    PROVE  RequestKept
  <1>1. request \in [Requests -> RequestRow]
    BY RequestOf
  <1>2. /\ request' \in [Requests -> RequestRow]
        /\ \A p \in Requests : request'[p] = IF p = q THEN r ELSE request[p]
    BY <1>1
  <1> QED  BY <1>2 DEF RequestKept

\* One request is given a selected skill.
LEMMA RequestFinds ==
    ASSUME SkillInv, NEW q \in Requests, NEW s \in Selected(q, Due(skill)),
           skill' = Due(skill), NEW r \in RequestRow, r.found = s,
           request' = [request EXCEPT ![q] = r]
    PROVE  RequestKept
  <1>1. request \in [Requests -> RequestRow]
    BY RequestOf
  <1>2. /\ request' \in [Requests -> RequestRow]
        /\ \A p \in Requests : request'[p] = IF p = q THEN r ELSE request[p]
    BY <1>1
  <1>3. /\ s \in Skills /\ lapsed[s] < 2
        /\ skill'[s].status \in ModeStatuses[mode]
        /\ skill[s].status \notin Terminal /\ skill[s].reviewer
    BY SelectedLive
  <1> QED  BY <1>2, <1>3 DEF RequestKept

LEMMA ReadSwitchStep ==
    ASSUME SkillInv, NEW q \in Requests, ReadSwitch(q)
    PROVE  RequestKept
  <1>1. PICK read \in {enabled, FALSE} :
          request' = [request EXCEPT ![q].pc = "asked", ![q].permitted = read]
    BY DEF ReadSwitch
  <1>2. read \in BOOLEAN
    BY <1>1 DEF SkillInv, SkillTypeOK
  <1> DEFINE r == [request[q] EXCEPT !.pc = "asked", !.permitted = read]
  <1>3. request[q] \in RequestRow /\ request \in [Requests -> RequestRow]
    BY RequestOf
  <1>4. r \in RequestRow /\ r.found = request[q].found
    BY <1>2, <1>3 DEF RequestRow
  <1>5. request' = [request EXCEPT ![q] = r]
    BY <1>1, <1>3
  <1> HIDE DEF r
  <1> QED  BY <1>4, <1>5, RequestMoves

LEMMA MatchRoutedStep ==
    ASSUME SkillInv, NEW q \in Requests, MatchRouted(q)
    PROVE  RequestKept /\ skill' \in {skill, Due(skill)}
  <1>1. request[q] \in RequestRow /\ request \in [Requests -> RequestRow]
    BY RequestOf
  <1>2. ASSUME NEW s \in Selected(q, Due(skill)), skill' = Due(skill),
               request' = [request EXCEPT ![q].pc = "record", ![q].found = s,
                                          ![q].strategy = s]
        PROVE  RequestKept
    <2> DEFINE r == [request[q] EXCEPT !.pc = "record", !.found = s, !.strategy = s]
    <2>1. s \in Skills
      BY SelectedLive
    <2>2. r \in RequestRow /\ r.found = s
      BY <1>1, <2>1 DEF RequestRow
    <2>3. request' = [request EXCEPT ![q] = r]
      BY <1>1, <1>2
    <2> HIDE DEF r
    <2> QED  BY <1>2, <2>2, <2>3, RequestFinds
  <1>3. ASSUME request' = [request EXCEPT ![q].pc = "readonly"]
        PROVE  RequestKept
    <2> DEFINE r == [request[q] EXCEPT !.pc = "readonly"]
    <2>1. r \in RequestRow /\ r.found = request[q].found
      BY <1>1 DEF RequestRow
    <2>2. request' = [request EXCEPT ![q] = r]
      BY <1>1, <1>3
    <2> HIDE DEF r
    <2> QED  BY <2>1, <2>2, RequestMoves
  <1> QED  BY <1>2, <1>3 DEF MatchRouted

LEMMA RecordMatchStep ==
    ASSUME SkillInv, NEW q \in Requests, RecordMatch(q)
    PROVE  RequestKept
  <1> DEFINE r == [request[q] EXCEPT !.pc = "readonly"]
  <1>1. request[q] \in RequestRow /\ request \in [Requests -> RequestRow]
    BY RequestOf
  <1>2. r \in RequestRow /\ r.found = request[q].found
    BY <1>1 DEF RequestRow
  <1>3. request' = [request EXCEPT ![q] = r]
    BY <1>1 DEF RecordMatch
  <1> HIDE DEF r
  <1> QED  BY <1>2, <1>3, RequestMoves

LEMMA KeepMatchStep ==
    ASSUME SkillInv, NEW q \in Requests, KeepMatch(q)
    PROVE  RequestKept
  <1>1. request[q] \in RequestRow /\ request \in [Requests -> RequestRow]
    BY RequestOf
  <1>2. PICK strategy \in {None, IF mode = "shadow" THEN None ELSE request[q].strategy} :
          request' = [request EXCEPT ![q].pc = "done", ![q].strategy = strategy]
    BY DEF KeepMatch
  <1>3. strategy \in Skills \cup {None}
    BY <1>1, <1>2 DEF RequestRow
  <1> DEFINE r == [request[q] EXCEPT !.pc = "done", !.strategy = strategy]
  <1>4. r \in RequestRow /\ r.found = request[q].found
    BY <1>1, <1>3 DEF RequestRow
  <1>5. request' = [request EXCEPT ![q] = r]
    BY <1>1, <1>2
  <1> HIDE DEF r
  <1> QED  BY <1>4, <1>5, RequestMoves

LEMMA MatchReadonlyStep ==
    ASSUME SkillInv, NEW q \in Requests, MatchReadonly(q)
    PROVE  RequestKept /\ skill' \in {skill, Due(skill)}
  <1>1. request[q] \in RequestRow /\ request \in [Requests -> RequestRow]
    BY RequestOf
  <1>2. ASSUME NEW s \in Selected(q, Due(skill)), NEW strategy \in {s, None},
               skill' = Due(skill),
               request' = [request EXCEPT ![q].pc = "done", ![q].found = s,
                                          ![q].strategy = strategy]
        PROVE  RequestKept
    <2> DEFINE r == [request[q] EXCEPT !.pc = "done", !.found = s, !.strategy = strategy]
    <2>1. s \in Skills /\ strategy \in Skills \cup {None}
      BY SelectedLive
    <2>2. r \in RequestRow /\ r.found = s
      BY <1>1, <2>1 DEF RequestRow
    <2>3. request' = [request EXCEPT ![q] = r]
      BY <1>1, <1>2
    <2> HIDE DEF r
    <2> QED  BY <1>2, <2>2, <2>3, RequestFinds
  <1>3. ASSUME request' = [request EXCEPT ![q].pc = "done"]
        PROVE  RequestKept
    <2> DEFINE r == [request[q] EXCEPT !.pc = "done"]
    <2>1. r \in RequestRow /\ r.found = request[q].found
      BY <1>1 DEF RequestRow
    <2>2. request' = [request EXCEPT ![q] = r]
      BY <1>1, <1>3
    <2> HIDE DEF r
    <2> QED  BY <2>1, <2>2, RequestMoves
  <1>4. CASE \E s \in Selected(q, Due(skill)), recorded \in BOOLEAN :
               /\ skill' = Due(skill)
               /\ request' = [request EXCEPT ![q].pc = "done", ![q].found = s,
                     ![q].strategy = IF recorded /\ mode # "shadow" THEN s ELSE None]
    <2>1. PICK s \in Selected(q, Due(skill)), recorded \in BOOLEAN :
            /\ skill' = Due(skill)
            /\ request' = [request EXCEPT ![q].pc = "done", ![q].found = s,
                  ![q].strategy = IF recorded /\ mode # "shadow" THEN s ELSE None]
      BY <1>4
    <2>2. (IF recorded /\ mode # "shadow" THEN s ELSE None) \in {s, None}
      OBVIOUS
    <2> QED  BY <1>2, <2>1, <2>2
  <1> QED  BY <1>3, <1>4 DEF MatchReadonly

\* A request's step keeps the invariant: what it newly found has a reviewer.
LEMMA RequestStep ==
    ASSUME PoolInv, SkillInv, RequestKept, skill' \in {skill, Due(skill)},
           UNCHANGED <<evaluations, lapsed, enabled, mode, poolVars>>
    PROVE  SkillInv'
  <1>1. /\ skill' \in [Skills -> SkillRow] /\ SkillShape'
        /\ \A s \in Skills : skill'[s].reviewer = skill[s].reviewer
    BY Swept
  <1>2. SkillTypeOK'
    BY <1>1 DEF SkillInv, SkillTypeOK, RequestKept
  <1>3. FoundReviewed'
    BY <1>1 DEF SkillInv, FoundReviewed, RequestKept
  <1> QED  BY <1>1, <1>2, <1>3 DEF SkillInv

\* Every step keeps the invariant, and is the step of MatchesLiveVersion.
LEMMA RegistryNext ==
    ASSUME PoolInv, SkillInv, [Next]_vars
    PROVE  SkillInv' /\ (RequestKept \/ request' = request)
  <1>1. ClusterStable
    BY PoolNext DEF PoolStep
  <1>2. CASE UNCHANGED <<skillVars, matchVars>>
    BY <1>1, <1>2, PoolKeepsRegistry DEF matchVars
  <1>3. ASSUME NEW w \in Workers,
               \/ \E r \in RunSources :
                     Downvote(w, r) \/ \E o \in Outcomes : RunEnds(w, r, o)
               \/ \E c \in EvalCases : EvalEnds(w, c)
               \/ RecordSignal(w) \/ Attribute(w) \/ JobLost(w)
               \/ \E row \in Rows : Reanalyze(w, row)
        PROVE  UNCHANGED <<skillVars, matchVars>>
    BY <1>3 DEF Downvote, RunEnds, EvalEnds, RecordSignal, Attribute, JobLost, Reanalyze
  <1>4. ASSUME NEW row \in Rows, NEW outcome \in Decided, Review(row, outcome)
        PROVE  UNCHANGED <<skillVars, matchVars>>
    BY <1>4 DEF Review
  <1>5. ASSUME NEW s \in Skills,
               \/ \E c \in Creations : CreateCandidate(s, c)
               \/ \E e \in Verdicts : RecordEvaluation(s, e)
               \/ SubmitForReview(s) \/ Approve(s) \/ Reject(s) \/ Canary(s)
               \/ Rollback(s) \/ Lapse(s)
        PROVE  SkillInv' /\ request' = request
    <2>1. request' = request
      BY <1>5 DEF CreateCandidate, RecordEvaluation, SubmitForReview, Approve, Reject,
         Canary, Rollback, Lapse, matchVars
    <2> QED
      BY <1>5, <2>1, CreateCandidateStep, EvaluationStep, LifecycleStep, ApproveStep,
         LapseStep
  <1>6. ASSUME ListSkills
        PROVE  SkillInv' /\ request' = request
    BY <1>6, ListStep DEF ListSkills, matchVars
  <1>7. ASSUME NEW value \in BOOLEAN, SetMatchingEnabled(value)
        PROVE  SkillInv' /\ request' = request
    BY <1>7, SwitchStep DEF SetMatchingEnabled
  <1>8. ASSUME NEW q \in Requests, ReadSwitch(q) \/ RecordMatch(q) \/ KeepMatch(q)
        PROVE  SkillInv' /\ RequestKept
    <2>1. RequestKept
      BY <1>8, ReadSwitchStep, RecordMatchStep, KeepMatchStep
    <2>2. /\ skill' \in {skill, Due(skill)}
          /\ UNCHANGED <<evaluations, lapsed, enabled, mode, poolVars>>
      BY <1>8 DEF ReadSwitch, RecordMatch, KeepMatch, skillVars
    <2> QED  BY <2>1, <2>2, RequestStep
  <1>9. ASSUME NEW q \in Requests, MatchRouted(q) \/ MatchReadonly(q)
        PROVE  SkillInv' /\ RequestKept
    <2>1. RequestKept /\ skill' \in {skill, Due(skill)}
      BY <1>9, MatchRoutedStep, MatchReadonlyStep
    <2>2. UNCHANGED <<evaluations, lapsed, enabled, mode, poolVars>>
      BY <1>9 DEF MatchRouted, MatchReadonly
    <2> QED  BY <2>1, <2>2, RequestStep
  <1>10. ASSUME UNCHANGED vars
         PROVE  UNCHANGED <<skillVars, matchVars>>
    BY <1>10 DEF vars
  <1> QED
    BY <1>2, <1>3, <1>4, <1>5, <1>6, <1>7, <1>8, <1>9, <1>10 DEF Next

LEMMA RegistryInit == Init => SkillInv
  <1> SUFFICES ASSUME Init
               PROVE  SkillInv
    OBVIOUS
  <1>1. /\ NoSkill \in SkillRow /\ NoSkill.version = "absent"
        /\ NoSkill.status = "absent" /\ ~NoSkill.reviewer
    BY DEF NoSkill, SkillRow
  <1>2. /\ [pc |-> "routed", permitted |-> FALSE, found |-> None, strategy |-> None]
             \in RequestRow
        /\ None \notin Skills
    BY EvolutionAssumption DEF RequestRow, None
  <1>3. enabled \in BOOLEAN
    BY DEF Init
  <1>4. SkillTypeOK
    BY <1>1, <1>2, <1>3 DEF Init, SkillTypeOK
  <1>5. "absent" \notin Reviewed
    BY DEF Reviewed, Served
  <1>6. \A s \in Skills : skill[s] = NoSkill
    BY DEF Init
  <1>7. SkillShape
    BY <1>1, <1>5, <1>6 DEF SkillShape
  <1>8. FoundReviewed
    BY <1>2 DEF Init, FoundReviewed
  <1> QED  BY <1>4, <1>7, <1>8 DEF SkillInv

-------------------------------------------------------------------------------
(***************************************************************************)
(* Theorems of the registry                                                *)
(***************************************************************************)

\* The chain behind a match, for any skills and requests: a reviewed version has
\* a reviewer, a reviewer a passed evaluation, a skill its independent evidence.
THEOREM SkillInvariant == Spec => []SkillInv
  <1>1. PoolInv /\ SkillInv /\ [Next]_vars => SkillInv'
    BY RegistryNext
  <1> QED  BY PoolInvariant, RegistryInit, <1>1, PTL DEF Spec

\* However signals repeat, a skill rests on Threshold different origins, and goes
\* on resting on them.
THEOREM EvidenceIsIndependent == Spec => []IndependentEvidence
  <1>1. SkillInv => IndependentEvidence
    BY DEF SkillInv, SkillShape, Backed, IndependentEvidence
  <1> QED  BY SkillInvariant, <1>1, PTL

\* No request ever holds a skill that was not evaluated and approved.
THEOREM MatchedSkillsAreVetted == Spec => []VettedBeforeUse
  <1>1. SkillInv => VettedBeforeUse
    BY DEF SkillInv, SkillShape, FoundReviewed, VettedBeforeUse
  <1> QED  BY SkillInvariant, <1>1, PTL

\* No request newly matches a skill that ended, or whose version has expired.
THEOREM MatchesAreLive == Spec => MatchesLiveVersion
  <1>1. ASSUME PoolInv, SkillInv, [Next]_vars
        PROVE  [\A q \in Requests : LET s == request'[q].found IN
                   request[q].found # s =>
                       /\ skill[s].status \notin Terminal
                       /\ skill'[s].status \in ModeStatuses[mode]
                       /\ lapsed[s] < 2]_vars
    BY <1>1, RegistryNext DEF RequestKept
  <1> QED
    BY PoolInvariant, SkillInvariant, <1>1, PTL DEF Spec, MatchesLiveVersion
===============================================================================
