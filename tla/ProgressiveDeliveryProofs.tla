----------------------- MODULE ProgressiveDeliveryProofs -----------------------
(***************************************************************************)
(* Types of the release tables, the finality of a closed release, and the  *)
(* evidence a promotion rests on, for any ladder of stages and any number  *)
(* of releases, runs and schedulers.                                       *)
(***************************************************************************)
EXTENDS ProgressiveDelivery, FiniteSetTheorems, TLAPS

-------------------------------------------------------------------------------
(***************************************************************************)
(* Types                                                                   *)
(***************************************************************************)

\* Whoever holds a release, an executor that read it as the latest or a
\* scheduler that has it in hand, holds one that was created, and what is read
\* of it is a stage.
Known ==
    /\ \A rel \in Releases : status[rel] = "ACTIVE" => stage[rel] \in Stages
    /\ \A rel \in Releases : status[rel] # "absent" => since[rel] \in Stages
    /\ \A run \in Runs :
           worker[run] \in {"runtime", "record", "reruntime", "rerecord"} =>
               /\ found[run].release \in Releases
               /\ status[found[run].release] # "absent"
    /\ \A s \in Schedulers : \A rel \in due[s] : status[rel] # "absent"
    /\ \A s \in Schedulers : sched[s] \in {"publish", "advance"} =>
               /\ metrics[s].release \in Releases
               /\ status[metrics[s].release] # "absent"

TypeInv == TypeOK /\ Known

\* The ladder goes on after every stage but FULL (NEXT_STAGE).
LEMMA NextStage ==
    ASSUME NEW st \in Stages, st # "FULL"
    PROVE  Ladder[Rank(st) + 1] \in Stages
<1>1. PICK i \in 1 .. Len(Ladder) : Ladder[i] = st
  BY DEF Stages
<1>2. Rank(st) \in 1 .. Len(Ladder) /\ Ladder[Rank(st)] = st
  BY <1>1 DEF Rank
<1>3. Len(Ladder) \in Nat
  BY LadderEnds
<1>4. Rank(st) # Len(Ladder)
  BY <1>2, LadderEnds
<1>5. Rank(st) + 1 \in 1 .. Len(Ladder)
  BY <1>2, <1>3, <1>4
<1> QED
  BY <1>5 DEF Stages

\* Both ends of the ladder are stages.
LEMMA EndsAreStages == "SHADOW" \in Stages /\ "FULL" \in Stages
<1>1. Len(Ladder) \in Nat /\ Len(Ladder) > 1
  BY LadderEnds
<1>2. 1 \in 1 .. Len(Ladder) /\ Len(Ladder) \in 1 .. Len(Ladder)
  BY <1>1
<1> QED
  BY <1>2, LadderEnds DEF Stages

\* Only finitely many runs can be observed.
LEMMA Counted ==
    ASSUME NEW S \in SUBSET Runs
    PROVE  Cardinality(S) \in Nat
BY RunsFinite, FS_Subset, FS_CardinalityType

\* The empty tables are well typed.
LEMMA TypeInit == Init => TypeInv
BY DEF Init, TypeInv, TypeOK, Known, NoAssignment, NoFind, NoMetrics, Closed, Modes

\* updated_at orders releases only.
LEMMA TouchType ==
    ASSUME TypeOK, NEW rel \in Releases, Touch(rel)
    PROVE  older' \subseteq Releases \X Releases
BY DEF TypeOK, Touch

\* What the operators do to a release.
LEMMA OperateType ==
    ASSUME TypeInv, NEW rel \in Releases, Operate(rel)
    PROVE  TypeInv'
<1> USE DEF TypeInv
<1>1. CASE Create(rel)
  <2>1. older' \subseteq Releases \X Releases
    BY <1>1, TouchType DEF Create
  <2>2. TypeOK'
    BY <1>1, <2>1, EndsAreStages DEF Create, TypeOK, runVars, schedVars, Closed
  <2>3. Known'
    BY <1>1, EndsAreStages DEF Create, TypeOK, Known, runVars, schedVars
  <2> QED
    BY <2>2, <2>3
<1>2. CASE RegisterRuntime(rel)
  BY <1>2 DEF RegisterRuntime, TypeOK, Known, releaseVars, runVars, schedVars
<1>3. CASE Stop(rel)
  <2>1. older' \subseteq Releases \X Releases
    BY <1>3, TouchType DEF Stop
  <2>2. TypeOK'
    BY <1>3, <2>1 DEF Stop, TypeOK, runVars, schedVars, Closed
  <2>3. Known'
    BY <1>3 DEF Stop, TypeOK, Known, runVars, schedVars
  <2> QED
    BY <2>2, <2>3
<1> QED
  BY <1>1, <1>2, <1>3 DEF Operate

\* An assignment carries the window of a release that exists.
LEMMA RecordType ==
    ASSUME TypeInv, NEW run \in Runs, Record(run),
           worker[run] \in {"record", "rerecord"}
    PROVE  assigned' \in [Releases -> [Runs ->
               [mode : Modes \cup {"none"}, window : Stages \cup {"none"}]]]
<1> DEFINE rel == found[run].release
           Row == [mode : Modes \cup {"none"}, window : Stages \cup {"none"}]
<1>1. rel \in Releases /\ since[rel] \in Stages
  BY DEF TypeInv, Known
<1>2. Mode(run) \in Modes
  BY DEF Mode, Modes
<1>3. assigned \in [Releases -> [Runs -> Row]]
  BY DEF TypeInv, TypeOK
<1>4. (IF assigned[rel][run] = NoAssignment
       THEN [mode |-> Mode(run), window |-> since[rel]]
       ELSE assigned[rel][run]) \in Row
  BY <1>1, <1>2, <1>3
<1> QED
  BY <1>1, <1>3, <1>4 DEF Record

\* Setting one field of the record of a run.
LEMMA FieldType ==
    ASSUME NEW S, NEW A, NEW B, NEW C, NEW x \in S, NEW c \in C,
           NEW f \in [S -> [release : A, stage : B, runtime : C]]
    PROVE  [f EXCEPT ![x].runtime = c] \in [S -> [release : A, stage : B, runtime : C]]
OBVIOUS

\* What the executor does for a run.
LEMMA AssignType ==
    ASSUME TypeInv, NEW run \in Runs, Assign(run)
    PROVE  TypeInv'
<1> USE DEF TypeInv
<1>0. NoFind \in [release : Releases \cup {"none"}, stage : Stages \cup {"none"},
                  runtime : BOOLEAN]
  BY DEF NoFind
<1>1. CASE ReadRelease(run)
  <2>1. CASE LatestActive = {} /\ worker' = [worker EXCEPT ![run] = "execute"]
             /\ UNCHANGED found
    BY <1>1, <2>1 DEF ReadRelease, TypeOK, Known, releaseVars, schedVars
  <2>2. ASSUME NEW rel \in LatestActive,
               found' = [found EXCEPT ![run] =
                   [release |-> rel, stage |-> stage[rel], runtime |-> FALSE]],
               worker' = [worker EXCEPT ![run] =
                   IF @ = "release" THEN "runtime" ELSE "reruntime"]
        PROVE  TypeInv'
    <3>1. rel \in Releases /\ status[rel] = "ACTIVE" /\ stage[rel] \in Stages
      BY <2>2 DEF LatestActive, Active, Known
    <3>2. [release |-> rel, stage |-> stage[rel], runtime |-> FALSE] \in
              [release : Releases \cup {"none"}, stage : Stages \cup {"none"},
               runtime : BOOLEAN]
      BY <3>1
    <3>3. TypeOK'
      BY <1>1, <2>2, <3>2 DEF ReadRelease, TypeOK, releaseVars, schedVars
    <3>4. Known'
      BY <1>1, <2>2, <3>1 DEF ReadRelease, TypeOK, Known, releaseVars, schedVars
    <3> QED
      BY <3>3, <3>4
  <2> QED
    BY <1>1, <2>1, <2>2 DEF ReadRelease
<1>2. CASE ReadRuntime(run)
  <2>1. found[run].release \in Releases /\ status[found[run].release] # "absent"
    BY <1>2 DEF ReadRuntime, Known
  <2>3. worker' \in [Runs -> {"release", "runtime", "record", "rerelease",
                             "reruntime", "rerecord", "execute", "done"}]
    BY <1>2 DEF ReadRuntime, TypeOK
  <2>5. found' \in [Runs -> [release : Releases \cup {"none"},
                            stage : Stages \cup {"none"}, runtime : BOOLEAN]]
    <3>1. (found[run].release \in registered) \in BOOLEAN
      OBVIOUS
    <3>2. found' = [found EXCEPT ![run].runtime = found[run].release \in registered]
      BY <1>2 DEF ReadRuntime
    <3> QED
      BY <3>1, <3>2, FieldType, Zenon DEF TypeOK
  <2>6. TypeOK'
    BY <1>2, <2>3, <2>5 DEF ReadRuntime, TypeOK, releaseVars, schedVars
  <2>4. Known'
    BY <1>2, <2>1 DEF ReadRuntime, TypeOK, Known, releaseVars, schedVars
  <2> QED
    BY <2>4, <2>6
<1>3. CASE FirstRecord(run)
  <2>1. assigned' \in [Releases -> [Runs ->
            [mode : Modes \cup {"none"}, window : Stages \cup {"none"}]]]
    BY <1>3, RecordType DEF FirstRecord
  <2>2. found[run].release \in Releases
    BY <1>3 DEF FirstRecord, Known
  <2>3. served' \in [Runs -> Releases \cup {"none"}]
    BY <1>3, <2>2 DEF FirstRecord, TypeOK
  <2>4. /\ worker' \in [Runs -> {"release", "runtime", "record", "rerelease",
                                 "reruntime", "rerecord", "execute", "done"}]
        /\ worker'[run] \in {"rerelease", "execute"}
        /\ \A other \in Runs \ {run} : worker'[other] = worker[other]
    BY <1>3 DEF FirstRecord, TypeOK
  <2>5. TypeOK'
    BY <1>0, <1>3, <2>1, <2>3, <2>4 DEF FirstRecord, TypeOK, releaseVars, schedVars
  <2>6. Known'
    BY <1>3, <2>4 DEF FirstRecord, TypeOK, Known, releaseVars, schedVars
  <2> QED
    BY <2>5, <2>6
<1>4. CASE SecondRecord(run)
  <2>1. assigned' \in [Releases -> [Runs ->
            [mode : Modes \cup {"none"}, window : Stages \cup {"none"}]]]
    BY <1>4, RecordType DEF SecondRecord
  <2>2. TypeOK'
    BY <1>0, <1>4, <2>1 DEF SecondRecord, TypeOK, releaseVars, schedVars
  <2>3. Known'
    BY <1>4 DEF SecondRecord, TypeOK, Known, releaseVars, schedVars
  <2> QED
    BY <2>2, <2>3
<1>5. CASE RecordFails(run)
  BY <1>0, <1>5 DEF RecordFails, TypeOK, Known, releaseVars, schedVars
<1>6. CASE Execute(run)
  BY <1>6 DEF Execute, TypeOK, Known, releaseVars, schedVars
<1> QED
  BY <1>1, <1>2, <1>3, <1>4, <1>5, <1>6 DEF Assign

\* What evaluate_and_advance leaves in the row of the release it holds.
LEMMA AdvancedRow ==
    ASSUME TypeInv, NEW s \in Schedulers, EvaluateAndAdvance(s)
    PROVE  LET rel == metrics[s].release
           IN  /\ rel \in Releases
               /\ status' \in [Releases -> {"absent", "ACTIVE"} \cup Closed]
               /\ stage' \in [Releases -> Stages \cup {"absent", "STOPPED"}]
               /\ window' \in [Releases -> {"open", "elapsed", "none"}]
               /\ since' \in [Releases -> Stages \cup {"absent"}]
               /\ rollback' \subseteq Releases
               /\ older' \subseteq Releases \X Releases
               /\ \A other \in Releases \ {rel} :
                      /\ status'[other] = status[other]
                      /\ stage'[other] = stage[other]
                      /\ window'[other] = window[other]
                      /\ since'[other] = since[other]
               /\ status'[rel] # "absent"
               /\ status'[rel] = "ACTIVE" => stage'[rel] \in Stages
               /\ since'[rel] \in Stages
<1> DEFINE rel == metrics[s].release
<1> USE DEF TypeInv
<1>1. /\ rel \in Releases /\ status[rel] # "absent" /\ since[rel] \in Stages
      /\ status[rel] = "ACTIVE" => stage[rel] \in Stages
  BY DEF EvaluateAndAdvance, Known
<1>2. CASE Refused(rel)
  BY <1>1, <1>2 DEF EvaluateAndAdvance, TypeOK, releaseVars
<1>3. CASE ~Refused(rel)
  <2>1. older' \subseteq Releases \X Releases /\ status[rel] = "ACTIVE"
    BY <1>1, <1>3, TouchType DEF EvaluateAndAdvance, Refused
  <2>2. CASE RollBack(rel)
    BY <1>1, <2>1, <2>2 DEF RollBack, TypeOK, Closed
  <2>3. CASE Complete(rel)
    BY <1>1, <2>1, <2>3, EndsAreStages DEF Complete, TypeOK, Closed
  <2>4. CASE Promote(rel) /\ stage[rel] # "FULL"
    <3>1. Ladder[Rank(stage[rel]) + 1] \in Stages
      BY <1>1, <2>1, <2>4, NextStage
    <3> QED
      BY <1>1, <2>1, <2>4, <3>1 DEF Promote, TypeOK
  <2> QED
    BY <1>3, <2>2, <2>3, <2>4 DEF EvaluateAndAdvance
<1> QED
  BY <1>2, <1>3

\* Setting the published replies of what a scheduler measured.
LEMMA PublishedType ==
    ASSUME NEW S, NEW A, NEW B, NEW C, NEW D, NEW E, NEW x \in S, NEW n \in D,
           NEW f \in [S -> [release : A, since : B, runs : C, published : D,
                           regressed : E]]
    PROVE  [f EXCEPT ![x].published = n] \in
               [S -> [release : A, since : B, runs : C, published : D, regressed : E]]
OBVIOUS

\* What a scheduler does in one step of a round.
LEMMA TickType ==
    ASSUME TypeInv, NEW s \in Schedulers, Tick(s)
    PROVE  TypeInv'
<1> USE DEF TypeInv
<1>1. CASE StartRound(s)
  <2>1. /\ DueForEvaluation \in SUBSET Releases
        /\ \A rel \in DueForEvaluation : status[rel] # "absent"
    BY DEF DueForEvaluation
  <2> QED
    BY <1>1, <2>1 DEF StartRound, TypeOK, Known, releaseVars, runVars
<1>2. CASE MeasureRuns(s)
  <2>1. PICK rel \in due[s], slow \in BOOLEAN :
            /\ due' = [due EXCEPT ![s] = @ \ {rel}]
            /\ metrics' = [metrics EXCEPT ![s] =
                   [release |-> rel, since |-> since[rel],
                    runs |-> Cardinality(Observed(rel, since[rel])),
                    published |-> 0, regressed |-> slow]]
    BY <1>2 DEF MeasureRuns
  <2>2. rel \in Releases /\ status[rel] # "absent" /\ since[rel] \in Stages
    BY DEF TypeOK, Known
  <2>3. Cardinality(Observed(rel, since[rel])) \in Nat
    BY Counted DEF Observed
  <2>4. TypeOK'
    BY <1>2, <2>1, <2>2, <2>3 DEF MeasureRuns, TypeOK, releaseVars, runVars
  <2>5. Known'
    BY <1>2, <2>1, <2>2 DEF MeasureRuns, TypeOK, Known, releaseVars, runVars
  <2> QED
    BY <2>4, <2>5
<1>3. CASE MeasureReplies(s)
  <2>1. Cardinality(Observed(metrics[s].release, metrics[s].since) \cap answered)
            \in Nat
    BY Counted DEF Observed
  <2>2. PICK n \in Nat : metrics' = [metrics EXCEPT ![s].published = n]
    BY <1>3, <2>1 DEF MeasureReplies
  <2>3. metrics' \in [Schedulers ->
            [release : Releases \cup {"none"}, since : Stages \cup {"none"},
             runs : Nat, published : Nat, regressed : BOOLEAN]]
    BY <2>2, PublishedType, Zenon DEF TypeOK
  <2>4. TypeOK'
    BY <1>3, <2>3 DEF MeasureReplies, TypeOK, releaseVars, runVars
  <2>5. Known'
    BY <1>3, <2>2 DEF MeasureReplies, TypeOK, Known, releaseVars, runVars
  <2> QED
    BY <2>4, <2>5
<1>4. CASE EvaluateAndAdvance(s)
  <2>1. NoMetrics \in [release : Releases \cup {"none"}, since : Stages \cup {"none"},
                       runs : Nat, published : Nat, regressed : BOOLEAN]
    BY DEF NoMetrics
  <2>2. TypeOK'
    BY <1>4, <2>1, AdvancedRow DEF EvaluateAndAdvance, TypeOK, runVars
  <2>3. \A rel \in Releases : status[rel] # "absent" => status'[rel] # "absent"
    BY <1>4, AdvancedRow
  <2>4. /\ \A rel \in Releases : status'[rel] = "ACTIVE" => stage'[rel] \in Stages
        /\ \A rel \in Releases : status'[rel] # "absent" => since'[rel] \in Stages
    BY <1>4, AdvancedRow DEF Known
  <2>5. /\ worker' = worker /\ found' = found /\ due' = due
        /\ \A t \in Schedulers : sched'[t] \in {"publish", "advance"} =>
               sched'[t] = sched[t] /\ metrics'[t] = metrics[t]
    BY <1>4 DEF EvaluateAndAdvance, TypeOK, runVars
  <2>6. Known'
    BY <2>3, <2>4, <2>5 DEF Known, TypeOK
  <2> QED
    BY <2>2, <2>6
<1> QED
  BY <1>1, <1>2, <1>3, <1>4 DEF Tick

\* A window that elapses.
LEMMA ElapseType ==
    ASSUME TypeInv, NEW rel \in Releases, Elapse(rel)
    PROVE  TypeInv'
BY DEF TypeInv, Elapse, TypeOK, Known, runVars, schedVars

\* Every step keeps the types.
LEMMA TypeStep == TypeInv /\ [Next]_vars => TypeInv'
<1> SUFFICES ASSUME TypeInv, [Next]_vars PROVE TypeInv'
  OBVIOUS
<1>1. CASE UNCHANGED vars
  BY <1>1 DEF TypeInv, TypeOK, Known, vars
<1>2. CASE Next
  BY <1>2, OperateType, ElapseType, AssignType, TickType DEF Next
<1> QED
  BY <1>1, <1>2

\* The types, with what they need, hold throughout.
LEMMA TypeInvariant == Spec => []TypeInv
BY TypeInit, TypeStep, PTL DEF Spec

\* Every table, and everything an executor or a scheduler remembers between
\* two transactions, keeps its type: in particular a promotion never runs off
\* the ladder, and no assignment is recorded for a release that does not exist.
THEOREM DeliveryTypes == Spec => []TypeOK
BY TypeInvariant, PTL DEF TypeInv

-------------------------------------------------------------------------------
(***************************************************************************)
(* A closed release                                                        *)
(***************************************************************************)

\* evaluate_and_advance raises on a release that is not active, whatever the
\* list of due releases said when the round started.
LEMMA ClosedStep ==
    ASSUME TypeInv, [Next]_vars, NEW rel \in Releases, status[rel] \in Closed
    PROVE  status'[rel] = status[rel] /\ stage'[rel] = stage[rel]
<1>0. status \in [Releases -> {"absent", "ACTIVE"} \cup Closed] /\ status[rel] # "ACTIVE"
      /\ status[rel] # "absent" /\ stage \in [Releases -> Stages \cup {"absent", "STOPPED"}]
  BY DEF TypeInv, TypeOK, Closed
<1>1. CASE UNCHANGED vars
  BY <1>1 DEF vars
<1>2. ASSUME NEW r \in Releases, Operate(r) \/ Elapse(r)
      PROVE  status'[rel] = status[rel] /\ stage'[rel] = stage[rel]
  BY <1>0, <1>2 DEF Operate, Create, RegisterRuntime, Stop, Elapse, releaseVars
<1>3. ASSUME NEW run \in Runs, Assign(run)
      PROVE  status' = status /\ stage' = stage
  BY <1>3 DEF Assign, ReadRelease, ReadRuntime, FirstRecord, SecondRecord,
              RecordFails, Execute, releaseVars
<1>4. ASSUME NEW s \in Schedulers, Tick(s)
      PROVE  status'[rel] = status[rel] /\ stage'[rel] = stage[rel]
  <2>1. CASE EvaluateAndAdvance(s)
    <3>1. CASE metrics[s].release = rel
      <4>1. Refused(metrics[s].release)
        BY <1>0, <3>1 DEF Refused
      <4> QED
        BY <2>1, <4>1 DEF EvaluateAndAdvance, releaseVars
    <3>2. CASE metrics[s].release # rel
      BY <2>1, <3>2, AdvancedRow
    <3> QED
      BY <3>1, <3>2
  <2>2. CASE StartRound(s) \/ MeasureRuns(s) \/ MeasureReplies(s)
    BY <2>2 DEF StartRound, MeasureRuns, MeasureReplies, releaseVars
  <2> QED
    BY <1>4, <2>1, <2>2 DEF Tick
<1> QED
  BY <1>1, <1>2, <1>3, <1>4 DEF Next

\* A stopped or completed release is final: an evaluation that was under way
\* when an operator stopped the release, or that another scheduler got ahead
\* of, changes neither its status nor its stage.
THEOREM ClosedForGood == Spec => ClosedStays
<1>1. TypeInv /\ [Next]_vars =>
          [\A rel \in Releases :
              status[rel] \in Closed =>
                  status'[rel] = status[rel] /\ stage'[rel] = stage[rel]]_vars
  BY ClosedStep
<1> QED
  BY <1>1, TypeInvariant, PTL DEF Spec, ClosedStays

-------------------------------------------------------------------------------
(***************************************************************************)
(* The evidence of a promotion                                             *)
(***************************************************************************)

\* Until FULL the window is that of the stage.  What a scheduler measured of a
\* release may be of an earlier window, but only while the present one is open,
\* when the evaluation is refused.
WindowInv ==
    /\ \A rel \in Releases :
           status[rel] = "ACTIVE" /\ stage[rel] # "FULL" => since[rel] = stage[rel]
    /\ \A s \in Schedulers, rel \in Releases :
           /\ sched[s] \in {"publish", "advance"} /\ metrics[s].release = rel
           /\ status[rel] = "ACTIVE" /\ stage[rel] # "FULL" /\ window[rel] # "open"
           => metrics[s].since = stage[rel]

\* No release and no evaluation at first.
LEMMA WindowInit == Init => WindowInv
BY DEF Init, WindowInv

\* The row after an evaluation: unless it is refused, the release is closed, at
\* FULL, or in a window it has just opened.
LEMMA AdvancedWindow ==
    ASSUME TypeInv, NEW s \in Schedulers, EvaluateAndAdvance(s)
    PROVE  LET rel == metrics[s].release
           IN  \/ UNCHANGED releaseVars
               \/ status'[rel] # "ACTIVE"
               \/ stage'[rel] = "FULL"
               \/ window'[rel] = "open" /\ since'[rel] = stage'[rel]
<1> DEFINE rel == metrics[s].release
<1>1. rel \in Releases
  BY AdvancedRow
<1>2. CASE Refused(rel)
  BY <1>2 DEF EvaluateAndAdvance
<1>3. CASE RollBack(rel) \/ Complete(rel)
  BY <1>1, <1>3 DEF TypeInv, TypeOK, RollBack, Complete
<1>4. CASE Promote(rel)
  BY <1>1, <1>4 DEF TypeInv, TypeOK, Promote
<1> QED
  BY <1>2, <1>3, <1>4 DEF EvaluateAndAdvance

\* What a scheduler does in one step of a round.
LEMMA TickWindow ==
    ASSUME TypeInv, WindowInv, NEW s \in Schedulers, Tick(s)
    PROVE  WindowInv'
<1> USE DEF TypeInv
<1>1. CASE StartRound(s)
  BY <1>1 DEF StartRound, TypeOK, WindowInv, releaseVars
<1>2. CASE MeasureRuns(s)
  <2>1. PICK rel \in due[s], slow \in BOOLEAN :
            metrics' = [metrics EXCEPT ![s] =
                [release |-> rel, since |-> since[rel],
                 runs |-> Cardinality(Observed(rel, since[rel])),
                 published |-> 0, regressed |-> slow]]
    BY <1>2 DEF MeasureRuns
  <2>2. /\ metrics'[s].release = rel /\ metrics'[s].since = since[rel]
        /\ \A t \in Schedulers \ {s} : metrics'[t] = metrics[t] /\ sched'[t] = sched[t]
    BY <1>2, <2>1 DEF MeasureRuns, TypeOK
  <2>3. UNCHANGED <<status, stage, window, since>>
    BY <1>2 DEF MeasureRuns, releaseVars
  <2> QED
    BY <2>2, <2>3 DEF WindowInv
<1>3. CASE MeasureReplies(s)
  <2>1. UNCHANGED <<status, stage, window, since>>
    BY <1>3 DEF MeasureReplies, releaseVars
  <2>2. /\ \A t \in Schedulers : /\ metrics'[t].release = metrics[t].release
                                /\ metrics'[t].since = metrics[t].since
        /\ \A t \in Schedulers : sched'[t] \in {"publish", "advance"} =>
               sched[t] \in {"publish", "advance"}
    BY <1>3 DEF MeasureReplies, TypeOK
  <2> QED
    BY <2>1, <2>2 DEF WindowInv
<1>4. CASE EvaluateAndAdvance(s)
  <2>1. \A t \in Schedulers : sched'[t] \in {"publish", "advance"} =>
            sched'[t] = sched[t] /\ metrics'[t] = metrics[t]
    BY <1>4 DEF EvaluateAndAdvance, TypeOK
  <2>2. CASE UNCHANGED releaseVars
    BY <2>1, <2>2 DEF WindowInv, releaseVars
  <2>3. CASE ~UNCHANGED releaseVars
    BY <1>4, <2>1, <2>3, AdvancedRow, AdvancedWindow DEF WindowInv
  <2> QED
    BY <2>2, <2>3
<1> QED
  BY <1>1, <1>2, <1>3, <1>4 DEF Tick

\* Every step keeps measurements and windows together.
LEMMA WindowStep == TypeInv /\ WindowInv /\ [Next]_vars => WindowInv'
<1> SUFFICES ASSUME TypeInv, WindowInv, [Next]_vars PROVE WindowInv'
  OBVIOUS
<1>1. CASE UNCHANGED vars
  BY <1>1 DEF vars, WindowInv
<1>2. ASSUME NEW rel \in Releases, Operate(rel)
      PROVE  WindowInv'
  <2>1. CASE Create(rel)
    BY <2>1 DEF Create, TypeInv, TypeOK, WindowInv, schedVars
  <2>2. CASE RegisterRuntime(rel)
    BY <2>2 DEF RegisterRuntime, WindowInv, releaseVars, schedVars
  <2>3. CASE Stop(rel)
    BY <2>3 DEF Stop, TypeInv, TypeOK, WindowInv, schedVars
  <2> QED
    BY <1>2, <2>1, <2>2, <2>3 DEF Operate
<1>3. ASSUME NEW rel \in Releases, Elapse(rel)
      PROVE  WindowInv'
  BY <1>3 DEF Elapse, TypeInv, TypeOK, WindowInv, schedVars
<1>4. ASSUME NEW run \in Runs, Assign(run)
      PROVE  WindowInv'
  <2>1. UNCHANGED <<status, stage, window, since, sched, metrics>>
    BY <1>4 DEF Assign, ReadRelease, ReadRuntime, FirstRecord, SecondRecord,
                RecordFails, Execute, releaseVars, schedVars
  <2> QED
    BY <2>1 DEF WindowInv
<1> QED
  BY <1>1, <1>2, <1>3, <1>4, TickWindow DEF Next

\* A promotion is an evaluation that was not refused, of a release that was not
\* at FULL.
LEMMA PromotionStep ==
    ASSUME TypeInv, WindowInv, [Next]_vars, NEW s \in Schedulers,
           NEW rel \in Releases, Promotes(s, rel)
    PROVE  metrics[s].since = stage[rel]
<1>0. /\ sched \in [Schedulers -> {"idle", "next", "publish", "advance"}]
      /\ stage \in [Releases -> Stages \cup {"absent", "STOPPED"}]
  BY DEF TypeInv, TypeOK
<1>1. sched'[s] # sched[s]
  BY DEF Promotes
<1>2. EvaluateAndAdvance(s)
  <2>1. ~UNCHANGED vars
    BY <1>1 DEF vars
  <2>2. ASSUME NEW r \in Releases, Operate(r) \/ Elapse(r) PROVE FALSE
    BY <1>1, <2>2 DEF Operate, Create, RegisterRuntime, Stop, Elapse, schedVars
  <2>3. ASSUME NEW run \in Runs, Assign(run) PROVE FALSE
    BY <1>1, <2>3 DEF Assign, ReadRelease, ReadRuntime, FirstRecord, SecondRecord,
                      RecordFails, Execute, schedVars
  <2>4. ASSUME NEW t \in Schedulers, Tick(t) PROVE EvaluateAndAdvance(s)
    BY <1>0, <1>1, <2>4 DEF Promotes, Tick, StartRound, MeasureRuns,
                            MeasureReplies, EvaluateAndAdvance
  <2> QED
    BY <2>1, <2>2, <2>3, <2>4 DEF Next
<1>3. ~Refused(rel)
  BY <1>2 DEF Promotes, EvaluateAndAdvance, releaseVars
<1>4. ~RollBack(rel)
  BY <1>0, LadderEnds DEF Promotes, RollBack
<1>5. ~Complete(rel)
  BY DEF Promotes, Complete
<1>6. stage[rel] # "FULL"
  BY <1>2, <1>3, <1>4, <1>5 DEF Promotes, EvaluateAndAdvance
<1> QED
  BY <1>3, <1>6 DEF Promotes, Refused, WindowInv

\* Metrics are read in transactions of their own, before the release row is
\* locked; even so, and with any number of schedulers at work on one release,
\* each promotion rests on runs of the window of the stage it leaves.
THEOREM OwnEvidence == Spec => MeasuredInItsWindow
<1>1. Init => TypeInv /\ WindowInv
  BY TypeInit, WindowInit
<1>2. TypeInv /\ WindowInv /\ [Next]_vars => TypeInv' /\ WindowInv'
  BY TypeStep, WindowStep
<1>3. TypeInv /\ WindowInv /\ [Next]_vars =>
          [\A s \in Schedulers, rel \in Releases :
              Promotes(s, rel) => metrics[s].since = stage[rel]]_vars
  BY PromotionStep
<1> QED
  BY <1>1, <1>2, <1>3, PTL DEF Spec, MeasuredInItsWindow

-------------------------------------------------------------------------------
(***************************************************************************)
(* Who is served by a candidate                                            *)
(***************************************************************************)

\* A run observed in the SHADOW window of the release got its answer.
Shadowed(rel) ==
    \E other \in answered :
        /\ assigned[rel][other].mode = "shadow"
        /\ assigned[rel][other].window = "SHADOW"

\* What an executor holds between latest_active and record_assignment.
Holding == {"runtime", "record", "reruntime", "rerecord"}

\* The stage an executor read is never ahead of the release, and it is past
\* SHADOW only if the release has earned that.
FoundIsBehind ==
    \A run \in Runs : worker[run] \in Holding =>
        /\ found[run].stage \in Stages
        /\ found[run].stage # "SHADOW" => Shadowed(found[run].release)
        /\ status[found[run].release] = "ACTIVE" =>
             /\ Percent[found[run].stage] <= Percent[stage[found[run].release]]
             /\ stage[found[run].release] = "SHADOW" => found[run].stage = "SHADOW"

\* As long as a release is in SHADOW all its rows are shadow rows of that window.
ShadowRows ==
    \A rel \in Releases, run \in Runs :
        /\ status[rel] = "absent" => assigned[rel][run] = NoAssignment
        /\ status[rel] = "ACTIVE" /\ stage[rel] = "SHADOW" =>
             assigned[rel][run] \in
                 {NoAssignment, [mode |-> "shadow", window |-> "SHADOW"]}

\* Replies a scheduler counted were given to observed runs.
RepliesSeen ==
    \A s \in Schedulers : sched[s] = "advance" /\ metrics[s].published > 0 =>
        \E other \in answered :
            assigned[metrics[s].release][other].mode \in {"shadow", "canary"}

ExposureInv ==
    /\ FoundIsBehind /\ ShadowRows /\ RepliesSeen
    /\ \A rel \in Releases :
         status[rel] # "absent" /\ stage[rel] \in Stages \ {"SHADOW"} => Shadowed(rel)
    /\ \A run \in Runs : served[run] # "none" =>
         /\ Shadowed(served[run]) /\ run \in LowRisk
         /\ status[served[run]] # "absent"
         /\ status[served[run]] = "ACTIVE" =>
              Bucket[run] < Percent[stage[served[run]]]

\* Rows of release_assignments keep their version and answers are not taken
\* back, so that a release that was shadowed stays so.
LEMMA RowsKept ==
    ASSUME TypeInv, [Next]_vars
    PROVE  /\ answered \subseteq answered'
           /\ \A rel \in Releases, run \in Runs : assigned[rel][run] # NoAssignment =>
                  assigned'[rel][run] = assigned[rel][run]
           /\ \A rel \in Releases : Shadowed(rel) => Shadowed(rel)'
<1>1. answered \subseteq answered'
  BY DEF Next, Operate, Create, RegisterRuntime, Stop, Elapse, Assign, ReadRelease,
         ReadRuntime, FirstRecord, SecondRecord, RecordFails, Execute, Tick, StartRound,
         MeasureRuns, MeasureReplies, EvaluateAndAdvance, runVars, vars
<1>2. ASSUME NEW rel \in Releases, NEW run \in Runs, assigned[rel][run] # NoAssignment
      PROVE  assigned'[rel][run] = assigned[rel][run]
  <2>1. CASE assigned' = assigned
    BY <2>1
  <2>2. ASSUME NEW q \in Runs, Record(q)
        PROVE  assigned'[rel][run] = assigned[rel][run]
    BY <1>2, <2>2 DEF Record, TypeInv, TypeOK
  <2> QED
    BY <2>1, <2>2 DEF Next, Operate, Create, RegisterRuntime, Stop, Elapse, Assign,
         ReadRelease, ReadRuntime, FirstRecord, SecondRecord, RecordFails, Execute, Tick,
         StartRound, MeasureRuns, MeasureReplies, EvaluateAndAdvance, runVars, vars
<1>3. ASSUME NEW rel \in Releases, Shadowed(rel)
      PROVE  Shadowed(rel)'
  <2>1. PICK other \in answered : /\ assigned[rel][other].mode = "shadow"
                                  /\ assigned[rel][other].window = "SHADOW"
    BY <1>3 DEF Shadowed
  <2>2. other \in Runs /\ other \in answered' /\ assigned[rel][other] # NoAssignment
    BY <1>1, <2>1 DEF TypeInv, TypeOK, NoAssignment
  <2>3. assigned'[rel][other] = assigned[rel][other]
    BY <1>2, <2>2
  <2> QED
    BY <2>1, <2>2, <2>3 DEF Shadowed
<1> QED
  BY <1>1, <1>2, <1>3

\* A step that only adds answers to what was counted.
LEMMA RepliesKept ==
    ASSUME TypeInv, RepliesSeen, [Next]_vars,
           NEW s \in Schedulers, sched[s] = "advance", metrics'[s] = metrics[s],
           metrics[s].published > 0
    PROVE  \E other \in answered' :
               assigned'[metrics'[s].release][other].mode \in {"shadow", "canary"}
<1>1. PICK other \in answered :
          assigned[metrics[s].release][other].mode \in {"shadow", "canary"}
  BY DEF RepliesSeen
<1>2. /\ metrics[s].release \in Releases /\ other \in Runs
      /\ assigned[metrics[s].release][other] # NoAssignment
  BY <1>1 DEF TypeInv, TypeOK, Known, NoAssignment
<1> QED
  BY <1>1, <1>2, RowsKept

LEMMA ExposureInit == Init => ExposureInv
BY DEF Init, ExposureInv, FoundIsBehind, ShadowRows, RepliesSeen, Holding

LEMMA PercentType == \A st \in Stages : Percent[st] \in Nat
<1>1. Percent \in [Stages -> 0 .. 100]
  BY PercentGrows
<1> QED
  BY <1>1

\* SHADOW is not the last stage, and no stage leads back to it.
LEMMA ShadowFirst ==
    /\ "SHADOW" # "FULL"
    /\ \A st \in Stages \ {"FULL"} :
           /\ Ladder[Rank(st) + 1] # "SHADOW"
           /\ Percent[st] < Percent[Ladder[Rank(st) + 1]]
<1>1. ASSUME NEW st \in Stages \ {"FULL"}
      PROVE  /\ Ladder[Rank(st) + 1] # "SHADOW"
             /\ Percent[st] < Percent[Ladder[Rank(st) + 1]]
  <2>1. PICK i \in 1 .. Len(Ladder) : Ladder[i] = st
    BY DEF Stages
  <2>2. Rank(st) \in 1 .. Len(Ladder) /\ Ladder[Rank(st)] = st
    BY <2>1 DEF Rank
  <2>3. Len(Ladder) \in Nat /\ Rank(st) # Len(Ladder)
    BY <2>2, LadderEnds
  <2>4. Rank(st) \in 1 .. Len(Ladder) - 1 /\ Rank(st) + 1 \in 1 .. Len(Ladder)
        /\ Rank(st) + 1 # 1 /\ 1 \in 1 .. Len(Ladder)
    BY <2>2, <2>3
  <2>5. Ladder[Rank(st) + 1] # "SHADOW"
    BY <2>4, LadderEnds
  <2> QED
    BY <2>2, <2>4, <2>5, PercentGrows
<1> QED
  BY <1>1

\* Executors: reading moves nobody ahead of a release.
LEMMA ReadingExposure ==
    ASSUME TypeInv, ExposureInv, [Next]_vars, NEW run \in Runs,
           ReadRelease(run) \/ ReadRuntime(run) \/ RecordFails(run) \/ Execute(run)
    PROVE  ExposureInv'
<1>1. /\ UNCHANGED <<status, stage, since, assigned, served, sched, metrics>>
      /\ \A q \in Runs \ {run} : worker'[q] = worker[q] /\ found'[q] = found[q]
  BY DEF ReadRelease, ReadRuntime, RecordFails, Execute, releaseVars, schedVars,
         TypeInv, TypeOK
<1>2. \A rel \in Releases : Shadowed(rel) => Shadowed(rel)'
  BY RowsKept
<1>3. ASSUME worker'[run] \in Holding
      PROVE  /\ found'[run].stage \in Stages
             /\ found'[run].release \in Releases
             /\ found'[run].stage # "SHADOW" => Shadowed(found'[run].release)
             /\ status[found'[run].release] = "ACTIVE" =>
                  /\ Percent[found'[run].stage] <= Percent[stage[found'[run].release]]
                  /\ stage[found'[run].release] = "SHADOW" => found'[run].stage = "SHADOW"
  <2>1. CASE ReadRelease(run)
    <3>1. PICK rel \in LatestActive : found' = [found EXCEPT ![run] =
              [release |-> rel, stage |-> stage[rel], runtime |-> FALSE]]
      BY <1>3, <2>1 DEF ReadRelease, TypeInv, TypeOK, Holding
    <3>2. rel \in Releases /\ status[rel] = "ACTIVE" /\ stage[rel] \in Stages
      BY DEF LatestActive, Active, TypeInv, Known
    <3>3. found'[run].release = rel /\ found'[run].stage = stage[rel]
      BY <3>1 DEF TypeInv, TypeOK
    <3>4. stage[rel] # "SHADOW" => Shadowed(rel)
      BY <3>2 DEF ExposureInv
    <3>5. Percent[stage[rel]] \in Nat
      BY <3>2, PercentType
    <3> QED
      BY <3>2, <3>3, <3>4, <3>5
  <2>2. CASE ReadRuntime(run)
    <3>1. worker[run] \in Holding /\ found[run].release \in Releases
      BY <2>2 DEF ReadRuntime, Holding, TypeInv, Known
    <3>2. found'[run].release = found[run].release /\ found'[run].stage = found[run].stage
      BY <2>2 DEF ReadRuntime, TypeInv, TypeOK
    <3> QED
      BY <3>1, <3>2 DEF ExposureInv, FoundIsBehind
  <2>3. CASE RecordFails(run) \/ Execute(run)
    BY <1>3, <2>3 DEF RecordFails, Execute, TypeInv, TypeOK, Holding
  <2> QED
    BY <2>1, <2>2, <2>3
<1>4. FoundIsBehind'
  <2> SUFFICES ASSUME NEW q \in Runs, worker'[q] \in Holding
               PROVE  /\ found'[q].stage \in Stages
                      /\ found'[q].stage # "SHADOW" => Shadowed(found[q].release)'
                      /\ status'[found'[q].release] = "ACTIVE" =>
                           /\ Percent[found'[q].stage] <= Percent[stage'[found'[q].release]]
                           /\ stage'[found'[q].release] = "SHADOW" =>
                                found'[q].stage = "SHADOW"
    BY DEF FoundIsBehind, Holding
  <2>1. CASE q = run
    BY <1>1, <1>2, <1>3, <2>1
  <2>2. CASE q # run
    BY <1>1, <1>2, <2>2 DEF ExposureInv, FoundIsBehind, Holding, TypeInv, Known
  <2> QED
    BY <2>1, <2>2
<1>5. ShadowRows'
  BY <1>1 DEF ExposureInv, ShadowRows
<1>6. RepliesSeen'
  BY <1>1, RepliesKept DEF ExposureInv, RepliesSeen
<1>7. /\ \A rel \in Releases : status'[rel] # "absent" /\ stage'[rel] \in Stages \ {"SHADOW"}
              => Shadowed(rel)'
      /\ \A q \in Runs : served'[q] # "none" =>
           /\ Shadowed(served[q])' /\ q \in LowRisk
           /\ status'[served'[q]] # "absent"
           /\ status'[served'[q]] = "ACTIVE" =>
                Bucket[q] < Percent[stage'[served'[q]]]
  BY <1>1, <1>2 DEF ExposureInv, TypeInv, TypeOK
<1> QED
  BY <1>4, <1>5, <1>6, <1>7 DEF ExposureInv

\* record_assignment writes a shadow row while the release is in SHADOW, and
\* the candidate serves a run only on a stage that was read past SHADOW.
LEMMA RecordExposure ==
    ASSUME TypeInv, WindowInv, ExposureInv, [Next]_vars, NEW run \in Runs,
           FirstRecord(run) \/ SecondRecord(run)
    PROVE  ExposureInv'
<1> DEFINE rel == found[run].release
<1>0. /\ rel \in Releases /\ status[rel] # "absent" /\ worker[run] \in Holding
      /\ found[run].stage \in Stages
  BY DEF FirstRecord, SecondRecord, TypeInv, Known, Holding, ExposureInv, FoundIsBehind
<1>1. /\ UNCHANGED <<status, stage, since, sched, metrics>> /\ Record(run)
      /\ \A q \in Runs \ {run} : worker'[q] = worker[q] /\ found'[q] = found[q]
      /\ worker'[run] \notin Holding
  BY DEF FirstRecord, SecondRecord, releaseVars, schedVars, TypeInv, TypeOK, Holding
<1>2. \A r \in Releases : Shadowed(r) => Shadowed(r)'
  BY RowsKept
<1>3. FoundIsBehind'
  BY <1>1, <1>2 DEF ExposureInv, FoundIsBehind, Holding, TypeInv, Known
<1>4. ShadowRows'
  <2>1. \A r \in Releases, q \in Runs : r # rel \/ q # run =>
            assigned'[r][q] = assigned[r][q]
    BY <1>1 DEF Record, TypeInv, TypeOK
  <2>2. assigned'[rel][run] \in
            {assigned[rel][run], [mode |-> Mode(run), window |-> since[rel]]}
    BY <1>0, <1>1 DEF Record, TypeInv, TypeOK
  <2>3. ASSUME status[rel] = "ACTIVE", stage[rel] = "SHADOW"
        PROVE  Mode(run) = "shadow" /\ since[rel] = "SHADOW"
    <3>1. found[run].stage = "SHADOW"
      BY <1>0, <2>3 DEF ExposureInv, FoundIsBehind
    <3>2. since[rel] = "SHADOW"
      BY <1>0, <2>3, ShadowFirst DEF WindowInv
    <3> QED
      BY <3>1, <3>2 DEF Mode
  <2> HIDE DEF rel
  <2>4. ASSUME NEW r \in Releases, NEW q \in Runs
        PROVE  /\ status'[r] = "absent" => assigned'[r][q] = NoAssignment
               /\ status'[r] = "ACTIVE" /\ stage'[r] = "SHADOW" => assigned'[r][q] \in
                     {NoAssignment, [mode |-> "shadow", window |-> "SHADOW"]}
    <3>1. CASE r # rel \/ q # run
      BY <1>1, <2>1, <3>1 DEF ExposureInv, ShadowRows
    <3>2. CASE r = rel /\ q = run
      BY <1>0, <1>1, <2>2, <2>3, <3>2 DEF ExposureInv, ShadowRows
    <3> QED
      BY <3>1, <3>2
  <2> QED
    BY <2>4 DEF ShadowRows
<1>5. RepliesSeen'
  BY <1>1, RepliesKept DEF ExposureInv, RepliesSeen
<1>6. \A r \in Releases : status'[r] # "absent" /\ stage'[r] \in Stages \ {"SHADOW"}
          => Shadowed(r)'
  BY <1>1, <1>2 DEF ExposureInv
<1>7. ASSUME NEW q \in Runs, served'[q] # "none"
      PROVE  /\ Shadowed(served[q])' /\ q \in LowRisk
             /\ status'[served'[q]] # "absent"
             /\ status'[served'[q]] = "ACTIVE" => Bucket[q] < Percent[stage'[served'[q]]]
  <2>1. CASE served'[q] = served[q]
    <3>1. served[q] \in Releases /\ Shadowed(served[q])
      BY <1>7, <2>1 DEF TypeInv, TypeOK, ExposureInv
    <3> QED
      BY <1>1, <1>2, <1>7, <2>1, <3>1 DEF ExposureInv
  <2>2. CASE served'[q] # served[q]
    <3>1. q = run /\ served'[q] = rel /\ Mode(run) = "canary"
      BY <2>2 DEF FirstRecord, SecondRecord, TypeInv, TypeOK
    <3>2. /\ found[run].stage # "SHADOW" /\ run \in LowRisk
          /\ Bucket[run] < Percent[found[run].stage]
      BY <3>1 DEF Mode
    <3>3. Shadowed(rel)
      BY <1>0, <3>2 DEF ExposureInv, FoundIsBehind
    <3>4. status[rel] = "ACTIVE" => Percent[found[run].stage] <= Percent[stage[rel]]
      BY <1>0 DEF ExposureInv, FoundIsBehind
    <3>5. /\ Bucket[run] \in Nat /\ Percent[found[run].stage] \in Nat
          /\ status[rel] = "ACTIVE" => Percent[stage[rel]] \in Nat
      BY <1>0, PercentType, BucketsKnown DEF TypeInv, Known
    <3>6. status[rel] = "ACTIVE" => Bucket[run] < Percent[stage[rel]]
      BY <3>2, <3>4, <3>5
    <3> HIDE DEF rel
    <3> QED
      BY <1>0, <1>1, <1>2, <3>1, <3>2, <3>3, <3>6
  <2> QED
    BY <2>1, <2>2
<1> QED
  BY <1>3, <1>4, <1>5, <1>6, <1>7 DEF ExposureInv

\* A release that passes an evaluation in SHADOW was shadowed: a reply that was
\* counted went to one of its rows, and so far all of those are shadow rows.
LEMMA PassedShadow ==
    ASSUME TypeInv, ExposureInv, NEW s \in Schedulers, sched[s] = "advance",
           status[metrics[s].release] = "ACTIVE", stage[metrics[s].release] \in Stages,
           Healthy(metrics[s])
    PROVE  Shadowed(metrics[s].release)
<1> DEFINE rel == metrics[s].release
<1>1. rel \in Releases
  BY DEF TypeInv, Known
<1>2. CASE stage[rel] # "SHADOW"
  BY <1>1, <1>2 DEF ExposureInv
<1>3. CASE stage[rel] = "SHADOW"
  <2>1. metrics[s].published > 0
    BY DEF Healthy, TypeInv, TypeOK
  <2>2. PICK other \in answered : assigned[rel][other].mode \in {"shadow", "canary"}
    BY <2>1 DEF ExposureInv, RepliesSeen
  <2>3. assigned[rel][other] \in
            {NoAssignment, [mode |-> "shadow", window |-> "SHADOW"]}
    BY <1>1, <1>3 DEF ExposureInv, ShadowRows, TypeInv, TypeOK
  <2>4. assigned[rel][other] = [mode |-> "shadow", window |-> "SHADOW"]
    BY <2>2, <2>3 DEF NoAssignment
  <2> QED
    BY <2>4 DEF Shadowed
<1> QED
  BY <1>2, <1>3

\* The row of the release after an evaluation, as far as runs are concerned.
LEMMA AdvancedShare ==
    ASSUME TypeInv, ExposureInv, NEW s \in Schedulers, EvaluateAndAdvance(s)
    PROVE  LET rel == metrics[s].release
           IN  \/ status'[rel] = status[rel] /\ stage'[rel] = stage[rel]
               \/ status'[rel] = "COMPLETED" /\ stage'[rel] = stage[rel]
                  /\ status[rel] # "absent"
               \/ status'[rel] = "STOPPED" /\ stage'[rel] = "STOPPED"
               \/ /\ status[rel] = "ACTIVE" /\ status'[rel] = "ACTIVE"
                  /\ Shadowed(rel) /\ stage[rel] \in Stages
                  /\ stage'[rel] \in Stages \ {"SHADOW"}
                  /\ Percent[stage[rel]] < Percent[stage'[rel]]
<1> DEFINE rel == metrics[s].release
<1>1. rel \in Releases /\ (status[rel] = "ACTIVE" => stage[rel] \in Stages)
      /\ sched[s] = "advance"
  BY AdvancedRow DEF TypeInv, Known, EvaluateAndAdvance
<1>2. CASE Refused(rel)
  BY <1>2 DEF EvaluateAndAdvance, releaseVars
<1>3. CASE ~Refused(rel)
  <2>1. status[rel] = "ACTIVE"
    BY <1>3 DEF Refused
  <2>2. CASE RollBack(rel)
    BY <1>1, <2>2 DEF RollBack, TypeInv, TypeOK
  <2>3. CASE Complete(rel)
    BY <1>1, <2>1, <2>3 DEF Complete, TypeInv, TypeOK
  <2>4. CASE Promote(rel) /\ stage[rel] # "FULL" /\ Healthy(metrics[s])
    <3>1. Shadowed(rel)
      BY <1>1, <2>1, <2>4, PassedShadow
    <3>2. stage'[rel] = Ladder[Rank(stage[rel]) + 1] /\ status' = status
      BY <1>1, <2>4 DEF Promote, TypeInv, TypeOK
    <3>3. stage'[rel] \in Stages \ {"SHADOW"} /\ Percent[stage[rel]] < Percent[stage'[rel]]
      BY <1>1, <2>1, <2>4, <3>2, ShadowFirst, NextStage
    <3> QED
      BY <1>1, <2>1, <3>1, <3>2, <3>3
  <2> QED
    BY <1>3, <2>2, <2>3, <2>4 DEF EvaluateAndAdvance
<1> QED
  BY <1>2, <1>3

LEMMA AdvanceExposure ==
    ASSUME TypeInv, ExposureInv, [Next]_vars, NEW s \in Schedulers, EvaluateAndAdvance(s)
    PROVE  ExposureInv'
<1> DEFINE rel == metrics[s].release
<1>1. /\ rel \in Releases
      /\ \A r \in Releases \ {rel} : status'[r] = status[r] /\ stage'[r] = stage[r]
      /\ status'[rel] # "absent" /\ status[rel] # "absent"
      /\ status[rel] = "ACTIVE" => stage[rel] \in Stages
  BY AdvancedRow DEF TypeInv, Known, EvaluateAndAdvance
<1>2. /\ UNCHANGED <<assigned, served, answered, worker, found>>
      /\ \A t \in Schedulers : sched'[t] = "advance" =>
             sched[t] = "advance" /\ metrics'[t] = metrics[t]
  BY DEF EvaluateAndAdvance, runVars, TypeInv, TypeOK
<1>3. \A r \in Releases : Shadowed(r)' <=> Shadowed(r)
  BY <1>2 DEF Shadowed
<1>4. \/ status'[rel] = status[rel] /\ stage'[rel] = stage[rel]
      \/ status'[rel] = "COMPLETED" /\ stage'[rel] = stage[rel]
      \/ status'[rel] = "STOPPED" /\ stage'[rel] = "STOPPED"
      \/ /\ status[rel] = "ACTIVE" /\ status'[rel] = "ACTIVE"
         /\ Shadowed(rel) /\ stage[rel] \in Stages
         /\ stage'[rel] \in Stages \ {"SHADOW"}
         /\ Percent[stage[rel]] < Percent[stage'[rel]]
  BY AdvancedShare
<1> HIDE DEF rel
<1>5. ASSUME NEW r \in Releases, status'[r] = "ACTIVE"
      PROVE  /\ status[r] = "ACTIVE" /\ stage[r] \in Stages /\ stage'[r] \in Stages
             /\ stage'[r] = "SHADOW" => stage[r] = "SHADOW"
             /\ Percent[stage[r]] <= Percent[stage'[r]]
  <2>1. CASE status'[r] = status[r] /\ stage'[r] = stage[r]
    <3>1. stage[r] \in Stages
      BY <1>5, <2>1 DEF TypeInv, Known
    <3>2. Percent[stage[r]] \in Nat
      BY <3>1, PercentType
    <3> QED
      BY <1>5, <2>1, <3>1, <3>2
  <2>2. CASE r = rel /\ ~(status'[r] = status[r] /\ stage'[r] = stage[r])
    <3>1. /\ status[r] = "ACTIVE" /\ stage[r] \in Stages
          /\ stage'[r] \in Stages \ {"SHADOW"} /\ Percent[stage[r]] < Percent[stage'[r]]
      BY <1>4, <1>5, <2>2
    <3>2. Percent[stage[r]] \in Nat /\ Percent[stage'[r]] \in Nat
      BY <3>1, PercentType
    <3> QED
      BY <3>1, <3>2
  <2> QED
    BY <1>1, <2>1, <2>2
<1>6. FoundIsBehind'
  <2>1. ASSUME NEW q \in Runs, worker[q] \in Holding
        PROVE  /\ found[q].stage \in Stages /\ found[q].release \in Releases
               /\ found[q].stage # "SHADOW" => Shadowed(found[q].release)
               /\ status'[found[q].release] = "ACTIVE" =>
                    /\ Percent[found[q].stage] <= Percent[stage'[found[q].release]]
                    /\ stage'[found[q].release] = "SHADOW" => found[q].stage = "SHADOW"
    <3> DEFINE r == found[q].release
    <3>1. /\ r \in Releases /\ found[q].stage \in Stages
          /\ found[q].stage # "SHADOW" => Shadowed(r)
          /\ status[r] = "ACTIVE" => /\ Percent[found[q].stage] <= Percent[stage[r]]
                                     /\ stage[r] = "SHADOW" => found[q].stage = "SHADOW"
      BY <2>1 DEF ExposureInv, FoundIsBehind, TypeInv, Known, Holding
    <3> HIDE DEF r
    <3>2. ASSUME status'[r] = "ACTIVE"
          PROVE  /\ Percent[found[q].stage] <= Percent[stage'[r]]
                 /\ stage'[r] = "SHADOW" => found[q].stage = "SHADOW"
      <4>1. /\ status[r] = "ACTIVE" /\ stage[r] \in Stages /\ stage'[r] \in Stages
            /\ stage'[r] = "SHADOW" => stage[r] = "SHADOW"
            /\ Percent[stage[r]] <= Percent[stage'[r]]
        BY <1>5, <3>1, <3>2
      <4>2. /\ Percent[found[q].stage] \in Nat /\ Percent[stage[r]] \in Nat
            /\ Percent[stage'[r]] \in Nat
        BY <3>1, <4>1, PercentType
      <4> QED
        BY <3>1, <4>1, <4>2
    <3> QED
      BY <3>1, <3>2 DEF r
  <2> QED
    BY <1>2, <1>3, <2>1 DEF FoundIsBehind, Holding
<1>7. ShadowRows'
  BY <1>1, <1>2, <1>5 DEF ExposureInv, ShadowRows
<1>8. RepliesSeen'
  BY <1>2, RepliesKept DEF ExposureInv, RepliesSeen
<1>9. \A r \in Releases : status'[r] # "absent" /\ stage'[r] \in Stages \ {"SHADOW"}
          => Shadowed(r)'
  <2>1. \A r \in Releases : r # rel => status'[r] = status[r] /\ stage'[r] = stage[r]
    BY <1>1
  <2>2. stage'[rel] \in Stages \ {"SHADOW"} => Shadowed(rel)
    BY <1>1, <1>4, LadderEnds DEF ExposureInv
  <2> QED
    BY <1>3, <2>1, <2>2 DEF ExposureInv
<1>10. ASSUME NEW q \in Runs, served[q] # "none"
       PROVE  /\ Shadowed(served[q])' /\ q \in LowRisk
              /\ status'[served[q]] # "absent"
              /\ status'[served[q]] = "ACTIVE" => Bucket[q] < Percent[stage'[served[q]]]
  <2> DEFINE r == served[q]
  <2>1. /\ r \in Releases /\ Shadowed(r) /\ q \in LowRisk /\ status[r] # "absent"
        /\ status[r] = "ACTIVE" => Bucket[q] < Percent[stage[r]]
    BY <1>10 DEF ExposureInv, TypeInv, TypeOK
  <2>2. Shadowed(served[q])'
    BY <1>2, <1>3, <2>1
  <2> HIDE DEF r
  <2>3. status'[r] # "absent"
    BY <1>1, <2>1
  <2>4. ASSUME status'[r] = "ACTIVE" PROVE Bucket[q] < Percent[stage'[r]]
    <3>1. /\ Bucket[q] < Percent[stage[r]] /\ Percent[stage[r]] <= Percent[stage'[r]]
          /\ stage[r] \in Stages /\ stage'[r] \in Stages
      BY <1>5, <2>1, <2>4
    <3>2. Bucket[q] \in Nat /\ Percent[stage[r]] \in Nat /\ Percent[stage'[r]] \in Nat
      BY <3>1, PercentType, BucketsKnown
    <3> QED
      BY <3>1, <3>2
  <2> QED
    BY <2>1, <2>2, <2>3, <2>4 DEF r
<1> QED
  BY <1>2, <1>6, <1>7, <1>8, <1>9, <1>10 DEF ExposureInv

\* What is counted comes from the rows of the release in hand.
LEMMA MeasuringExposure ==
    ASSUME TypeInv, ExposureInv, [Next]_vars, NEW s \in Schedulers,
           StartRound(s) \/ MeasureRuns(s) \/ MeasureReplies(s)
    PROVE  ExposureInv'
<1>1. UNCHANGED <<status, stage, assigned, served, answered, worker, found>>
  BY DEF StartRound, MeasureRuns, MeasureReplies, releaseVars, runVars
<1>2. \A t \in Schedulers \ {s} : sched'[t] = sched[t] /\ metrics'[t] = metrics[t]
  BY DEF StartRound, MeasureRuns, MeasureReplies, TypeInv, TypeOK
<1>3. ASSUME sched'[s] = "advance", metrics'[s].published > 0
      PROVE  \E other \in answered :
                 assigned[metrics'[s].release][other].mode \in {"shadow", "canary"}
  <2>1. MeasureReplies(s)
    BY <1>3 DEF StartRound, MeasureRuns, TypeInv, TypeOK
  <2> DEFINE m == metrics[s]
             C == Observed(m.release, m.since) \cap answered
  <2>2. metrics'[s].release = m.release /\ metrics'[s].published = Cardinality(C)
    BY <2>1 DEF MeasureReplies, TypeInv, TypeOK
  <2>3. C # {}
    <3>1. Cardinality({}) = 0
      BY FS_EmptySet
    <3> QED
      BY <1>3, <2>2, <3>1
  <2> QED
    BY <2>2, <2>3 DEF Observed
<1>4. RepliesSeen'
  BY <1>1, <1>2, <1>3 DEF ExposureInv, RepliesSeen
<1> QED
  BY <1>1, <1>4 DEF ExposureInv, FoundIsBehind, ShadowRows, Holding, Shadowed

\* A release is created without rows and known to no executor; a stopped one
\* is at no stage.
LEMMA OperateExposure ==
    ASSUME TypeInv, ExposureInv, [Next]_vars, NEW rel \in Releases,
           Operate(rel) \/ Elapse(rel)
    PROVE  ExposureInv'
<1>1. UNCHANGED <<assigned, served, answered, worker, found, sched, metrics>>
  BY DEF Operate, Create, RegisterRuntime, Stop, Elapse, runVars, schedVars
<1>2. \A r \in Releases : Shadowed(r)' <=> Shadowed(r)
  BY <1>1 DEF Shadowed
<1>3. \/ UNCHANGED <<status, stage>>
      \/ /\ status[rel] = "absent" /\ status' = [status EXCEPT ![rel] = "ACTIVE"]
         /\ stage' = [stage EXCEPT ![rel] = "SHADOW"]
      \/ /\ status[rel] = "ACTIVE" /\ status' = [status EXCEPT ![rel] = "STOPPED"]
         /\ stage' = [stage EXCEPT ![rel] = "STOPPED"]
  BY DEF Operate, Create, RegisterRuntime, Stop, Elapse, releaseVars
<1>4. /\ \A r \in Releases \ {rel} : status'[r] = status[r] /\ stage'[r] = stage[r]
      /\ \/ status'[rel] = status[rel] /\ stage'[rel] = stage[rel]
         \/ status[rel] = "absent" /\ status'[rel] = "ACTIVE" /\ stage'[rel] = "SHADOW"
         \/ status[rel] = "ACTIVE" /\ status'[rel] = "STOPPED" /\ stage'[rel] = "STOPPED"
  BY <1>3 DEF TypeInv, TypeOK
<1>5. FoundIsBehind'
  <2>1. \A q \in Runs : worker[q] \in Holding =>
            found[q].release \in Releases /\ status[found[q].release] # "absent"
    BY DEF TypeInv, Known, Holding
  <2>2. \A q \in Runs : worker[q] \in Holding =>
            \/ status'[found[q].release] = "STOPPED"
            \/ /\ status'[found[q].release] = status[found[q].release]
               /\ stage'[found[q].release] = stage[found[q].release]
    BY <1>4, <2>1
  <2> QED
    BY <1>1, <1>2, <2>1, <2>2 DEF ExposureInv, FoundIsBehind, Holding
<1>6. ShadowRows'
  BY <1>1, <1>4 DEF ExposureInv, ShadowRows
<1>7. RepliesSeen'
  BY <1>1 DEF ExposureInv, RepliesSeen
<1>8. \A r \in Releases : status'[r] # "absent" /\ stage'[r] \in Stages \ {"SHADOW"}
          => Shadowed(r)'
  BY <1>2, <1>4, LadderEnds DEF ExposureInv
<1>9. ASSUME NEW q \in Runs, served[q] # "none"
      PROVE  /\ Shadowed(served[q])' /\ q \in LowRisk
             /\ status'[served[q]] # "absent"
             /\ status'[served[q]] = "ACTIVE" => Bucket[q] < Percent[stage'[served[q]]]
  <2>1. /\ served[q] \in Releases /\ Shadowed(served[q]) /\ q \in LowRisk
        /\ status[served[q]] # "absent"
    BY <1>9 DEF ExposureInv, TypeInv, TypeOK
  <2>2. Shadowed(served[q])'
    BY <1>1, <1>2, <2>1
  <2> QED
    BY <1>4, <1>9, <2>1, <2>2 DEF ExposureInv
<1> QED
  BY <1>1, <1>5, <1>6, <1>7, <1>8, <1>9 DEF ExposureInv

LEMMA ExposureStep == TypeInv /\ WindowInv /\ ExposureInv /\ [Next]_vars => ExposureInv'
<1> SUFFICES ASSUME TypeInv, WindowInv, ExposureInv, [Next]_vars PROVE ExposureInv'
  OBVIOUS
<1>1. CASE UNCHANGED vars
  BY <1>1 DEF vars, ExposureInv, FoundIsBehind, ShadowRows, RepliesSeen, Holding, Shadowed
<1>2. CASE Next
  BY <1>2, OperateExposure, ReadingExposure, RecordExposure, MeasuringExposure,
     AdvanceExposure DEF Next, Assign, Tick
<1> QED
  BY <1>1, <1>2

\* Types, windows and exposure hold together throughout.
LEMMA ExposureInvariant == Spec => []ExposureInv
<1>1. Init => TypeInv /\ WindowInv /\ ExposureInv
  BY TypeInit, WindowInit, ExposureInit
<1>2. TypeInv /\ WindowInv /\ ExposureInv /\ [Next]_vars
          => TypeInv' /\ WindowInv' /\ ExposureInv'
  BY TypeStep, WindowStep, ExposureStep
<1> QED
  BY <1>1, <1>2, PTL DEF Spec

\* However executors, schedulers and operators interleave, and although an
\* executor acts on a stage it read some transactions ago: the first user a
\* candidate serves comes after an answered run of its SHADOW window.
THEOREM ServedAfterShadow == Spec => []ShadowedBeforeServed
<1>1. ExposureInv => ShadowedBeforeServed
  BY DEF ExposureInv, Shadowed, ShadowedBeforeServed
<1> QED
  BY <1>1, ExposureInvariant, PTL

\* And while the release is active, all runs it has served lie within its
\* present share of the traffic and are of low risk.
THEOREM ShareIsKept == Spec => []WithinItsShare
<1>1. ExposureInv => WithinItsShare
  BY DEF ExposureInv, WithinItsShare
<1> QED
  BY <1>1, ExposureInvariant, PTL
================================================================================
