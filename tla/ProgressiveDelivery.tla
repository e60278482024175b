-------------------------- MODULE ProgressiveDelivery --------------------------
(***************************************************************************)
(* Progressive delivery: releases climb from SHADOW through the canary     *)
(* stages to FULL, one guarded evaluation per observation window, while    *)
(* runs are assigned to the current or the candidate version.              *)
(*                                                                         *)
(* Three parties interleave: the scheduler thread of each API process,     *)
(* the executor that assigns a run, and the operators.  An atomic step is  *)
(* one statement or transaction of ReleaseRepository.  PostgreSQL runs at  *)
(* its default isolation level, so the queries of canary_metrics see       *)
(* different moments although they share a connection.  evaluate_release,  *)
(* the endpoint, is no action: it passes a field CanaryMetrics does not    *)
(* have and raises before it reaches the repository.                       *)
(*                                                                         *)
(* Times are abstracted to what is compared with them: an observation      *)
(* window is open, elapsed or absent, and an assignment carries the window *)
(* it was created in, named after the stage that opened it.                *)
(***************************************************************************)
EXTENDS Naturals, Sequences, FiniteSets

CONSTANTS
    Releases,
    Runs,
    Schedulers,  \* API processes with the release scheduler enabled
    Ladder,      \* the stages in order, SHADOW first and FULL last
    Percent,     \* the share of traffic the candidate gets at each stage
    Bucket,      \* stable_bucket of the conversation of each run
    LowRisk,     \* runs of low risk whose current route writes nothing
    Gated        \* releases whose quality and safety gates are recorded as passed

Stages == {Ladder[i] : i \in 1 .. Len(Ladder)}

ASSUME LadderEnds ==
    /\ Ladder \in Seq(STRING) /\ Len(Ladder) > 1
    /\ Ladder[1] = "SHADOW" /\ Ladder[Len(Ladder)] = "FULL"
    /\ "STOPPED" \notin Stages
    /\ \A i, j \in 1 .. Len(Ladder) : Ladder[i] = Ladder[j] => i = j
ASSUME PercentGrows ==
    /\ Percent \in [Stages -> 0 .. 100]
    /\ \A i \in 1 .. Len(Ladder) - 1 : Percent[Ladder[i]] < Percent[Ladder[i + 1]]
ASSUME BucketsKnown == Bucket \in [Runs -> 0 .. 99]
ASSUME SubsetsKnown == LowRisk \subseteq Runs /\ Gated \subseteq Releases
ASSUME RunsFinite == IsFiniteSet(Runs)

VARIABLES
    status,      \* release.releases.status
    stage,       \* release.releases.stage
    window,      \* observation_ends_at: ahead, passed or NULL
    since,       \* the stage at which observation_started_at was last set
    rollback,    \* releases with a rollback_version
    older,       \* <<a, b>>: the updated_at of a is before that of b
    registered,  \* releases whose candidate runtime is registered
    assigned,    \* release_assignments: mode and window of each release and run
    served,      \* the release whose candidate route each run executes, if any
    answered,    \* runs with a terminal_response_published event
    worker,      \* what the executor does next for each run
    found,       \* what the executor read: latest_active, runtime_available
    sched,       \* what each scheduler does next
    due,         \* releases a scheduler has still to evaluate in this round
    metrics      \* the release a scheduler evaluates and what it measured

releaseVars == <<status, stage, window, since, rollback, older>>
runVars == <<assigned, served, answered, worker, found>>
schedVars == <<sched, due, metrics>>
vars == <<status, stage, window, since, rollback, older, registered, assigned,
          served, answered, worker, found, sched, due, metrics>>

Closed == {"STOPPED", "COMPLETED"}
Modes == {"current", "shadow", "canary"}
NoAssignment == [mode |-> "none", window |-> "none"]
NoFind == [release |-> "none", stage |-> "none", runtime |-> FALSE]
NoMetrics == [release |-> "none", since |-> "none", runs |-> 0, published |-> 0,
              regressed |-> FALSE]

Rank(s) == CHOOSE i \in 1 .. Len(Ladder) : Ladder[i] = s

TypeOK ==
    /\ status \in [Releases -> {"absent", "ACTIVE"} \cup Closed]
    /\ stage \in [Releases -> Stages \cup {"absent", "STOPPED"}]
    /\ window \in [Releases -> {"open", "elapsed", "none"}]
    /\ since \in [Releases -> Stages \cup {"absent"}]
    /\ rollback \subseteq Releases
    /\ older \subseteq Releases \X Releases
    /\ registered \subseteq Releases
    /\ assigned \in [Releases -> [Runs ->
           [mode : Modes \cup {"none"}, window : Stages \cup {"none"}]]]
    /\ served \in [Runs -> Releases \cup {"none"}]
    /\ answered \subseteq Runs
    /\ worker \in [Runs -> {"release", "runtime", "record", "rerelease",
                            "reruntime", "rerecord", "execute", "done"}]
    /\ found \in [Runs -> [release : Releases \cup {"none"},
                           stage : Stages \cup {"none"}, runtime : BOOLEAN]]
    /\ sched \in [Schedulers -> {"idle", "next", "publish", "advance"}]
    /\ due \in [Schedulers -> SUBSET Releases]
    /\ metrics \in [Schedulers ->
           [release : Releases \cup {"none"}, since : Stages \cup {"none"},
            runs : Nat, published : Nat, regressed : BOOLEAN]]

Init ==
    /\ status = [rel \in Releases |-> "absent"]
    /\ stage = [rel \in Releases |-> "absent"]
    /\ window = [rel \in Releases |-> "none"]
    /\ since = [rel \in Releases |-> "absent"]
    /\ rollback = {}
    /\ older = {}
    /\ registered = {}
    /\ assigned = [rel \in Releases |-> [run \in Runs |-> NoAssignment]]
    /\ served = [run \in Runs |-> "none"]
    /\ answered = {}
    /\ worker = [run \in Runs |-> "release"]
    /\ found = [run \in Runs |-> NoFind]
    /\ sched = [s \in Schedulers |-> "idle"]
    /\ due = [s \in Schedulers |-> {}]
    /\ metrics = [s \in Schedulers |-> NoMetrics]

\* updated_at = now().
Touch(rel) ==
    older' = {pair \in older : rel \notin {pair[1], pair[2]}} \cup
             {<<other, rel>> : other \in
                  {r \in Releases \ {rel} : status[r] # "absent"}}

-------------------------------------------------------------------------------
(***************************************************************************)
(* Operators                                                               *)
(***************************************************************************)

\* create: the release starts in SHADOW with a window of 24 hours.
Create(rel) ==
    /\ status[rel] = "absent"
    /\ status' = [status EXCEPT ![rel] = "ACTIVE"]
    /\ stage' = [stage EXCEPT ![rel] = "SHADOW"]
    /\ window' = [window EXCEPT ![rel] = "open"]
    /\ since' = [since EXCEPT ![rel] = "SHADOW"]
    /\ Touch(rel)
    /\ UNCHANGED <<rollback, registered, runVars, schedVars>>

\* register_runtime; nothing retires a registration.
RegisterRuntime(rel) ==
    /\ rel \notin registered
    /\ registered' = registered \cup {rel}
    /\ UNCHANGED <<releaseVars, runVars, schedVars>>

\* stop: unlike an automatic stop it records no rollback version and leaves
\* the window as it is.
Stop(rel) ==
    /\ status[rel] = "ACTIVE"
    /\ status' = [status EXCEPT ![rel] = "STOPPED"]
    /\ stage' = [stage EXCEPT ![rel] = "STOPPED"]
    /\ Touch(rel)
    /\ UNCHANGED <<window, since, rollback, registered, runVars, schedVars>>

-------------------------------------------------------------------------------
(***************************************************************************)
(* The executor: _record_release_assignment, once before the route of a    *)
(* run is locked and once more when a skill matches                        *)
(***************************************************************************)

Active == {rel \in Releases : status[rel] = "ACTIVE"}

\* latest_active: the active release updated last.
LatestActive == {rel \in Active : \A other \in Active \ {rel} : <<other, rel>> \in older}

ReadRelease(run) ==
    /\ worker[run] \in {"release", "rerelease"}
    /\ \/ /\ LatestActive = {}
          /\ worker' = [worker EXCEPT ![run] = "execute"]
          /\ UNCHANGED found
       \/ \E rel \in LatestActive :
          /\ found' = [found EXCEPT ![run] =
                 [release |-> rel, stage |-> stage[rel], runtime |-> FALSE]]
          /\ worker' = [worker EXCEPT ![run] =
                 IF @ = "release" THEN "runtime" ELSE "reruntime"]
    /\ UNCHANGED <<releaseVars, registered, assigned, served, answered, schedVars>>

\* runtime_available
ReadRuntime(run) ==
    /\ worker[run] \in {"runtime", "reruntime"}
    /\ found' = [found EXCEPT ![run].runtime = found[run].release \in registered]
    /\ worker' = [worker EXCEPT ![run] =
           IF @ = "runtime" THEN "record" ELSE "rerecord"]
    /\ UNCHANGED <<releaseVars, registered, assigned, served, answered, schedVars>>

MutMode(run) ==
    IF found[run].stage = "SHADOW" THEN "shadow"
    ELSE IF /\ found[run].runtime
            /\ run \in LowRisk
            /\ Bucket[run] <= Percent[found[run].stage]
         THEN "canary" ELSE "current"

\* assign_traffic on what was read; the status read was ACTIVE.
Mode(run) ==
    IF found[run].stage = "SHADOW" THEN "shadow"
    ELSE IF /\ found[run].runtime
            /\ run \in LowRisk
            /\ Bucket[run] < Percent[found[run].stage]
         THEN "canary" ELSE "current"

\* record_assignment: the first row of a release and a run keeps its version.
Record(run) ==
    LET rel == found[run].release
    IN  assigned' = [assigned EXCEPT ![rel][run] =
            IF @ = NoAssignment THEN [mode |-> Mode(run), window |-> since[rel]]
                                ELSE @]

\* The candidate route is taken only for a canary run and only if the
\* candidate router has something to execute; a skill may match afterwards.
FirstRecord(run) ==
    /\ worker[run] = "record"
    /\ Record(run)
    /\ served' \in {served} \cup
           (IF Mode(run) = "canary"
            THEN {[served EXCEPT ![run] = found[run].release]} ELSE {})
    /\ \E step \in {"rerelease", "execute"} :
           worker' = [worker EXCEPT ![run] = step]
    /\ found' = [found EXCEPT ![run] = NoFind]
    /\ UNCHANGED <<releaseVars, registered, answered, schedVars>>

\* The second call only means to complete the comparison, but it looks up the
\* latest release again.
SecondRecord(run) ==
    /\ worker[run] = "rerecord"
    /\ Record(run)
    /\ worker' = [worker EXCEPT ![run] = "execute"]
    /\ found' = [found EXCEPT ![run] = NoFind]
    /\ UNCHANGED <<releaseVars, registered, served, answered, schedVars>>

\* Any exception on the way is swallowed: the run goes on as if there were no
\* release.
RecordFails(run) ==
    /\ worker[run] \in {"runtime", "record", "reruntime", "rerecord"}
    /\ found' = [found EXCEPT ![run] = NoFind]
    /\ worker' = [worker EXCEPT ![run] = "execute"]
    /\ UNCHANGED <<releaseVars, registered, assigned, served, answered, schedVars>>

\* The run ends with its terminal response, or in a state that has none.
Execute(run) ==
    /\ worker[run] = "execute"
    /\ answered' \in {answered, answered \cup {run}}
    /\ worker' = [worker EXCEPT ![run] = "done"]
    /\ UNCHANGED <<releaseVars, registered, assigned, served, found, schedVars>>

-------------------------------------------------------------------------------
(***************************************************************************)
(* The scheduler: run_once                                                 *)
(***************************************************************************)

MutDueForEvaluation ==
    {rel \in Releases : status[rel] = "ACTIVE" /\ window[rel] = "elapsed"}

\* due_for_evaluation
DueForEvaluation ==
    {rel \in Releases : status[rel] = "ACTIVE" /\ window[rel] # "open"}

StartRound(s) ==
    /\ sched[s] = "idle"
    /\ DueForEvaluation # {}
    /\ due' = [due EXCEPT ![s] = DueForEvaluation]
    /\ sched' = [sched EXCEPT ![s] = "next"]
    /\ UNCHANGED <<releaseVars, registered, runVars, metrics>>

\* Runs with candidate evidence since the given start of observation.
Observed(rel, start) ==
    {run \in Runs : /\ assigned[rel][run].mode \in {"shadow", "canary"}
                    /\ Rank(assigned[rel][run].window) >= Rank(start)}

\* canary_metrics, up to the aggregate over the observed runs.  Whether
\* latency, cost or handoffs exceed their baselines is an input here.
MeasureRuns(s) ==
    /\ sched[s] = "next"
    /\ \E rel \in due[s], slow \in BOOLEAN :
           /\ due' = [due EXCEPT ![s] = @ \ {rel}]
           /\ metrics' = [metrics EXCEPT ![s] =
                  [release |-> rel, since |-> since[rel],
                   runs |-> Cardinality(Observed(rel, since[rel])),
                   published |-> 0, regressed |-> slow]]
    /\ sched' = [sched EXCEPT ![s] = "publish"]
    /\ UNCHANGED <<releaseVars, registered, runVars>>

\* The count of published responses is a later statement.
MeasureReplies(s) ==
    LET m == metrics[s]
    IN  /\ sched[s] = "publish"
        /\ metrics' = [metrics EXCEPT ![s].published =
               Cardinality(Observed(m.release, m.since) \cap answered)]
        /\ sched' = [sched EXCEPT ![s] = "advance"]
        /\ UNCHANGED <<releaseVars, registered, runVars, due>>

MutHealthy(m) ==
    /\ m.release \in Gated
    /\ m.published >= m.runs
    /\ ~m.regressed

\* evaluate_canary: every gate passed; no observed run is no coverage.
Healthy(m) ==
    /\ m.release \in Gated
    /\ m.runs > 0 /\ m.published >= m.runs
    /\ ~m.regressed

\* The row as transition_stage and evaluate_and_advance leave it: the next
\* stage gets a window of its own unless it is FULL.
Promote(rel) ==
    LET next == Ladder[Rank(stage[rel]) + 1]
    IN  /\ stage' = [stage EXCEPT ![rel] = next]
        /\ since' = IF next = "FULL" THEN since
                                     ELSE [since EXCEPT ![rel] = next]
        /\ window' = [window EXCEPT ![rel] = IF next = "FULL" THEN "none" ELSE "open"]
        /\ UNCHANGED <<status, rollback>>

Complete(rel) ==
    /\ status' = [status EXCEPT ![rel] = "COMPLETED"]
    /\ since' = [since EXCEPT ![rel] = "FULL"]
    /\ window' = [window EXCEPT ![rel] = "none"]
    /\ UNCHANGED <<stage, rollback>>

RollBack(rel) ==
    /\ status' = [status EXCEPT ![rel] = "STOPPED"]
    /\ stage' = [stage EXCEPT ![rel] = "STOPPED"]
    /\ window' = [window EXCEPT ![rel] = "none"]
    /\ rollback' = rollback \cup {rel}
    /\ UNCHANGED since

MutRefused(rel) ==
    \/ status[rel] # "ACTIVE"
    \/ rel \notin registered

MutRefusedStatus(rel) ==
    \/ status[rel] = "STOPPED"
    \/ rel \notin registered
    \/ window[rel] = "open"

\* What evaluate_and_advance finds under the row lock and raises on.
Refused(rel) ==
    \/ status[rel] # "ACTIVE"
    \/ rel \notin registered
    \/ window[rel] = "open"

\* evaluate_and_advance, one transaction under the lock of the release row.
EvaluateAndAdvance(s) ==
    LET m == metrics[s]
        rel == m.release
    IN  /\ sched[s] = "advance"
        /\ IF Refused(rel)
           THEN UNCHANGED releaseVars
           ELSE /\ Touch(rel)
                /\ IF ~Healthy(m) THEN RollBack(rel)
                   ELSE IF stage[rel] = "FULL" THEN Complete(rel)
                   ELSE Promote(rel)
        /\ metrics' = [metrics EXCEPT ![s] = NoMetrics]
        /\ sched' = [sched EXCEPT ![s] = IF due[s] = {} THEN "idle" ELSE "next"]
        /\ UNCHANGED <<registered, runVars, due>>

\* A day passes.  Evaluating one release takes far less, so no scheduler is
\* still at work on what it measured before this window opened.
Elapse(rel) ==
    /\ window[rel] = "open"
    /\ \A s \in Schedulers : metrics[s].release = rel => metrics[s].since = since[rel]
    /\ window' = [window EXCEPT ![rel] = "elapsed"]
    /\ UNCHANGED <<status, stage, since, rollback, older, registered, runVars,
                   schedVars>>

-------------------------------------------------------------------------------
Operate(rel) == Create(rel) \/ RegisterRuntime(rel) \/ Stop(rel)

Assign(run) ==
    \/ ReadRelease(run)
    \/ ReadRuntime(run)
    \/ FirstRecord(run)
    \/ SecondRecord(run)
    \/ RecordFails(run)
    \/ Execute(run)

Tick(s) ==
    \/ StartRound(s)
    \/ MeasureRuns(s)
    \/ MeasureReplies(s)
    \/ EvaluateAndAdvance(s)

Next ==
    \/ \E rel \in Releases : Operate(rel) \/ Elapse(rel)
    \/ \E run \in Runs : Assign(run)
    \/ \E s \in Schedulers : Tick(s)

Spec == Init /\ [][Next]_vars

\* The scheduler thread loops and wall-clock time passes; operators need not
\* act and runs need not end.
FairSpec ==
    /\ Spec
    /\ \A rel \in Releases : WF_vars(Elapse(rel))
    /\ \A s \in Schedulers : WF_vars(Tick(s))

-------------------------------------------------------------------------------
(***************************************************************************)
(* Properties                                                              *)
(***************************************************************************)

\* A release that was stopped, by an operator or by the guard, or completed is
\* never moved again, although schedulers hold it in a list of due releases.
ClosedStays ==
    [][\A rel \in Releases :
          status[rel] \in Closed =>
              status'[rel] = status[rel] /\ stage'[rel] = stage[rel]]_vars

\* Scheduler s moves release rel on to a further stage in this step.
Promotes(s, rel) ==
    /\ sched[s] = "advance" /\ sched'[s] # "advance"
    /\ metrics[s].release = rel
    /\ stage'[rel] # stage[rel] /\ stage'[rel] \in Stages

\* evaluate_and_advance applies metrics that were read in other transactions:
\* they are of the window of the stage they promote from, even when two
\* schedulers evaluate the release at once.
MeasuredInItsWindow ==
    [][\A s \in Schedulers, rel \in Releases :
          Promotes(s, rel) => metrics[s].since = stage[rel]]_vars

\* No user is served by a candidate version before a run observed in the SHADOW
\* window of that release got its answer.
ShadowedBeforeServed ==
    \A run \in Runs : served[run] # "none" =>
        \E other \in answered :
            /\ assigned[served[run]][other].mode = "shadow"
            /\ assigned[served[run]][other].window = "SHADOW"

\* While a release is active, every run the candidate has served lies within
\* its present share of the traffic, so that no conversation is taken back
\* from the candidate, and is of low risk.
WithinItsShare ==
    \A run \in Runs :
        /\ served[run] # "none" => run \in LowRisk
        /\ served[run] # "none" /\ status[served[run]] = "ACTIVE" =>
               Bucket[run] < Percent[stage[served[run]]]

\* An active release with a runtime does not linger: its windows elapse, the
\* scheduler evaluates it, and it is completed or stopped.
Decided ==
    \A rel \in Releases :
        status[rel] = "ACTIVE" /\ rel \in registered ~> status[rel] \in Closed
================================================================================
