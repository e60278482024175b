--------------------------- MODULE EvaluationJob ---------------------------
(***************************************************************************)
(* One offline evaluation: POST /v1/evals writes a queued report.json and  *)
(* starts a background task, the task runs the harness as a subprocess and *)
(* copies its report, and POST /v1/evals/{id}/cancel may come at any time. *)
(* Task, harness and cancel requests share nothing but the report file,    *)
(* the process and its exit status, and all three write the file.          *)
(*                                                                         *)
(* The subprocess reacts to SIGINT only (an operator's Ctrl-C); the cancel *)
(* request sends SIGTERM, which ends it where it stands.                   *)
(***************************************************************************)
EXTENDS Naturals, Sequences

CONSTANTS
    Cases,        \* the selected dataset: the track of each case, in order
    Repetitions,  \* attempts per case, 1..3
    Cancellers,   \* cancel requests
    Setups        \* the requests and deployments a behaviour may start from

VARIABLES
    setup,    \* request and deployment: mode, judge, profile, labels, approval
    file,     \* report.json
    job,      \* the background task: program counter and the report it holds
    harness,  \* the subprocess: program counter, rows, cancelled flag, report
    dbrun,    \* evaluation.eval_runs: the status of this run's row
    cancel,   \* the cancel requests: program counter and the payload read
    apiDown   \* the API process died (the subprocess outlives it)

ejVars == <<setup, file, job, harness, dbrun, cancel, apiDown>>

-----------------------------------------------------------------------------
(***************************************************************************)
(* Hard gates.  A trace is the set of checks it meets; every track asks    *)
(* for its own.  All tracks ask that no forbidden tool was called.         *)
(***************************************************************************)
Gates ==
    [intent_route |-> {"intent", "route"},
     tool_workflow |->
        {"intent", "route", "next_action", "tool", "args", "confirmation", "owner"},
     rag_grounding |-> {"route", "evidence", "facts"},
     scripted_clarification |-> {"route", "next_action", "required_slot_question"},
     guardrail_handoff |-> {"route", "outcome", "no_false_success"},
     long_tail_response_v1 |-> {"no_unnecessary_tool", "response_present"},
     safety_response_v2 |-> {"no_false_success", "safe_next_step"}]

Tracks == DOMAIN Gates
Required(track) == {"no_forbidden_tool"} \cup Gates[track]
Checks == UNION {Required(t) : t \in Tracks}

\* Mutant: the long-tail gate accepts an empty response.
MutHardEval(track, trace) == Required(track) \ {"response_present"} \subseteq trace

HardEval(track, trace) == Required(track) \subseteq trace

(* run_case: the runtime answers, or times out or raises and the driver     *)
(* puts an empty trace in its place: no route, no tool, no response.  Such *)
(* a trace calls no tool and claims nothing, and meets no other check.     *)
EmptyTrace == {"no_forbidden_tool", "no_unnecessary_tool", "no_false_success"}
RunCase(track) ==
    {[error |-> "none", hard |-> HardEval(track, Checks \ missing)] :
        missing \in {{}} \cup {{x} : x \in Required(track)}}
    \cup {[error |-> "runtime", hard |-> HardEval(track, EmptyTrace)]}

(***************************************************************************)
(* The judge.  A release needs a profile of its own; a debug run may fall  *)
(* back to the agent's, and its rows are then marked self-judged.  Three   *)
(* attempts that time out, do not parse or name another case end in        *)
(* judge_error; a parsed answer passes or fails.                           *)
(***************************************************************************)
JudgeAvailable ==
    /\ setup.judge = "on"
    /\ IF setup.mode = "release" THEN setup.profile = "own"
       ELSE setup.profile # "none"
SelfJudged == JudgeAvailable /\ setup.profile = "agent"
JudgeVerdicts(track) ==
    IF JudgeAvailable /\ track # "intent_route"
    THEN {"pass", "fail", "judge_error"} ELSE {"none"}

(***************************************************************************)
(* build_report: what the rows add up to.                                  *)
(***************************************************************************)
Sensitive == {"long_tail_response_v1", "safety_response_v2"}
Unjudged(r) == r.judge \in {"none", "judge_error"}
JudgeIncomplete(rows) ==
    \E r \in rows : /\ r.track # "intent_route"
                    /\ setup.judge = "on" \/ r.track \in Sensitive
                    /\ Unjudged(r)
NeedsReview(rows) == \E r \in rows : r.track \in Sensitive

ReleaseGate(rows) ==
    /\ setup.mode = "release"
    /\ setup.judge = "on"
    /\ \A r \in rows : ~r.self
    /\ ~JudgeIncomplete(rows)
    /\ \A r \in rows : r.hard
    /\ NeedsReview(rows) => setup.labels = "passing"

ReportStatus(rows, cancelled) ==
    IF cancelled THEN "cancelled"
    ELSE IF \/ JudgeIncomplete(rows)
            \/ NeedsReview(rows) /\ setup.labels \in {"absent", "incomplete"}
         THEN "incomplete"
         ELSE "completed"

Report(status, gate, rows) == [status |-> status, gate |-> gate, rows |-> rows]
Range(s) == {s[i] : i \in DOMAIN s}

BuildReport(rows, cancelled) ==
    Report(ReportStatus(Range(rows), cancelled), ReleaseGate(Range(rows)), rows)

(* What main() does to the report before it is written: a judge that could *)
(* not be configured and a dataset that needs a human approval make it     *)
(* incomplete, and the latter closes the gate.                             *)
Finalised(r) ==
    LET j == IF setup.judge = "on" /\ ~JudgeAvailable
             THEN [r EXCEPT !.status = "incomplete"] ELSE r
    IN  IF ~setup.approval THEN j
        ELSE Report(IF j.status = "cancelled" THEN "cancelled" ELSE "incomplete",
                    FALSE, j.rows)

-----------------------------------------------------------------------------
NoReport == Report("absent", FALSE, <<>>)
Failed == Report("failed", FALSE, <<>>)
Torn == Report("torn", FALSE, <<>>)       \* a file no reader can parse
Total == Len(Cases) * Repetitions
TrackOf(n) == Cases[((n - 1) \div Repetitions) + 1]

(* reviewed_safety_stats: no human labels, too few, or enough of them below  *)
(* or above the thresholds.                                                *)
Labels == {"absent", "incomplete", "failing", "passing"}

AllSetups ==
    [mode : {"debug", "release"}, judge : {"on", "off"},
     profile : {"none", "agent", "own"}, labels : Labels, approval : BOOLEAN]

(* The dataset loader knows these tracks only, and the request asks for at *)
(* least one repetition.                                                   *)
ASSUME EvaluationAssumption ==
    /\ Cases \in Seq(Tracks)
    /\ Repetitions \in Nat \ {0}
    /\ Setups \subseteq AllSetups

EJInit ==
    /\ setup \in Setups
    /\ file = NoReport
    /\ job = [pc |-> "none", report |-> NoReport]
    /\ harness = [pc |-> "none", rows |-> <<>>, cancelled |-> FALSE,
                  db |-> FALSE, report |-> NoReport]
    /\ dbrun = "absent"
    /\ cancel = [x \in Cancellers |-> [pc |-> "idle", payload |-> NoReport]]
    /\ apiDown = FALSE

HGoto(pc) == harness' = [harness EXCEPT !.pc = pc]
HarnessAlive == harness.pc \in {"start", "case", "finish", "write", "print"}
HarnessEnded == harness.pc \in {"exited", "failed", "killed"}

(* write_text truncates and then writes: when it raises OSError, or its     *)
(* process is killed in it, the file is as it was or cut short.            *)
WriteFails == file' \in {file, Torn}

(* A killed harness leaves its report only if it was about to print it.    *)
Kill ==
    /\ harness' = [harness EXCEPT !.pc = "killed",
            !.report = IF harness.pc = "print" THEN @ ELSE NoReport]
    /\ IF harness.pc = "write" THEN WriteFails ELSE UNCHANGED file

(* create_evaluation: a release without a judge, or a full disk, is turned *)
(* down before anything is written.                                        *)
CreateEvaluation ==
    /\ job.pc = "none" /\ ~apiDown
    /\ ~(setup.mode = "release" /\ setup.judge # "on")
    /\ file' = Report("queued", FALSE, <<>>)
    /\ job' = [job EXCEPT !.pc = "start"]
    /\ UNCHANGED <<setup, harness, dbrun, cancel, apiDown>>

\* Mutant: Popen's failure leaves the queued report as it is.
MutSpawn ==
    /\ job.pc = "start" /\ ~apiDown
    /\ \/ HGoto("start") /\ job' = [job EXCEPT !.pc = "communicate"]
       \/ job' = [job EXCEPT !.pc = "done"] /\ UNCHANGED harness
    /\ UNCHANGED <<setup, file, dbrun, cancel, apiDown>>

(* _execute_eval_report: start the harness and publish the process.        *)
Spawn ==
    /\ job.pc = "start" /\ ~apiDown
    /\ \/ /\ HGoto("start")
          /\ job' = [job EXCEPT !.pc = "communicate"]
       \/ /\ job' = [pc |-> "except", report |-> Failed]  \* Popen raised
          /\ UNCHANGED harness
    /\ UNCHANGED <<setup, file, dbrun, cancel, apiDown>>

(* communicate() returns: the last line of stdout is the report, failed    *)
(* after an exit status other than 0; without a line it is a bare failure. *)
(* A line cut short by the kill does not parse: the except clause.         *)
Communicate ==
    /\ job.pc = "communicate" /\ ~apiDown /\ HarnessEnded
    /\ \/ job' = [pc |-> "read", report |->
                    IF harness.pc = "exited" THEN harness.report ELSE Failed]
       \/ /\ harness.pc = "killed" /\ harness.report # NoReport
          /\ job' \in {[pc |-> "read",
                       report |-> [harness.report EXCEPT !.status = "failed"]],
                      [pc |-> "except", report |-> Failed]}
    /\ UNCHANGED <<setup, file, harness, dbrun, cancel, apiDown>>

(* An hour passes: the process is killed.                                  *)
TimeoutKill ==
    /\ job.pc = "communicate" /\ ~apiDown /\ HarnessAlive
    /\ Kill
    /\ job' = [pc |-> "except", report |-> Failed]
    /\ UNCHANGED <<setup, dbrun, cancel, apiDown>>

(* The task leaves a cancelled report alone; one it cannot parse counts as *)
(* none, or raises when it was cut within a character ...                  *)
ReadBack ==
    /\ job.pc = "read" /\ ~apiDown
    /\ \/ /\ file.status = "cancelled"
          /\ job' = [pc |-> "done", report |-> NoReport]
       \/ /\ file.status # "cancelled"
          /\ job' = [job EXCEPT !.pc = "write"]
       \/ file = Torn /\ job' = [pc |-> "except", report |-> Failed]
    /\ UNCHANGED <<setup, file, harness, dbrun, cancel, apiDown>>

(* ... and otherwise writes its own, in a later step; the timeout and the  *)
(* exception branches write without looking.  A failing write is answered  *)
(* by the exception branch, whose own failing write leaves the task.       *)
WriteBack ==
    /\ job.pc \in {"write", "except"} /\ ~apiDown
    /\ \/ file' = job.report /\ job' = [pc |-> "done", report |-> NoReport]
       \/ /\ WriteFails
          /\ job' = IF job.pc = "write" THEN [pc |-> "except", report |-> Failed]
                    ELSE [pc |-> "raised", report |-> NoReport]
    /\ UNCHANGED <<setup, harness, dbrun, cancel, apiDown>>

JobStep == Spawn \/ Communicate \/ TimeoutKill \/ ReadBack \/ WriteBack

-----------------------------------------------------------------------------
(* create_run inserts the run's row, which finish() updates once.          *)
InsertRun == dbrun' = "running"
UpdateRun(status) == dbrun' = status

(* runner.main up to the loop: dataset and fixture are loaded, the run's   *)
(* row is inserted when a database answers, the judge is configured.       *)
HarnessStart ==
    /\ harness.pc = "start"
    /\ \/ harness' = [harness EXCEPT !.pc = "case", !.db = TRUE] /\ InsertRun
       \/ HGoto("case") /\ UNCHANGED dbrun       \* no database
       \/ HGoto("failed") /\ UNCHANGED dbrun     \* dataset or fixture contract
    /\ UNCHANGED <<setup, file, job, cancel, apiDown>>

(* record_hard_result and record_judge_result: while the database answers; *)
(* the first fault ends the persistence of this run, not the run.          *)
Persisted == {harness.db, FALSE}

(* One attempt: run the case, store the hard result, judge, store the      *)
(* verdict, project the failure.  An answer of the judge without a choice   *)
(* raises IndexError, which nobody catches.                                *)
RunAttempt ==
    /\ harness.pc = "case" /\ ~harness.cancelled /\ Len(harness.rows) < Total
    /\ \E t \in {TrackOf(Len(harness.rows) + 1)} :
       \/ JudgeVerdicts(t) # {"none"} /\ HGoto("failed")
       \/ \E driven \in RunCase(t), verdict \in JudgeVerdicts(t), db \in Persisted :
         harness' = [harness EXCEPT
           !.rows = Append(@, [track |-> t, error |-> driven.error,
                               hard |-> driven.hard, judge |-> verdict,
                               self |-> SelfJudged /\ verdict # "none"]),
           !.db = db]
    /\ UNCHANGED <<setup, file, job, dbrun, cancel, apiDown>>

(* The loop ends, or breaks on an interrupt, and the report is built.      *)
EndLoop ==
    /\ harness.pc = "case"
    /\ harness.cancelled \/ Len(harness.rows) = Total
    /\ harness' = [harness EXCEPT !.pc = "finish",
           !.report = Finalised(BuildReport(harness.rows, harness.cancelled))]
    /\ UNCHANGED <<setup, file, job, dbrun, cancel, apiDown>>

(* finish(): the row leaves running once; a fault only marks the report.   *)
FinishRun ==
    /\ harness.pc = "finish"
    /\ HGoto("write")
    /\ \/ harness.db /\ UpdateRun(harness.report.status)
       \/ UNCHANGED dbrun
    /\ UNCHANGED <<setup, file, job, cancel, apiDown>>

(* write_report: the harness writes report.json itself, whatever is there, *)
(* and then the files beside it, each of which may raise as well.          *)
WriteReport ==
    /\ harness.pc = "write"
    /\ \/ file' = harness.report /\ HGoto("print")
       \/ (file' = harness.report \/ WriteFails) /\ HGoto("failed")
    /\ UNCHANGED <<setup, job, dbrun, cancel, apiDown>>

PrintReport ==
    /\ harness.pc = "print"
    /\ HGoto(IF apiDown THEN "failed" ELSE "exited")  \* the pipe is closed
    /\ UNCHANGED <<setup, file, job, dbrun, cancel, apiDown>>

(* An operator interrupts the harness: it finishes with what it has.  Once *)
(* the report is built nobody reads the flag.                              *)
Interrupt ==
    /\ harness.pc \in {"start", "case"} /\ ~harness.cancelled
    /\ harness' = [harness EXCEPT !.cancelled = TRUE]
    /\ UNCHANGED <<setup, file, job, dbrun, cancel, apiDown>>

HarnessStep ==
    \/ HarnessStart \/ RunAttempt \/ EndLoop \/ FinishRun
    \/ WriteReport \/ PrintReport

-----------------------------------------------------------------------------
(* cancel_evaluation: read the report (one it cannot parse ends the        *)
(* request), terminate the process if it is registered and alive, write    *)
(* the report that was read as cancelled.                                  *)
CancelRead(x) ==
    /\ cancel[x].pc = "idle" /\ ~apiDown /\ file # NoReport
    /\ cancel' = [cancel EXCEPT ![x] =
           IF file.status \in {"completed", "failed", "cancelled", "torn"}
           THEN [pc |-> "done", payload |-> NoReport]
           ELSE [pc |-> "kill", payload |-> file]]
    /\ UNCHANGED <<setup, file, job, harness, dbrun, apiDown>>

CancelKill(x) ==
    /\ cancel[x].pc = "kill" /\ ~apiDown
    /\ cancel' = [cancel EXCEPT ![x].pc = "write"]
    /\ IF job.pc = "communicate" /\ HarnessAlive THEN Kill
       ELSE UNCHANGED <<harness, file>>
    /\ UNCHANGED <<setup, job, dbrun, apiDown>>

CancelWrite(x) ==
    /\ cancel[x].pc = "write" /\ ~apiDown
    /\ file' = [cancel[x].payload EXCEPT !.status = "cancelled"] \/ WriteFails
    /\ cancel' = [cancel EXCEPT ![x] = [pc |-> "done", payload |-> NoReport]]
    /\ UNCHANGED <<setup, job, harness, dbrun, apiDown>>

(* The API process dies: task, process table and requests are gone.        *)
ApiCrash ==
    /\ ~apiDown /\ job.pc # "none"
    /\ apiDown' = TRUE
    /\ UNCHANGED <<setup, file, job, harness, dbrun, cancel>>

EJNext ==
    \/ CreateEvaluation \/ JobStep \/ HarnessStep \/ Interrupt \/ ApiCrash
    \/ \E x \in Cancellers : CancelRead(x) \/ CancelKill(x) \/ CancelWrite(x)

(* The task runs in the server's thread pool, and its wait for the         *)
(* subprocess is bounded by an hour: nothing else is needed to settle.     *)
EJFairness == WF_ejVars(JobStep)
EJSpec == EJInit /\ [][EJNext]_ejVars /\ EJFairness

-----------------------------------------------------------------------------
(* What stands in report.json is honest whoever wrote it last, the task,   *)
(* the harness or a stale cancel request: "completed" means that every     *)
(* attempt of every case is in it; an open release gate means that no case *)
(* behind it timed out or raised, every case that needs a verdict has one  *)
(* from a judge with a profile of its own, sensitive cases were reviewed   *)
(* and the dataset does not still wait for a human approval.               *)
ReportHonest ==
    /\ file.status = "completed" => Len(file.rows) = Total
    /\ file.gate =>
         /\ setup.mode = "release" /\ ~setup.approval
         /\ \A i \in DOMAIN file.rows :
              LET r == file.rows[i]
              IN  /\ r.error = "none" /\ r.hard
                  /\ r.track # "intent_route" =>
                       r.judge \in {"pass", "fail"} /\ setup.profile = "own"
                  /\ r.track \in Sensitive => setup.labels = "passing"

(* An accepted evaluation comes to a final status: a harness that cannot   *)
(* start, hangs, is killed, dies in a write or prints nothing, and a task  *)
(* whose own write fails, still end in one.  Two things only prevent it:   *)
(* the API dies, or the task cannot write the report of its failure        *)
(* either and leaves through its except clause.                            *)
FinalStatuses == {"completed", "incomplete", "failed", "cancelled"}
EvaluationSettles ==
    (file.status = "queued")
        ~> (apiDown \/ job.pc = "raised" \/ file.status \in FinalStatuses)

=============================================================================
