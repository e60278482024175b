------------------------------ MODULE LoopExits ------------------------------
(***************************************************************************)
(* What the executor of RunControl assumes of a readonly run, and AgentLoop *)
(* as the program behind it.  RunControl lets its worker take one turn     *)
(* after the other (LoopContinues, LoopRepeats, LoopDecides, LoopStops,    *)
(* NoProgress) with the outcome a free choice; AgentLoop computes that     *)
(* outcome from the model, the tools and the budgets.  Here a state of     *)
(* AgentLoop is read as a state of a RunControl with one run, whose job is *)
(* at the readonly loop.                                                   *)
(***************************************************************************)
EXTENDS AgentLoop

Run == "run"

\* RunControl keeps of a context what its handlers read back: of the reason only
\* that the state carries a last_step_reason.
LoopContext ==
    [status |-> ctx.status, version |-> ctx.version, steps |-> ctx.steps,
     flow |-> "readonly", reason |-> IF ctx.reason = "none" THEN "none" ELSE "stop"]

\* Where _execute_message_run is: in a turn of execute_readonly_run, the first one
\* or one that follows a tool call; behind it, at the stamp of the reason, the
\* terminal response or the prompt; or in the handler of its exception.
Point ==
    CASE pc = "stuck" -> "no_progress"
      [] pc = "raised" -> "failing"
      [] pc = "done" -> IF ctx.reason # "none" THEN "reason"
                        ELSE IF ctx.status = "completed" THEN "publish" ELSE "prompt"
      [] OTHER -> IF previous = NoDecision THEN "loop" ELSE "again"

\* The newest checkpoint is the one the loop was started on or stored itself, unless
\* the API has cancelled the run on top of it.  A run that was just routed has none
\* and is read as one whose checkpoint says what its row says.
Stored ==
    [status |-> status, version |-> version,
     steps |-> IF version = ctx.version THEN ctx.steps ELSE ctx.steps + 1,
     flow |-> "readonly", reason |-> LoopContext.reason]

Executor == INSTANCE RunControl WITH
    Requests <- {Run}, Kinds <- {}, Keys <- {}, Texts <- {}, Unsafe <- {},
    Routes <- {}, StepLimit <- MaxSteps, MaxFaults <- 1, MaxCrashes <- 0,
    status <- [run \in {Run} |-> status],
    mode <- [run \in {Run} |-> "readonly"],
    version <- [run \in {Run} |-> version],
    checkpoint <- [run \in {Run} |-> Stored],
    messages <- <<>>,
    open <- [run \in {Run} |-> 0],
    record <- [run \in {Run} |-> "none"],
    effects <- [run \in {Run} |-> 0],
    reply <- [run \in {Run} |-> "none"],
    queue <- <<>>,
    job <- [run |-> Run, text |-> "none", at |-> Point, ctx |-> LoopContext],
    pc <- [q \in {Run} |-> "idle"],
    ask <- [q \in {Run} |-> [kind |-> "none", key |-> "none", text |-> "none",
                             run |-> "none", goal |-> "none",
                             ctx |-> [status |-> "created", version |-> 0, steps |-> 0,
                                      flow |-> "none", reason |-> "none"]]],
    abandoned <- {},
    faults <- IF pc = "raised" THEN 1 ELSE 0,
    crashes <- 0

\* All that the mapping reads of the loop's state.
exitVars == <<status, version, ctx, Point>>

\* The run row's part of RunControl's Withdraw, by a request that is not followed
\* any further here.
Withdrawn ==
    /\ Executor!CommitStep(Run, Executor!Advanced(Stored, "cancelled", Stored.reason))
    /\ UNCHANGED <<ctx, Point>>

\* The actions by which RunControl's worker takes the loop from turn to turn, at
\* the point the loop is at and to the status it stores.
Turn ==
    \/ Executor!LoopContinues(Point)
    \/ Executor!LoopRepeats
    \/ Executor!LoopDecides(Point, status')
    \/ Executor!LoopStops(Point, status')
    \/ Executor!NoProgress

\* execute_readonly_run: whatever the model proposes, the tools answer and the
\* budgets allow, the loop stores and leaves only what the executor's model of it
\* stores and leaves; it fails within the step budget only, repeats a call once
\* before it gives up, and a stop always carries its reason.  The executor
\* passes no cancellation callable, so only steps without its signal count.
LoopIsExecutor ==
    /\ Executor!At("loop")
    /\ [][~signal => Turn \/ Executor!WorkerRaises \/ Withdrawn]_exitVars
===============================================================================
