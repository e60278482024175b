------------------------------ MODULE MCAgentLoop ------------------------------
(* A finite instance of AgentLoop for TLC. *)
EXTENDS LoopExits

Call(tool, args) ==
    [type |-> "call_tool", tool |-> tool, args |-> args, route |-> "locked",
     cites |-> {}]

End(type, cites) ==
    [type |-> type, tool |-> "none", args |-> "none", route |-> "locked",
     cites |-> cites]

\* One decision for every case the validators and the executor tell apart.
MCProposals ==
    {Call("order", args) : args \in {"valid", "foreign", "mistyped"}} \cup
    {Call("delivery", "tracking"), Call("knowledge", "valid"),
     Call("refund", "valid"), Call("hidden", "valid"),
     Call("payment", "valid"),
     End("ask_user", {}), End("handoff", {}), End("respond", {"e1"}),
     [End("respond", {}) EXCEPT !.route = "other"],
     [End("respond", {}) EXCEPT !.tool = "order"]}

\* A run that was just routed, and one that observed an order and a document, asked
\* its user and goes on.
MCStarts ==
    {[row |-> "running_readonly", steps |-> 0, tools |-> {}, evidence |-> {}],
     [row |-> "waiting_user", steps |-> 1, tools |-> {"order", "knowledge"},
      evidence |-> {"e1"}]}

\* Bounds of the run: at most two adapter threads at a time, one of the three
\* interruptions (the API's cancellation, the caller's signal, the deadline) in a
\* run, and nothing after the end of the loop.
Bounds ==
    /\ Cardinality(threads) <= 2
    /\ Cardinality({i \in {"late", "signal", "cancel"} :
                       \/ i = "late" /\ late
                       \/ i = "signal" /\ signal
                       \/ i = "cancel" /\ version # ctx.version}) <= 1
    /\ pc \notin {"done", "raised"}
===============================================================================
