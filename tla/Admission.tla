------------------------------ MODULE Admission ------------------------------
(*****************************************************************************)
(* What one message of a conversation is allowed to start.  The executor     *)
(* passes it through the safety detector, lets the model classify it, turns  *)
(* the classification into a route by code-owned rules and then answers in   *)
(* conversation, starts the readonly loop, plans a mutation up to its        *)
(* confirmation card or submits a low-risk request.                          *)
(*                                                                           *)
(* RunControl models the life of the run around these decisions and AgentLoop*)
(* the loop they start; here the decisions themselves are modelled, with the *)
(* provider's answer as untrusted data.  A message is the set of features    *)
(* the code extracts from its text.                                          *)
(*****************************************************************************)
EXTENDS Integers, Sequences, FiniteSets

CONSTANTS
    Texts,      \* what the user may write: [mark, order, skus, reason, address]
    Answers,    \* what the provider may return for a classification
    Orders,     \* the order book: order id -> [owner, status, item]
    Actor,      \* the authenticated user of the run
    MaxTurns    \* bound: messages of one run

VARIABLES
    routingV2,  \* both feature flags of the conversational routes are on; never changes
    run,        \* status, execution mode, workflow and policy of the run's row
    turn,       \* the message being handled
    pc,         \* where the executor is
    tries,      \* classification requests sent for this message
    answer,     \* the provider's answer that routed the run
    seen,       \* the last message whose text left the safety boundary
    effect,     \* what the last dispatched message started
    turns       \* messages so far

adVars == <<routingV2, run, turn, pc, tries, answer, seen, effect, turns>>

None == "none"
NoMessage == [mark |-> None, order |-> None, skus |-> <<>>,
              reason |-> FALSE, address |-> None]

-------------------------------------------------------------------------------
(*****************************************************************************)
(* Safety and risk.  Hard blocks hold whatever the flags say.  The executor  *)
(* configures no semantic triage, so nothing else hands a message over.      *)
(*****************************************************************************)
HardBlock(m) == m.mark = "p0"
SafetyHandoff(m) == HardBlock(m)

Assess(m) ==
    CASE HardBlock(m) -> [domain |-> "unknown", risk |-> "high"]
      [] m.mark = "social" -> [domain |-> "social", risk |-> "low"]
      [] m.mark = "capability" -> [domain |-> "capability", risk |-> "low"]
      [] OTHER -> [domain |-> "unknown", risk |-> "unknown"]

(*****************************************************************************)
(* _parse_classification: known aliases are translated, every other label    *)
(* becomes unknown.  An answer that is not a classification does not parse.  *)
(* Scores are hundredths; a dimension may be left unscored (-1).             *)
(*****************************************************************************)
ProviderAnswer ==
    [wellFormed : BOOLEAN, intent : STRING, hint : STRING, conf : 0..100,
     domainConf : -1..100, riskConf : -1..100, domain : STRING, risk : STRING]

ASSUME AnswerAssumption == Answers \subseteq ProviderAnswer

Parses(a) == a.wellFormed

ParsedHint(hint) ==
    CASE hint \in {"read_only", "write"} -> hint
      [] hint = "low" -> "read_only"
      [] OTHER -> "unknown"
ParsedDomain(domain) ==
    CASE domain = "ecommerce" -> "commerce"
      [] domain \in {"commerce", "social", "capability", "unsupported"} -> domain
      [] OTHER -> "unknown"
ParsedRisk(risk) == IF risk \in {"low", "medium", "high"} THEN risk ELSE "unknown"

(* The candidate: the risk assessment fills in what the model left unknown.  *)
Known(label, assessed) == IF label = "unknown" THEN assessed ELSE label
Candidate(a, m) ==
    [intent |-> a.intent, hint |-> ParsedHint(a.hint), conf |-> a.conf,
     domainConf |-> a.domainConf, riskConf |-> a.riskConf,
     domain |-> Known(ParsedDomain(a.domain), Assess(m).domain),
     risk |-> Known(ParsedRisk(a.risk), Assess(m).risk)]

(*****************************************************************************)
(* Calibration: piecewise linear curves through these points, confidences in *)
(* hundredths and results in ten-thousandths, where the curves are exact.    *)
(* A dimension the model did not score (-1) takes the overall score; one     *)
(* whose label is unknown is worth nothing.                                  *)
(*****************************************************************************)
DomainCurve == <<<<0, 0>>, <<50, 40>>, <<70, 60>>, <<80, 72>>, <<90, 84>>, <<95, 91>>, <<100, 97>>>>
RiskCurve == <<<<0, 0>>, <<50, 35>>, <<70, 58>>, <<80, 70>>, <<90, 84>>, <<95, 92>>, <<100, 98>>>>

\* The first segment of the curve that reaches the score.
Segment(points, raw) ==
    CHOOSE j \in 1..(Len(points) - 1) :
        /\ raw <= points[j + 1][1]
        /\ j > 1 => raw > points[j][1]
ConservativeCurve(points, raw) ==
    LET l == points[Segment(points, raw)]
        r == points[Segment(points, raw) + 1]
    IN  l[2] * 100 + (raw - l[1]) * (((r[2] - l[2]) * 100) \div (r[1] - l[1]))

Scored(x, overall) == IF x = -1 THEN overall ELSE x
CalibratedDomain(c) ==
    IF c.domain = "unknown" THEN 0
    ELSE ConservativeCurve(DomainCurve, Scored(c.domainConf, c.conf))

\* Mutant: the risk score stands in even where the risk is unknown or unscored.
MutCalibratedRisk(c) == 10000

CalibratedRisk(c) ==
    IF c.risk = "unknown" THEN 0
    ELSE ConservativeCurve(RiskCurve, Scored(c.riskConf, c.conf))

-------------------------------------------------------------------------------
(*****************************************************************************)
(* The route catalogue.  Readonly intents differ only in the workflow label, *)
(* which no decision below looks at.                                         *)
(*****************************************************************************)
WorkflowOf ==
    [add_product |-> "cart_management", remove_product |-> "cart_management",
     cancel_order |-> "cancel_order", change_order |-> "change_order",
     request_invoice |-> "invoice_request", delivery_issue |-> "delivery_issue",
     missing_item |-> "delivery_issue", damaged_delivery |-> "delivery_issue",
     wrong_item |-> "delivery_issue", request_refund |-> "refund",
     return_product |-> "return", exchange_product |-> "exchange", pay |-> "checkout"]
ReadonlyIntents ==
    {"track_order", "order_history", "track_delivery", "delivery_time",
     "shipping_costs", "refund_status", "refund_policy", "return_policy",
     "availability", "product_information", "product_issue", "payment_issue",
     "payment_methods", "customer_service", "technical_issue", "sales_period"}
ConversationDomain ==
    [greeting |-> "social", thanks |-> "social", social_chat |-> "social",
     capability_query |-> "capability", unsupported_low_risk |-> "unsupported"]

MinConfidence == 80
RuleKind(v2, intent) ==
    CASE intent \in DOMAIN WorkflowOf -> "workflow"
      [] intent \in ReadonlyIntents -> "readonly"
      [] intent = "human_agent" -> "human"
      [] v2 /\ intent \in DOMAIN ConversationDomain -> "conversation"
      [] OTHER -> None

Handoff == [outcome |-> "handoff"]
AskUser == [outcome |-> "ask_user"]
Execute(flow, workflow, policy) ==
    [outcome |-> "execute", flow |-> flow, workflow |-> workflow, policy |-> policy]

(* IntentRouter.decide: the checks in the order of the code.  A write hint   *)
(* makes a readonly rule a conflict; it can never make one a workflow.       *)
Converses(c) ==
    IF CalibratedDomain(c) < MinConfidence * 100 THEN AskUser
    ELSE IF \/ CalibratedRisk(c) < MinConfidence * 100
            \/ ~(c.risk = "low" /\ c.domain \in {"social", "capability", "unsupported"})
            \/ c.domain # ConversationDomain[c.intent]
            \/ c.hint = "write"
    THEN Handoff
    ELSE Execute("readonly", "conversational_response", "conversation")

Decide(v2, c) ==
    LET kind == RuleKind(v2, c.intent)
    IN  IF kind \in {None, "human"} THEN Handoff
        ELSE IF c.conf < MinConfidence THEN AskUser
        ELSE IF kind = "conversation" THEN Converses(c)
        ELSE IF kind = "workflow" THEN Execute("workflow", WorkflowOf[c.intent], "execute")
        ELSE IF c.hint = "write" THEN Handoff
        ELSE Execute("readonly", "readonly", "execute")

(* The candidate router always knows the conversational routes; a canary     *)
(* assignment, given only to messages assessed as low risk, may execute it.  *)
Routed(c, m, canary) ==
    LET current == Decide(routingV2, c)
        shadow == Decide(TRUE, c)
    IN  IF canary /\ Assess(m).risk = "low" /\ shadow.outcome = "execute"
        THEN shadow ELSE current

-------------------------------------------------------------------------------
(*****************************************************************************)
(* The mutation planner.                                                     *)
(*****************************************************************************)
MutationType ==
    [cancel_order |-> "cancel_order", change_order |-> "change_order",
     refund |-> "request_refund", return |-> "return_product",
     exchange |-> "exchange_product"]
RequiredSlots ==
    [cancel_order |-> {"order_id", "reason"}, change_order |-> {"order_id", "new_address"},
     request_refund |-> {"order_id", "item_id", "reason"},
     return_product |-> {"order_id", "item_id", "reason"},
     exchange_product |-> {"order_id", "item_id", "replacement_sku"}]

(* extract_arguments: the slots the text fills for this mutation, and the    *)
(* item it names: the first SKU, and for an exchange the last one as the     *)
(* replacement, which is the same one when the text has only one.            *)
NamesItem(type) == type \in {"request_refund", "return_product", "exchange_product"}
Extracted(type, m) ==
    {s \in RequiredSlots[type] :
        CASE s = "order_id" -> m.order # None
          [] s = "item_id" -> m.skus # <<>>
          [] s = "replacement_sku" -> m.skus # <<>>
          [] s = "reason" -> m.reason
          [] s = "new_address" -> m.address # None}
ItemOf(type, m) == IF NamesItem(type) THEN m.skus[1] ELSE Orders[m.order].item

Eligible(type, order) ==
    type \in {"cancel_order", "change_order"} => Orders[order].status \in {"processing", "paid"}

\* Mutant: an order that exists is enough, whoever owns it.
MutOwned(m) == m.order \in DOMAIN Orders

Owned(m) == m.order \in DOMAIN Orders /\ Orders[m.order].owner = Actor

(* MutationPlanner.prepare: the code it ends with.                           *)
Prepare(type, m) ==
    IF type = "change_order" /\ m.address = "short" THEN "INVALID_ARGUMENT"
    ELSE IF Extracted(type, m) # RequiredSlots[type] THEN "MISSING_SLOTS"
    ELSE IF ~Owned(m) THEN "RESOURCE_NOT_FOUND"
    ELSE IF ~Eligible(type, m.order) THEN "POLICY_DENIED"
    ELSE IF ItemOf(type, m) # Orders[m.order].item THEN "ITEM_NOT_FOUND"
    ELSE "prepared"

(* extract_low_risk_arguments and execute_low_risk's own check: the order is *)
(* taken as written, its owner is not looked up.                             *)
LowRiskRoutes == {"invoice_request", "delivery_issue"}
LowRiskReady(workflow, m) ==
    m.order # None /\ (workflow = "delivery_issue" => m.skus # <<>>)

-------------------------------------------------------------------------------
NoAnswer == [wellFormed |-> FALSE]
NoEffect == [kind |-> None]
Pre == [status |-> "created", flow |-> None, workflow |-> None, policy |-> None]

ADInit ==
    /\ routingV2 \in BOOLEAN
    /\ run = Pre
    /\ turn = NoMessage
    /\ pc = "idle"
    /\ tries = 0
    /\ answer = NoAnswer
    /\ seen = NoMessage
    /\ effect = NoEffect
    /\ turns = 0

(* The executor's call for a message returns with the run in this status.    *)
Returns(s) ==
    /\ run' = [run EXCEPT !.status = s]
    /\ pc' = "idle"
    /\ turn' = NoMessage
    /\ tries' = 0

(* The user writes; a run that waits for an answer is taken up again.        *)
Say(m) ==
    /\ pc = "idle" /\ turns < MaxTurns
    /\ run.status \in {"created", "waiting_user"}
    /\ turn' = m
    /\ turns' = turns + 1
    /\ pc' = "safety"
    /\ UNCHANGED <<routingV2, run, tries, answer, seen, effect>>

\* Mutant: an answered run continues before its new message is looked at.
MutSafety ==
    /\ pc = "safety"
    /\ \/ SafetyHandoff(turn) /\ run.workflow = None /\ Returns("waiting_human")
       \/ /\ ~SafetyHandoff(turn) \/ run.workflow # None
          /\ pc' = IF run.workflow # None THEN "dispatch" ELSE "classify"
          /\ UNCHANGED <<run, turn, tries>>
    /\ UNCHANGED <<routingV2, answer, seen, effect, turns>>

(* Safety comes first, for the answers of a run that is already routed too;  *)
(* such a run then goes on with its workflow, any other is classified.       *)
Safety ==
    /\ pc = "safety"
    /\ \/ SafetyHandoff(turn) /\ Returns("waiting_human")
       \/ /\ ~SafetyHandoff(turn)
          /\ pc' = IF run.workflow # None THEN "dispatch" ELSE "classify"
          /\ UNCHANGED <<run, turn, tries>>
    /\ UNCHANGED <<routingV2, answer, seen, effect, turns>>

(* A classification request fails or returns something that does not parse:  *)
(* it is sent once more, and then the classifier counts as unavailable: a    *)
(* run that has never been routed is handed to a human, any other is refused *)
(* by select_route and fails.  A body without choices is neither sent again  *)
(* nor handed over: its IndexError ends the run.                             *)
ClassifyFails ==
    /\ pc = "classify"
    /\ seen' = turn
    /\ \/ tries = 0 /\ tries' = 1 /\ UNCHANGED <<run, turn, pc>>
       \/ tries = 1 /\ run.status = "created" /\ Returns("waiting_human")
       \/ tries = 1 /\ run.status # "created" /\ Returns("failed")
       \/ Returns("failed")                     \* IndexError
    /\ UNCHANGED <<routingV2, answer, effect, turns>>

(* An answer parses: the route is decided and locked in the run's row, which *)
(* only a run that has never been routed accepts.                            *)
Classify(a, canary) ==
    LET d == Routed(Candidate(a, turn), turn, canary)
    IN  /\ pc = "classify"
        /\ Parses(a)
        /\ seen' = turn
        /\ \/ run.status # "created" /\ Returns("failed") /\ UNCHANGED answer
           \/ /\ run.status = "created" /\ d.outcome # "execute"
              /\ Returns(IF d.outcome = "handoff" THEN "waiting_human" ELSE "waiting_user")
              /\ UNCHANGED answer
           \/ /\ run.status = "created" /\ d.outcome = "execute"
              /\ run' = [status |-> "running", flow |-> d.flow,
                         workflow |-> d.workflow, policy |-> d.policy]
              /\ pc' = "dispatch"
              /\ answer' = a
              /\ UNCHANGED <<turn, tries>>
        /\ UNCHANGED <<routingV2, effect, turns>>

Starts(kind) == effect' = [kind |-> kind, message |-> turn, workflow |-> run.workflow]

(* The conversational answer is code-owned text; the run is complete.        *)
Converse ==
    /\ pc = "dispatch" /\ run.policy = "conversation"
    /\ Starts("conversation")
    /\ Returns("completed")
    /\ UNCHANGED <<routingV2, answer, seen, turns>>

(* The readonly loop takes over and ends in one of its verdicts.             *)
ReadonlyLoop ==
    /\ pc = "dispatch" /\ run.policy = "execute" /\ run.flow = "readonly"
    /\ Starts("readonly")
    /\ seen' = turn
    /\ \E s \in {"completed", "waiting_user", "waiting_human", "failed"} : Returns(s)
    /\ UNCHANGED <<routingV2, answer, turns>>

(* A mutation is planned.  Every refusal ends the run as failed: what is     *)
(* prepared for it, a question for the missing slots or a ticket for a human,*)
(* is lost when the handler reads handoff_id, which is bound nowhere.        *)
PlanMutation ==
    /\ pc = "dispatch" /\ run.policy = "execute" /\ run.flow = "workflow"
    /\ run.workflow \in DOMAIN MutationType
    /\ seen' = turn
    /\ LET result == Prepare(MutationType[run.workflow], turn)
       IN  \/ result = "prepared" /\ Starts("preview") /\ Returns("waiting_confirmation")
           \/ result # "prepared" /\ Returns("failed") /\ UNCHANGED effect
    /\ UNCHANGED <<routingV2, answer, turns>>

(* A low-risk request is submitted and its outcome observed; a workflow      *)
(* nobody implements and a request that is not complete end in the same      *)
(* handler as a refused mutation, and the run fails.                         *)
SubmitLowRisk ==
    /\ pc = "dispatch" /\ run.policy = "execute" /\ run.flow = "workflow"
    /\ run.workflow \notin DOMAIN MutationType
    /\ seen' = turn
    /\ IF run.workflow \in LowRiskRoutes /\ LowRiskReady(run.workflow, turn)
       THEN /\ Starts("low_risk")
            /\ \E s \in {"completed", "failed", "waiting_human"} : Returns(s)
       ELSE Returns("failed") /\ UNCHANGED effect
    /\ UNCHANGED <<routingV2, answer, turns>>

ADNext ==
    \/ \E m \in Texts : Say(m)
    \/ Safety \/ ClassifyFails
    \/ \E a \in Answers, canary \in BOOLEAN : Classify(a, canary)
    \/ Converse \/ ReadonlyLoop \/ PlanMutation \/ SubmitLowRisk

ADSpec == ADInit /\ [][ADNext]_adVars

-------------------------------------------------------------------------------
(* An unsafe text never leaves the safety boundary: neither the classifier,  *)
(* the loop's prompt, the planner nor a low-risk request gets it, whether it *)
(* opens a run or answers a question of one that is already routed.          *)
UnsafeStaysOut == ~HardBlock(seen)

(* Nothing is started on the provider's word alone.  A readonly loop or a    *)
(* conversation is never started on an answer that speaks of a write or is   *)
(* below the threshold; a conversation also needs a low risk that the model  *)
(* or the assessment vouched for, and raw scores of at least 0.87 for the    *)
(* domain and 0.88 for the risk, the first hundredths the curves lift over   *)
(* 0.80; and only a write intent of the catalogue reaches a write.           *)
RouteEarned ==
    effect.kind # None =>
        /\ answer.conf >= MinConfidence
        /\ effect.kind \in {"readonly", "conversation"} => answer.hint # "write"
        /\ effect.kind = "conversation" =>
             /\ answer.risk = "low" \/ effect.message.mark \in {"social", "capability"}
             /\ answer.risk \notin {"medium", "high"}
             /\ Scored(answer.domainConf, answer.conf) >= 87
             /\ Scored(answer.riskConf, answer.conf) >= 88
        /\ effect.kind \in {"preview", "low_risk"} =>
             answer.intent \in DOMAIN WorkflowOf

(* A confirmation card is only made for the actor's own order, in a state    *)
(* the change is allowed in, and for the item that order holds.              *)
CardIsSound ==
    effect.kind = "preview" =>
        LET o == Orders[effect.message.order]
            type == MutationType[effect.workflow]
        IN  /\ o.owner = Actor
            /\ type \in {"cancel_order", "change_order"} => o.status \notin {"shipped", "delivered"}
            /\ NamesItem(type) => o.item = effect.message.skus[1]
===============================================================================
