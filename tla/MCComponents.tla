---------------------------- MODULE MCComponents ----------------------------
(***************************************************************************)
(* The control plane, an evaluation, the outbox and the admission of a     *)
(* message share no state, so a behaviour moves one of them, chosen at the *)
(* start, and leaves the others in a fixed initial state.                  *)
(***************************************************************************)
EXTENDS ControlPlane, EvaluationJob, Outbox, Admission

VARIABLE part

TwoCases == <<"intent_route", "long_tail_response_v1">>

(* Labels and approval matter to a release judged by its own profile.      *)
SomeSetups ==
    {s \in AllSetups :
        /\ s.mode = "debug" => s.labels = "absent" /\ ~s.approval
        /\ s.judge = "off" => s.mode = "debug" /\ s.profile = "none"
        /\ s.profile # "own" => s.labels = "passing" \/ s.mode = "debug"
        /\ s.approval => s.labels = "passing" /\ s.profile = "own"}

(***************************************************************************)
(* A small order book, messages with the features that matter for it, and  *)
(* the answers a provider may give around every threshold.                 *)
(***************************************************************************)
OrderBook ==
    [open |-> [owner |-> "me", status |-> "processing", item |-> "i1"],
     closed |-> [owner |-> "me", status |-> "delivered", item |-> "i1"],
     foreign |-> [owner |-> "other", status |-> "processing", item |-> "i2"]]

Text(mark, order, skus, reason, address) ==
    [mark |-> mark, order |-> order, skus |-> skus, reason |-> reason, address |-> address]

SampleTexts ==
    {Text(None, o, s, r, None) : o \in DOMAIN OrderBook \cup {None, "unknown"},
         s \in {<<>>, <<"i1">>, <<"i2">>, <<"i1", "i3">>}, r \in BOOLEAN}
    \cup {Text(None, o, <<>>, FALSE, a) : o \in DOMAIN OrderBook, a \in {"short", "full"}}
    \cup {Text(k, None, <<>>, FALSE, None) : k \in {"p0", "social", "capability"}}
    \cup {Text("p0", "open", <<"i1">>, TRUE, None)}

Answer(intent, hint, conf, dc, rc, domain, risk) ==
    [wellFormed |-> TRUE, intent |-> intent, hint |-> hint, conf |-> conf,
     domainConf |-> dc, riskConf |-> rc, domain |-> domain, risk |-> risk]

(* Business answers: every kind of rule, every hint, both sides of 0.80.   *)
(* Small talk: scored and unscored dimensions around where the calibrated  *)
(* score reaches 0.80 (0.8667 for the domain, 0.8715 for the risk).        *)
ProviderAnswers ==
    {Answer(i, hint, c, -1, -1, "ecommerce", "low") :
        i \in {"track_order", "cancel_order", "change_order", "request_refund",
               "exchange_product", "request_invoice", "wrong_item", "pay",
               "human_agent", "invented"},
        hint \in {"low", "write", "destructive"}, c \in {79, 80}}
    \cup {Answer(i, hint, c, dc, rc, d, r) :
        i \in {"greeting", "unsupported_low_risk"}, hint \in {"read_only", "write"},
        c \in {80, 95}, dc \in {-1, 86, 87}, rc \in {-1, 87, 88},
        d \in {"social", "unsupported", "chat"}, r \in {"low", "high", "harmless"}}

-----------------------------------------------------------------------------
Init ==
    /\ CPInit /\ EJInit /\ OBInit /\ ADInit
    /\ part \in {"control", "evaluation", "outbox", "admission"}
    /\ part # "control" => operation = "stop_release"
    /\ part # "evaluation" => setup = CHOOSE s \in Setups : TRUE
    /\ part # "admission" => ~routingV2

Next ==
    /\ \/ part = "control" /\ CPNext /\ UNCHANGED <<ejVars, obVars, adVars>>
       \/ part = "evaluation" /\ EJNext /\ UNCHANGED <<cpVars, obVars, adVars>>
       \/ part = "outbox" /\ OBNext /\ UNCHANGED <<cpVars, ejVars, adVars>>
       \/ part = "admission" /\ ADNext /\ UNCHANGED <<cpVars, ejVars, obVars>>
    /\ UNCHANGED part

Spec == Init /\ [][Next]_<<cpVars, ejVars, obVars, adVars, part>> /\ EJFairness
=============================================================================
