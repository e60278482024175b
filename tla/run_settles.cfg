SPECIFICATION Spec
CONSTANTS
    Requests = {q1, q2}
    Kinds = {"send", "retry", "cancel", "resolve", "review"}
    Keys = {k1, k2}
    Texts = {calm, harm}
    Unsafe = {harm}
    Routes = {"handoff", "ask_user", "chat", "readonly", "workflow"}
    StepLimit = 2
    MaxFaults = 1
    MaxCrashes = 1
PROPERTIES
    AcceptedSettles
CHECK_DEADLOCK FALSE
