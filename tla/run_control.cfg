SPECIFICATION Spec
CONSTANTS
    Requests = {q1, q2, q3}
    Kinds = {"send", "retry", "cancel", "resolve", "review"}
    Keys = {k1, k2}
    Texts = {calm, harm}
    Unsafe = {harm}
    Routes = {"handoff", "ask_user", "chat", "readonly", "workflow"}
    StepLimit = 2
    MaxFaults = 1
    MaxCrashes = 1
SYMMETRY Symmetry
INVARIANTS
    AcceptedIsOwned
    ExecutesLockedMode
    EffectBehindRecord
PROPERTIES
    RoutedOnce
    EndedStaysEnded
CHECK_DEADLOCK FALSE
