SPECIFICATION Spec
CONSTANTS
    w1 = w1
    w2 = w2
    s1 = s1
    s2 = s2
    r1 = r1
    r2 = r2
    c1 = c1
    RunSources = {r1, r2}
    EvalCases = {c1}
    Copies = {1}
    Outcomes <- MCOutcomes
    Workers = {w1}
    Events = {"e1"}
    EventType <- MCEventType
    Forged = {"x1"}
    Skills = {s1}
    Creations <- MCCreations
    Verdicts <- MCVerdicts
    Requests = {"q1"}
    Words = {"refund", "parcel"}
    Text <- MCText
    Route <- MCRoute
    Modes = {"active"}
    Threshold = 2
    MinimumScore = 75
    MaxAttributions = 1
CONSTRAINT Bounds
INVARIANT KillSwitchStops
CHECK_DEADLOCK FALSE
