SPECIFICATION Spec
CONSTANTS
    Calls = {1, 2, 3}
    Keys = {"k1"}
    Prints = {"p", "q"}
    Cases <- TwoCases
    Repetitions = 1
    Cancellers = {1}
    Setups <- SomeSetups
    Messages = {"m1", "m2"}
    Publishers = {"a", "b"}
    MaxAttempts = 2
    AttemptBound = 3
    LeaseLimit = 2
    Texts <- SampleTexts
    Answers <- ProviderAnswers
    Orders <- OrderBook
    Actor = "me"
    MaxTurns = 2
INVARIANTS
    ChangeAtMostOnce
    AnsweredMeansDone
    ReportHonest
    UnsafeStaysOut
    RouteEarned
    CardIsSound
PROPERTIES
    EvaluationSettles
    NeverRequeued
CHECK_DEADLOCK FALSE
