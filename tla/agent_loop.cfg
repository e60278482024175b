SPECIFICATION FairSpec
CONSTANTS
    Tools = {"order", "delivery", "knowledge", "payment", "refund", "hidden"}
    Resolvable = {"order", "delivery", "knowledge", "payment", "refund"}
    ReadOnly = {"order", "delivery", "knowledge", "payment"}
    Allowed = {"order", "delivery", "knowledge"}
    Bound = {"order", "delivery", "payment", "refund"}
    Evidence = {"e1"}
    Proposals <- MCProposals
    MaxSteps = 3
    RetryAttempts = 2
    MaxAttempts = 2
    TokenBudget = 2
    Conservative = 1
    Reported = {0}
    Starts <- MCStarts
CONSTRAINT Bounds
INVARIANTS
    JournalInOrder
    CitesOnlyRetrieved
    AnswerOfItsAttempt
PROPERTIES
    LoopIsExecutor
    LoopEnds
CHECK_DEADLOCK FALSE
