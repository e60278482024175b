SPECIFICATION Spec
CONSTANTS
    Runs = {A}
    Requests = {q1, q2, q3, q4}
    Keys = {k1, k2}
    Fingerprint <- MCFingerprint
    StepLimit = 4
    Faults = {"worker"}
    MaxCrashes = 1
SYMMETRY Symmetry
CONSTRAINT TwoOfAKind
INVARIANTS
    AtMostOneCall
    CancelledMeansUntouched
    CompletedMeansApplied
    WaitingHumanHasTicket
    OneLiveToken
    ReservationNotAbandoned
    ReplyHonest
PROPERTIES
    CancelledStays
    ContractHolds
CHECK_DEADLOCK FALSE
