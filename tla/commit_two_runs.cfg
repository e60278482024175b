SPECIFICATION Spec
CONSTANTS
    Runs = {A, B}
    Requests = {q1, q2, q3, q4}
    Keys = {k1}
    Fingerprint <- MCFingerprint
    StepLimit = 3
    Faults = {}
    MaxCrashes = 0
SYMMETRY Symmetry
CONSTRAINT OnlyConfirming
INVARIANTS
    SpentMeansReserved
CHECK_DEADLOCK FALSE
