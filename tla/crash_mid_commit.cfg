SPECIFICATION FairSpec
CONSTANTS
    Runs = {A}
    Requests = {q1, q2, q3}
    Keys = {k1}
    Fingerprint <- MCFingerprint
    StepLimit = 4
    Faults = {}
    MaxCrashes = 1
PROPERTY Settles
CHECK_DEADLOCK FALSE
