SPECIFICATION Spec
CONSTANTS
    Releases = {R1, R2}
    Runs = {"a", "b"}
    Schedulers = {s1, s2}
    Ladder <- ShortLadder
    Percent <- ShortPercent
    Bucket <- TwoBuckets
    LowRisk = {"a", "b"}
    Gated = {R1}
SYMMETRY Symmetry
CONSTRAINT RivalStaysInShadow
INVARIANTS
    ShadowedBeforeServed
    WithinItsShare
PROPERTIES
    ClosedStays
    MeasuredInItsWindow
CHECK_DEADLOCK FALSE
