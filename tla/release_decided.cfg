SPECIFICATION FairSpec
CONSTANTS
    Releases = {R1}
    Runs = {"a", "b"}
    Schedulers = {s1, s2}
    Ladder <- ShortLadder
    Percent <- ShortPercent
    Bucket <- TwoBuckets
    LowRisk = {"a", "b"}
    Gated = {R1}
PROPERTY Decided
CHECK_DEADLOCK FALSE
