SPECIFICATION FairSpec
CHECK_DEADLOCK FALSE
CONSTANTS
    t1 = t1
    Torrents = {t1}
    RatioLimits <- FewRatios
    IdleLimits <- FewMinutes
    Uploads = {0, 15, 18}
    Seconds <- FewSeconds
    Sizes = {0, 10}
    DefaultRatio = 10
    DefaultMinutes = 3
    IntMax = 511
    Float32Max = 100
    Float32Step = 4
    Faults = {"db"}
    None = None
INVARIANTS
    StopsAtItsGoal
PROPERTIES
    StaysStopped
    SeedingEnds
