SPECIFICATION FairSpec
CHECK_DEADLOCK FALSE
CONSTANTS
    NumFiles = 3
    MaxParallel = 2
    Faults = {"api", "io", "copy"}
INVARIANTS
    TypeOK
    FinishedIsWhole
PROPERTIES
    ReturnsUnlessStuck
    DownloadsAsPipeline
