SPECIFICATION FairSpec
CHECK_DEADLOCK FALSE
CONSTANTS
    w1 = w1
    w2 = w2
    Workers = {w1, w2}
    Layouts <- TwoLayouts
    MaxCrashes = 1
    MaxRemovals = 1
INVARIANTS
    TypeOK
    FailsOnlyIfExposed
PROPERTIES
    DownloadSucceeds
    OrphansCollapse
