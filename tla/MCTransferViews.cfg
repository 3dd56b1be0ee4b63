SPECIFICATION SpecV
CHECK_DEADLOCK FALSE
CONSTANTS
    Instances = {p1}
    Transfers = {t1}
    Names = {t1}
    NameOf <- OwnName
    MultiFile = {t1}
    Requests = {}
    UICommands = {}
    Faults = {"copy", "crash"}
    CleanupAfterImport = TRUE
    NoTransfer = NoTransfer
    NoInstance = NoInstance
    Viewers = {v1}
INVARIANTS
    ViewTypeOK
    CompleteIsLocal
PROPERTIES
    StagesAdvance
