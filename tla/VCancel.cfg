SPECIFICATION FairSpec
CHECK_DEADLOCK FALSE
CONSTANTS
    Instances = {p1}
    Transfers = {t1}
    Names = {t1}
    NameOf <- OwnName
    MultiFile = {}
    Requests = {r1}
    UICommands = {"cancel"}
    Faults = {}
    CleanupAfterImport = TRUE
    NoTransfer = NoTransfer
    NoInstance = NoInstance
PROPERTIES
    CancelIsReported
