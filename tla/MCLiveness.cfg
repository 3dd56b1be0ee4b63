SPECIFICATION FairSpec
CHECK_DEADLOCK FALSE
CONSTANTS
    Instances = {p1}
    Transfers = {t1, t2}
    Names = {t1, t2}
    NameOf <- OwnName
    MultiFile = {}
    Requests = {}
    UICommands = {}
    Faults = {"io"}
    CleanupAfterImport = TRUE
    NoTransfer = NoTransfer
    NoInstance = NoInstance
PROPERTIES
    ClaimIsResolved
    AvailableIsDownloaded
    ImportedIsCleaned
