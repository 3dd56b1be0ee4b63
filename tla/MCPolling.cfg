SPECIFICATION Spec
CHECK_DEADLOCK FALSE
CONSTANTS
    Instances = {p1, p2}
    Transfers = {t1, t2}
    Names = {t1, t2}
    NameOf <- OwnName
    MultiFile = {t1, t2}
    Requests = {}
    UICommands = {}
    Faults = {"copy", "db", "crash"}
    CleanupAfterImport = TRUE
    NoTransfer = NoTransfer
    NoInstance = NoInstance
SYMMETRY Symmetric
INVARIANTS
    SingleCustody
    DownloadedIsLocal
    OfferedIsWhole
PROPERTIES
    OnlyImportedIsDeleted
    LifecycleSpec
