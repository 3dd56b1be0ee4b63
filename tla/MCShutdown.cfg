SPECIFICATION SpecS
CHECK_DEADLOCK FALSE
CONSTANTS
    Instances = {p1}
    Transfers = {t1, t2}
    Names = {t1, t2}
    NameOf <- OwnName
    MultiFile = {t1, t2}
    Requests = {}
    UICommands = {}
    Faults = {"copy", "crash"}
    CleanupAfterImport = TRUE
    NoTransfer = NoTransfer
    NoInstance = NoInstance
SYMMETRY Symmetric
INVARIANTS
    SingleCustody
PROPERTIES
    LifecycleSpec
