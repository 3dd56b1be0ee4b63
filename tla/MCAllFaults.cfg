SPECIFICATION SpecS
CHECK_DEADLOCK FALSE
CONSTANTS
    Instances = {p1}
    Transfers = {t1}
    Names = {t1}
    NameOf <- OwnName
    MultiFile = {t1}
    Requests = {r1}
    UICommands = {"retry", "cancel", "delete", "reset", "purge"}
    Faults = {"api", "listing", "io", "copy", "db", "client", "crash"}
    CleanupAfterImport = TRUE
    NoTransfer = NoTransfer
    NoInstance = NoInstance
SYMMETRY Symmetric
INVARIANTS
    TypeOK
    LockMatchesStatus
PROPERTIES
    RowsAppearByClaim
