SPECIFICATION Spec
CHECK_DEADLOCK FALSE
CONSTANTS
    Instances = {p1}
    Transfers = {t1}
    Names = {t1}
    NameOf <- OwnName
    MultiFile = {t1}
    Requests = {r1, r2}
    UICommands = {"retry", "cancel", "delete", "reset", "purge"}
    Faults = {"api", "io", "copy"}
    CleanupAfterImport = FALSE
    NoTransfer = NoTransfer
    NoInstance = NoInstance
SYMMETRY Symmetric
INVARIANTS
    ClaimHasHolder
    WaitingHasWatcher
    ViewsAgree
