SPECIFICATION Spec
CONSTANTS
    Torrents = {t1}
    Ids = {i1, i2}
    Legacy = {}
    ArrCalls = {a1, a2}
    UICalls = {u1}
    Columns = {c1, c2}
    Values = {v1, v2}
    Faults = {"api", "db", "lost"}
    None = None
INVARIANTS
    TypeOK
    AddedKeepsItsHash
    GoalsAreFollowed
PROPERTY RemovesOnlyWhatWasMeant
CHECK_DEADLOCK FALSE
SYMMETRY Symmetry
