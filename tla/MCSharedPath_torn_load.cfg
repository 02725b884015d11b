SPECIFICATION SharedSpec
CONSTANTS
    Id = {i1, i2}
    Vec = {v1}
    Capacity = 2
    MaxSegments = 2
    SaveIsLast = FALSE
    Recreate = FALSE
    Faults = {}
    Unreadable = Unreadable
    NoEntry = NoEntry
INVARIANTS
    ReaderGraphWhole
