SPECIFICATION SharedSpec
CONSTANTS
    Id = {i1, i2, i3, i4}
    Vec = {v1}
    Capacity = 2
    MaxSegments = 4
    SaveIsLast = TRUE
    Recreate = FALSE
    Faults = {"crash", "throw"}
    Unreadable = Unreadable
    NoEntry = NoEntry
SYMMETRY IdSymmetry
INVARIANTS
    SealedIsDurable
    SavedIsDurable
    ReaderMapsIntact
    ReaderNotRefused
PROPERTIES
    ImplementsDurableSet
