SPECIFICATION Spec
CONSTANTS
    Id = {i1, i2, i3}
    Vec = {v1}
    Capacity = 2
    MaxSegments = 3
    SaveIsLast = TRUE
    Recreate = FALSE
    Faults = {"short_write"}
    Unreadable = Unreadable
    NoEntry = NoEntry
SYMMETRY IdSymmetry
INVARIANTS
    SavedIsDurable
CHECK_DEADLOCK FALSE
