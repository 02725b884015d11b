SPECIFICATION Spec
CONSTANTS
    Id = {i1, i2, i3}
    Vec = {v1}
    Capacity = 2
    MaxSegments = 3
    SaveIsLast = FALSE
    Recreate = TRUE
    Faults = {"crash"}
    Unreadable = Unreadable
    NoEntry = NoEntry
SYMMETRY IdSymmetry
INVARIANTS
    NoMixedLoad
CHECK_DEADLOCK FALSE
