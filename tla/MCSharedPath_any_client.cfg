SPECIFICATION SharedSpec
CONSTANTS
    Id = {i1, i2, i3, i4}
    Vec = {v1}
    Capacity = 2
    MaxSegments = 3
    SaveIsLast = FALSE
    Recreate = FALSE
    Faults = {"crash", "throw", "short_write"}
    Unreadable = Unreadable
    NoEntry = NoEntry
SYMMETRY IdSymmetry
INVARIANTS
    IInv
    IdsAgree
    OwnMapsIntact
    NoMixedLoad
    DamageConfinedToLastSlot
    ReaderCoherent
    ReaderDamageConfined
PROPERTIES
    LiveOnlyGrows
CHECK_DEADLOCK FALSE
