SPECIFICATION Spec
CONSTANTS
    M = 2
    Ef = 3
    MaxNodes = 6
    MaxLayered = 4
    TopLevel = 2
INVARIANTS
    TypeOK
    LinksOnLayer
    EntryOnTop
    Bidirectional
    DegreeBounded
    NoneLost
PROPERTIES
    InsertReturns
CHECK_DEADLOCK FALSE
