SPECIFICATION BackendSpec
CONSTANTS
    Object = {o1, o2, o3}
    Address = {a1, a2, a3}
    File <- AnyFile
    WordWidth = 3
    HeaderSize = 4
    FloatSize = 4
    Generations = 4
    MaxNodes = 4
SYMMETRY StoreSymmetry
INVARIANTS
    OwnedOnce
    ReadsInBounds
    LooksOnce
