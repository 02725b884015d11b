SPECIFICATION Spec
CONSTANTS
    Id = {a, b, c, d}
    Capacity = 2
    MaxBatch = 3
    MaxVectors = 6
SYMMETRY IdSymmetry
INVARIANTS
    NodeIsItsVector
    SealedAligned
    RollbackRestoresRows
    AcceptedStays
