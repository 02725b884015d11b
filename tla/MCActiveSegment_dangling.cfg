SPECIFICATION Spec
CONSTANTS
    Id = {a, b, c}
    Capacity = 2
    MaxBatch = 2
    MaxVectors = 4
SYMMETRY IdSymmetry
INVARIANTS
    SearchReadsVectors
