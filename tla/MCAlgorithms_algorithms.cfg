SPECIFICATION Spec
CONSTANTS
    MaxLevelOnDisk = 2
    Digits <- MCDigits
    Keys <- MCKeys
    Limit <- MCLimit
    MaxUint = 22
    DimWidth = 64
    Steps = 5
    One = 30
    Tiny = 3
    FlatCalls <- MCFlatCalls
    SearchCalls <- MCSearchCalls
    GraphCalls <- MCGraphCalls
    RegistryCalls <- MCRegistryCalls
    ExtractCalls <- MCExtractCalls
    KernelCalls <- MCKernelCalls
    TrainingCalls <- MCTrainingCalls
    Components <- MCComponents
INVARIANTS
    FlatIsExact
    MergeIsExact
    HnswReadBack
    RegistryReadBack
    HandEditedIsExact
    EveryTermOnce
    WithinHalfStep
CHECK_DEADLOCK FALSE
