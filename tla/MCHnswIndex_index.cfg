SPECIFICATION Spec
CONSTANTS
    Point <- Line
    M = 2
    Ef = 2
    MaxNodes = 6
    MaxLayered = 5
    TopLevel = 1
    IntValues = 8
    K = {0, 1, 3, 4, 9}
    EfSearch = {1, 2, 6}
    Dimensions = 1
INVARIANTS
    SearchExactOnReachable
    SearchExactWhileSmall
    SearchWellFormed
    ListsDistinct
PROPERTIES
    ImplementsHnswGraph
CHECK_DEADLOCK FALSE
