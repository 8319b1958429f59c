SPECIFICATION Spec
CONSTANTS
    Nodes = {n1, n2, n3, n4, n5}
    NoNode = NoNode
    MaxTerm = 2
    MaxLog = 1
    MaxBatch = 1
    MaxWrites = 0
    MaxCrashes = 0
    LazyFlush = FALSE
SYMMETRY Symmetry
CHECK_DEADLOCK FALSE
INVARIANTS RollbackAfterCommitPoint
