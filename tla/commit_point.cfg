SPECIFICATION Spec
CONSTANTS
    Nodes = {n1, n2, n3}
    NoNode = NoNode
    MaxTerm = 3
    MaxLog = 2
    MaxBatch = 1
    MaxWrites = 1
    MaxCrashes = 1
    LazyFlush = TRUE
CONSTRAINT Explored
SYMMETRY Symmetry
CHECK_DEADLOCK FALSE
INVARIANTS TypeOK CommittedSurvives SnapshotIsCommitted RollbackAfterCommitPoint AcknowledgedIsCommitted
PROPERTY ImplementsCommittedLog
