SPECIFICATION Spec
CONSTANTS
    l1 = l1  l2 = l2  l3 = l3  p1 = p1  p2 = p2
    Lockers <- MCLockers
    Partitions <- MCPartitions
    PartitionOf <- MCPartitionOf
    Cleaner = Cleaner
    NoOwner = NoOwner
    RequestModes = {"IS", "IX", "S", "X"}
    Priority = FALSE
    UpgradeModes = {"IX", "X"}
    LockTimeouts = TRUE
    ConversionTimeouts = FALSE
    MaxRecursion = 2
    CountModulus = 8
SYMMETRY Symmetry
INVARIANTS TypeOK Exclusion RequestsKept WaitsExact
PROPERTIES NoOvertaking ImplementsLockSpec
