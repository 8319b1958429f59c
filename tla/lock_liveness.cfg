SPECIFICATION FairSpec
CONSTANTS
    l1 = l1  l2 = l2  l3 = l3  p1 = p1  p2 = p2
    Lockers <- MCLockers
    Partitions <- MCPartitions
    PartitionOf <- MCPartitionOf
    Cleaner = Cleaner
    NoOwner = NoOwner
    RequestModes = {"IX", "S", "X"}
    Priority = FALSE
    UpgradeModes = {}
    LockTimeouts = FALSE
    ConversionTimeouts = FALSE
    MaxRecursion = 1
    CountModulus = 8
PROPERTIES CallsReturn
