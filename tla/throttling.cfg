SPECIFICATION FairSpec
CONSTANTS
    o1 = o1  o2 = o2 o3 = o3  w1 = w1
    Ops <- MCOps
    Exclusive <- MCExclusive
    Writers <- MCWriters
    MinSize = 1
    MaxSize = 2
    Timeouts = TRUE
INVARIANTS TypeOK TicketsConserved BatchIsolated
PROPERTIES OpsServed WaitsEnd
