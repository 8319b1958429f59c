SPECIFICATION Spec
CONSTANTS
    l1 = l1  l2 = l2  l3 = l3  l4 = l4  l5 = l5  flush = flush  other = other
    Lockers <- MCLockers
    NoLocker = NoLocker
    Resources <- MCResources
    NoResource = NoResource
    RequestModes <- MCRequestModes
    Prioritized = {flush}
SYMMETRY Symmetry
INVARIANTS TypeOK FoundIsDeadlock DeadlockIsFound
