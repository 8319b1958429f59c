SPECIFICATION FairSpec
CONSTANTS
    n1 = n1  n2 = n2  n3 = n3
    Nodes <- MCNodes
    Arbiters = {n3}
    None = None
    MaxTerm = 2
    MaxElections = 2
    Crashing = {n1}
    MaxRestarts = 1
INVARIANTS TypeOK VotesStand OneLeaderPerTerm ElectedByMajority
PROPERTIES ElectionsEnd
CHECK_DEADLOCK FALSE
