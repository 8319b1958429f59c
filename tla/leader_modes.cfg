SPECIFICATION FairSpec
CONSTANTS
    c1 = c1  c2 = c2
    Commands <- MCCommands
    Applier = Applier
    NoOwner = NoOwner
    MaxTerm = 2
    MaxUnapplied = 1
INVARIANTS TypeOK DrainSafe StatesAgree
PROPERTIES LeaderModeTransitions LeadersAcceptWrites CommandsReturn
