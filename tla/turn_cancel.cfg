SPECIFICATION FairSpec
CONSTANTS
    None = 0
    Turns = {1, 2}
    Commands = {}
    MaxWork = 1
    MaxUses = 4
    MaxSweeps = 1
    ReviewLimit = 1
INVARIANT ReviewsBounded
PROPERTY CancelledTurnLeaves
CHECK_DEADLOCK FALSE
