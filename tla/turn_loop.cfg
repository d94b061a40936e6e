SPECIFICATION Spec
CONSTANTS
    c1 = c1
    None = 0
    Turns = {1, 2}
    Commands = {c1}
    MaxWork = 2
    MaxUses = 1
    MaxSweeps = 2
    ReviewLimit = 1
INVARIANT TurnLoopTypeOK
INVARIANT OneLiveTurn
INVARIANT RequestsAnswered
 
INVARIANT CommandsConserved
CHECK_DEADLOCK FALSE
