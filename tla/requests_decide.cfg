CONSTANTS
    Permissions = {p1, p2}
    Questions = {}
    Turns = {t1}
    NoTurn = NoTurn
    TurnOf <- OneTurn
SPECIFICATION Spec
SYMMETRY Symmetry
INVARIANTS
    RTypeOK
    ApprovedByClient
PROPERTIES
    FirstOutcomeStands
CHECK_DEADLOCK FALSE
