CONSTANTS
    Permissions = {p1}
    Questions = {}
    Turns = {t1}
    NoTurn = NoTurn
    TurnOf <- OneTurn
SPECIFICATION FairSpec
PROPERTIES
    PermissionsSettle
CHECK_DEADLOCK FALSE
