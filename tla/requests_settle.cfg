CONSTANTS
    Permissions = {p1}
    Questions = {q1}
    Turns = {t1}
    NoTurn = NoTurn
    TurnOf <- OneTurn
SPECIFICATION FairSpec
INVARIANTS
    NoOrphans
    TakenAnswersArrive
PROPERTIES
    QuestionsSettle
    CancelUnblocks
CHECK_DEADLOCK FALSE
