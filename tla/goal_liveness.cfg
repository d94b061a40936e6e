CONSTANTS
    GoalIds = {g1}
    NoGoalId = NoGoalId
    Turns = {t1, t2}
    NoTurn = NoTurn
    UserTurn = UserTurn
    Budgets = {2}
    Usages = {1}
    Kinds = {"cancelled"}
    MaxRevision = 3
SPECIFICATION FairSpec
PROPERTIES
    CancelledTurnSettles
    EndedTurnFreesSlot
