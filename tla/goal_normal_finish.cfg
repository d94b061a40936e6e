CONSTANTS
    GoalIds = {g1}
    NoGoalId = NoGoalId
    Turns = {t1, t2}
    NoTurn = NoTurn
    UserTurn = UserTurn
    Budgets = {2}
    Usages = {1}
    Kinds = {"finished"}
    MaxRevision = 4
SPECIFICATION Spec
PROPERTIES
    NormalFinishKeepsActive
