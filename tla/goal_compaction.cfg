CONSTANTS
    GoalIds = {g1}
    NoGoalId = NoGoalId
    Turns = {t1, t2}
    NoTurn = NoTurn
    UserTurn = UserTurn
    Budgets = {1}
    Usages = {1}
    Kinds = {"finished"}
    MaxRevision = 2
SPECIFICATION CSpec
SYMMETRY Symmetry
INVARIANTS
    UsageNeverInflated
