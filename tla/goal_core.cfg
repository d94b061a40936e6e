CONSTANTS
    GoalIds = {g1, g2}
    NoGoalId = NoGoalId
    Turns = {t1, t2}
    NoTurn = NoTurn
    UserTurn = UserTurn
    Budgets = {1, 2}
    Usages = {1}
    Kinds = {"finished", "cancelled"}
    MaxRevision = 4
SPECIFICATION Spec
SYMMETRY Symmetry
INVARIANTS
    TypeOK
    UsageConserved
    ActiveUnderBudget
    LiveTurnIsOpen
    OneTurnPerRevision
PROPERTIES
    KeepsLifecycle
