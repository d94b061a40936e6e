--------------------------- MODULE GoalLifecycle ---------------------------
(***************************************************************************)
(* What a session promises about its stored goal, whatever runs in it: at  *)
(* most one goal at a time, under an identity that is never used again; a  *)
(* revision that grows with every change, so that expected_revision can    *)
(* tell a stale request from a current one; a token count that never goes  *)
(* down; a status that moves along the authority table only, and is never  *)
(* "active" with the budget used up.                                       *)
(* The table is validate_transition's and apply_terminal_status's; to      *)
(* resume an exhausted goal stores it limited.                             *)
(***************************************************************************)
EXTENDS GoalRules

VARIABLES
    goal,    \* the stored goal
    past     \* the identities given so far

Init == goal = NoGoal /\ past = {}

Moves ==
    {<<s, s>> : s \in Statuses}
    \union ({"active"} \X Statuses)
    \union ({"paused", "blocked"} \X {"active", "complete", "budget_limited"})
    \union ({"usage_limited", "budget_limited"} \X {"active", "budget_limited"})

Create(id) ==
    /\ id \notin past
    /\ past' = past \union {id}
    /\ goal' \in GoalRecord
    /\ goal'.gid = id /\ goal'.rev = 1
    /\ goal'.status = "active" /\ goal'.used = 0

Change ==
    /\ goal # NoGoal
    /\ goal' \in GoalRecord
    /\ goal'.gid = goal.gid
    /\ goal'.rev > goal.rev
    /\ goal'.used >= goal.used
    /\ <<goal.status, goal'.status>> \in Moves
    /\ goal'.status = "active" => ~ Exhausted(goal')
    /\ UNCHANGED past

Clear == goal' = NoGoal /\ UNCHANGED past

Next == Change \/ Clear \/ \E id \in GoalIds : Create(id)

Spec == Init /\ [][Next]_<<goal, past>>
============================================================================
