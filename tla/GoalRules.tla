----------------------------- MODULE GoalRules -----------------------------
(***************************************************************************)
(* The pure rules of a persistent goal: the record the transcript keeps,   *)
(* the requests set_goal accepts and the goal each one yields, and the     *)
(* effect of a finished turn on the goal.                                  *)
(* Source: core/src/session_manager/session_goal.rs.                       *)
(*                                                                         *)
(* The objective, the stop reason, the timestamps and the elapsed seconds  *)
(* are payload: no rule reads them, so the record leaves them out.         *)
(***************************************************************************)
EXTENDS Naturals

CONSTANTS
    GoalIds,     \* the uuids a goal may be given
    NoGoalId     \* the identity of "no goal"

ASSUME NoGoalIdIsFresh == NoGoalId \notin GoalIds

----------------------------------------------------------------------------

Statuses == {"active", "paused", "blocked", "usage_limited",
             "budget_limited", "complete"}

(* A token budget of None is 0: validated_budget rejects an explicit zero. *)
NoBudget == 0

(* An expected revision of None is 0: a goal is created at revision 1.     *)
NoRevision == 0

(* The request leaves the field as it is.                                  *)
Keep == "keep"

NoGoal == [gid |-> NoGoalId, rev |-> 0, status |-> "complete",
           budget |-> NoBudget, used |-> 0]

GoalRecord == [gid : GoalIds \union {NoGoalId}, rev : Nat, status : Statuses,
               budget : Nat, used : Nat]

Exhausted(g) == g.budget # NoBudget /\ g.used >= g.budget

(* An active goal whose usage has reached its budget is stored limited.    *)
LimitIfExhausted(g) ==
    IF g.status = "active" /\ Exhausted(g)
    THEN [g EXCEPT !.status = "budget_limited"]
    ELSE g

----------------------------------------------------------------------------
(* set_goal                                                                *)

BudgetIncreased(old, new) ==
    CASE old # NoBudget /\ new # NoBudget -> new > old
      [] old # new -> TRUE
      [] OTHER     -> FALSE

(* A budget-limited goal resumes only on an increase above what is used.   *)
BudgetResumes(old, new, used) ==
    /\ BudgetIncreased(old, new)
    /\ new = NoBudget \/ new > used

UserTransitions ==
    ({"active"} \X {"paused", "blocked", "complete"})
    \union ({"paused", "blocked"} \X {"active", "complete"})
    \union ({"usage_limited", "budget_limited"} \X {"active"})

ModelTransitions == {"active"} \X {"blocked", "complete"}

(* The third authority of the code, System, is asked for by no caller.     *)
TransitionAllowed(authority, from, to, old, new, used) ==
    IF authority = "model"
    THEN <<from, to>> \in ModelTransitions
    ELSE /\ <<from, to>> \in UserTransitions
         /\ from = "budget_limited" => BudgetResumes(old, new, used)

(* A request: [authority, expected, replace, status, rebudget, budget],    *)
(* where budget is read only if rebudget.                                  *)
BudgetAfter(req, g) == IF req.rebudget THEN req.budget ELSE g.budget

CreateAccepted(req) ==
    /\ req.expected = NoRevision
    /\ ~ req.replace
    /\ req.status \in {Keep, "active"}

ReplaceAccepted(req, g) ==
    /\ req.expected = g.rev
    /\ req.authority = "model" => g.status = "complete"
    /\ CreateAccepted([req EXCEPT !.expected = NoRevision, !.replace = FALSE])

MutateAccepted(req, g) ==
    /\ req.expected = g.rev
    /\ req.status \notin {Keep, g.status} =>
          TransitionAllowed(req.authority, g.status, req.status,
                            g.budget, BudgetAfter(req, g), g.used)

Created(req, id) ==
    [gid |-> id, rev |-> 1, status |-> "active",
     budget |-> IF req.rebudget THEN req.budget ELSE NoBudget,
     used |-> 0]

(* Mutant: an edit may leave the goal active over the budget it sets.      *)
MutatedUnlimited(req, g) ==
    LET budgeted == [g EXCEPT !.budget = BudgetAfter(req, g)]
        moved    == IF req.status = Keep THEN budgeted
                    ELSE [budgeted EXCEPT !.status = req.status]
    IN  [moved EXCEPT !.rev = @ + 1]

Mutated(req, g) ==
    LET budgeted == [g EXCEPT !.budget = BudgetAfter(req, g)]
        moved    == IF req.status = Keep THEN budgeted
                    ELSE [budgeted EXCEPT !.status = req.status]
    IN  [LimitIfExhausted(moved) EXCEPT !.rev = @ + 1]

----------------------------------------------------------------------------
(* A terminal checkpoint                                                   *)

TerminalKinds == {"finished", "cancelled", "usage_limited",
                  "budget_limited", "error", "interrupted"}

StatusAfter(kind) ==
    CASE kind = "finished"      -> "active"
      [] kind = "usage_limited" -> "usage_limited"
      [] OTHER                  -> "paused"

(* Mutant: the end of a turn overrides what was made of the goal during it. *)
WithTerminalStatusForced(g, kind) == [g EXCEPT !.status = StatusAfter(kind)]

(* apply_terminal_status: a turn's end moves an active goal only; whatever *)
(* the user or the model made of the goal during the turn stands.          *)
WithTerminalStatus(g, kind) ==
    IF g.status = "active" THEN [g EXCEPT !.status = StatusAfter(kind)] ELSE g

(* Mutant: the turn's usage replaces the goal's.                           *)
CheckpointedAfresh(g, kind, usage) ==
    LimitIfExhausted(
        WithTerminalStatus([g EXCEPT !.used = usage, !.rev = @ + 1], kind))

Checkpointed(g, kind, usage) ==
    LimitIfExhausted(
        WithTerminalStatus([g EXCEPT !.used = @ + usage, !.rev = @ + 1], kind))
============================================================================
