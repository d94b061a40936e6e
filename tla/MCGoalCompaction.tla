-------------------------- MODULE MCGoalCompaction --------------------------
(***************************************************************************)
(* Model checking GoalCompaction.  Turns and goal ids are interchangeable. *)
(***************************************************************************)
EXTENDS GoalCompaction, TLC

Symmetry == Permutations(Turns) \union Permutations(GoalIds)
============================================================================
