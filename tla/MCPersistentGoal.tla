-------------------------- MODULE MCPersistentGoal --------------------------
(***************************************************************************)
(* Model checking PersistentGoal.  Turns and goal ids are interchangeable. *)
(***************************************************************************)
EXTENDS PersistentGoal, TLC

Symmetry == Permutations(Turns) \union Permutations(GoalIds)
============================================================================
