-------------------------- MODULE MCServerRequests --------------------------
(***************************************************************************)
(* Model checking ServerRequests: every request is made in the same turn.  *)
(* Requests of a kind are interchangeable.                                 *)
(***************************************************************************)
EXTENDS ServerRequests, TLC

OneTurn == [r \in Requests |-> CHOOSE t \in Turns : TRUE]

Symmetry == Permutations(Permissions) \union Permutations(Questions)
============================================================================
