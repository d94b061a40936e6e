--------------------------- MODULE AnsweredRound ---------------------------
(***************************************************************************)
(* What a provider may expect of the tool uses of one response: they are   *)
(* answered in the order in which it asked; a round that is settled has    *)
(* answered them all, and one that is abandoned leaves a prefix answered,  *)
(* which the next request can repair.                                      *)
(***************************************************************************)
EXTENDS Naturals

CONSTANT N      \* the most tool uses a response has

VARIABLES
    uses,       \* the tool uses asked for so far
    answered,   \* those with a result
    state

vars == <<uses, answered, state>>

States == {"asking", "answering", "settled", "abandoned"}

Init ==
    /\ uses = {}
    /\ answered = {}
    /\ state = "asking"

Ask ==
    /\ state = "asking"
    /\ \E n \in 0 .. N : uses' = 1 .. n
    /\ UNCHANGED <<answered, state>>

Begin ==
    /\ state = "asking"
    /\ state' = "answering"
    /\ UNCHANGED <<uses, answered>>

Answer ==
    /\ state = "answering"
    /\ \E i \in uses \ answered :
          /\ \A j \in uses : j < i => j \in answered
          /\ answered' = answered \cup {i}
    /\ UNCHANGED <<uses, state>>

Settle ==
    /\ state = "answering"
    /\ answered = uses
    /\ state' = "settled"
    /\ UNCHANGED <<uses, answered>>

Abandon ==
    /\ state \in {"asking", "answering"}
    /\ state' = "abandoned"
    /\ UNCHANGED <<uses, answered>>

Next == Ask \/ Begin \/ Answer \/ Settle \/ Abandon

Spec == Init /\ [][Next]_vars
=============================================================================
