----------------------------- MODULE MCTurnLoop -----------------------------
EXTENDS TurnLoop
=============================================================================
