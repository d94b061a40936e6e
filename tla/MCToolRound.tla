---------------------------- MODULE MCToolRound ----------------------------
(* The constants of the runs about ToolRound are in their cfg files.       *)
EXTENDS ToolRound
=============================================================================
