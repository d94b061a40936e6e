--------------------------- MODULE MCWorkflowRun ---------------------------
\* A parallel step with another one inside it, and an agent to follow.
EXTENDS WorkflowRun

MCSteps == {"root", "outer", "a", "inner", "b", "last"}
MCParts == [n \in MCSteps |-> CASE n = "root" -> <<"outer", "last">>
                                [] n = "outer" -> <<"a", "inner">>
                                [] n = "inner" -> <<"b">>
                                [] OTHER -> <<>>]
MCKind == [n \in MCSteps |-> CASE n = "root" -> "serial"
                               [] n \in {"outer", "inner"} -> "parallel"
                               [] n = "last" -> "log"
                               [] OTHER -> "agent"]
MCTask == [n \in MCSteps |-> IF n \in {"root", "outer", "last"} THEN "root" ELSE n]
=============================================================================
