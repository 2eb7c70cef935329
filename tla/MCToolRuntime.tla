--------------------------- MODULE MCToolRuntime ---------------------------
(***************************************************************************)
(* TLC instance of ToolRuntime: one Developer run with room for a second   *)
(* iteration, shorter runs beside each other and beside the manager.       *)
(***************************************************************************)
EXTENDS ToolRuntime, TLC

CONSTANTS dev, dev2, qa, sec, m1, m2

Roles == [r \in AgentRuns |-> IF r = qa THEN "qa" ELSE IF r = sec THEN "security" ELSE "developer"]

DeclaredTools ==
    [r \in AgentRuns |-> CASE r = qa  -> {"command"}
                           [] r = sec -> {"read", "gitread"}
                           [] r = dev -> Tools \ {"gitread"}
                           [] OTHER   -> {"write", "create", "delete", "gitcommand"}]

Autonomy == [r \in AgentRuns |-> 3]

Limits ==
    [r \in AgentRuns |->
        IF r = dev THEN [iterations |-> 2, calls |-> 1, failures |-> 2, tokens |-> 2, window |-> 2]
        ELSE [iterations |-> 1, calls |-> 1, failures |-> 1, tokens |-> 1, window |-> 2]]

SmallCasts == {{dev}, {sec}, {dev2, qa}, {dev2, m1}, {m1, m2}}

=============================================================================
