--------------------------- MODULE MCGitWorkflow ---------------------------
(***************************************************************************)
(* TLC instance of GitWorkflow.                                            *)
(***************************************************************************)
EXTENDS GitWorkflow, TLC

CONSTANTS w1, w2

ActorBranches == [w \in Instances |-> IF w = w1 THEN {"a"} ELSE TaskBranches]
ActorCalls == [w \in Instances |-> IF w = w1 THEN 3 ELSE 2]
LineCounts == [p \in Contents \X Contents |-> IF p[1] = p[2] THEN 0 ELSE 1]
ActorGrants == [w \in Instances |-> {"read", "write"}]

=============================================================================
