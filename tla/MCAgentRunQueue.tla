-------------------------- MODULE MCAgentRunQueue --------------------------
(***************************************************************************)
(* TLC instances of AgentRunQueue: which runs share a task.                *)
(***************************************************************************)
EXTENDS AgentRunQueue, TLC

CONSTANTS r1, r2, r3, t1, t2

\* The first two runs work on one task, the third on another.
SharedTask == [r \in Runs |-> IF r = r3 THEN t2 ELSE t1]

=============================================================================
