--------------------------- MODULE MCEngineeringV1 ---------------------------
(***************************************************************************)
(* TLC instance of EngineeringV1.                                          *)
(***************************************************************************)
EXTENDS EngineeringV1

CONSTANTS a1, a2, c1, c2

TwoAgents == <<a1, a2>>
\* Two requests of one task's project, one of them for the task twice, and one
\* of another project
Requests == <<[project |-> "p1", task |-> "t1"], [project |-> "p2", task |-> "t2"],
              [project |-> "p1", task |-> "t1"]>>

=============================================================================
