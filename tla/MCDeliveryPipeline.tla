------------------------- MODULE MCDeliveryPipeline -------------------------
(***************************************************************************)
(* TLC instances of DeliveryPipeline: which Developer and which claim each *)
(* run's request names.                                                    *)
(***************************************************************************)
EXTENDS DeliveryPipeline, TLC

CONSTANTS d1, d2, d3, q1, q2, s1, s2, alice, bob, c1, c2

\* Every request names one Developer, or d3 has one of its own.
SameDeveloper == [r \in Runs |-> alice]
SharedDeveloper == [r \in Runs |-> IF r = d3 THEN bob ELSE alice]

\* A retried request repeats its claim; two callers use two.
RetriedQA == [r \in QARuns |-> c1]
DistinctQA == [r \in QARuns |-> IF r = q1 THEN c1 ELSE c2]

\* Each Security request has a correlation of its own, which needs no other name.
OwnSec == [r \in SecRuns |-> r]

\* With SameDeveloper, RetriedQA and OwnSec nothing tells two runs of a stage apart.
StageSymmetry ==
    Permutations({d1, d2}) \cup Permutations({q1, q2}) \cup Permutations({s1, s2})

=============================================================================
