-------------------------- MODULE EngineeringStage --------------------------
(***************************************************************************)
(* What the stages of the Engineering V1 flow share: the answer of the     *)
(* running stage's operation, and what the role agents leave behind for    *)
(* the merge gate.  Every run has a correlation of its own and delivers    *)
(* one head commit, so the head stands for both.                           *)
(***************************************************************************)
EXTENDS Naturals, FiniteSets, Sequences

CONSTANTS
    Nil,        \* no value
    OldHead,    \* the head commit of an earlier delivery of the task
    NewHead,    \* the head commit this run delivers
    Profiles,   \* test command profiles
    MaxLapses   \* bound: what the caller of the stages gets wrong in one run

\* What the gates of the role agents decide
Verdicts == {"APPROVED", "CHANGES_REQUESTED", "PASSED", "FAILED", "PASS", "WARN", "BLOCK"}

ASSUME StageAssumption ==
    /\ Nil \notin {OldHead, NewHead} \union Verdicts
    /\ IsFiniteSet(Profiles) /\ Profiles # {}
    /\ MaxLapses \in Nat

VARIABLES
    returned,   \* what the stage's operation came back with, "none" while it runs
    prs,        \* the task's pull requests, by head commit
    work,       \* the verdicts of the role agents in this run, and the
                \* evidence the last of them judged
    events,     \* completion events of the role workflows, over all runs
    lapses      \* how often the caller of the stages got something wrong

Heads == {OldHead, NewHead}
Kinds == {"REVIEWER", "QA", "SECURITY"}

\* A provider call ends in a proposal the analyzer accepts, or in a failure
\* it translates; there is no retry.
ProviderFailures == {"timeout", "failure", "invalid"}

\* The operation raises
Raise == returned' = "raised"

\* It returns: whether its result counts as passed is the decision of the
\* adapter the caller wraps it in, so both answers are possible
Answer == returned' \in {"passed", "blocked"}

Lapse(wrong) ==
    /\ lapses' = IF wrong THEN lapses + 1 ELSE lapses
    /\ lapses' <= MaxLapses

\* Evidence binds the pull request that is persisted for this task and run, or
\* none: no caller has to persist one first
Bindings == {Nil} \union {h \in {NewHead} : prs[h] # Nil}

\* A role agent's verdict, with what it was given
Judged(kind, decision, evidence) ==
    work' = [work EXCEPT ![kind] = decision, !.evidence = evidence]

\* How a role workflow ends after its agent: the completion event is in, or
\* its transaction failed
Complete(kind, decision, tests) ==
    \/ /\ \E head \in Bindings :
             /\ events' = events \union
                   {[kind |-> kind, head |-> head, decision |-> decision, tests |-> tests]}
             /\ Lapse(head = Nil)
       /\ Answer
    \/ Raise /\ UNCHANGED <<events, lapses>>
=============================================================================
