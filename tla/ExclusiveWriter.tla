-------------------------- MODULE ExclusiveWriter --------------------------
(***************************************************************************)
(* What the project lock is for: the worktree as everybody else may rely   *)
(* on it changes only by the hand of the one writer it has, and a writer   *)
(* that dies leaves it to nobody.  After a compensation that failed, or a  *)
(* command whose process outlived it, the promise no longer holds.         *)
(***************************************************************************)
CONSTANTS Writers, Nobody, Orphaned

VARIABLES content, writer, torn

Init == writer = Nobody /\ torn = FALSE

\* The writer takes the worktree over, works, gives it back, or dies
Begin(w)  == writer = Nobody /\ writer' = w /\ UNCHANGED torn
Work(w)   == writer = w /\ writer' = w /\ UNCHANGED torn
Finish(w) == writer = w /\ writer' = Nobody /\ torn' \in {torn, TRUE}
Die(w)    == writer = w /\ writer' = Orphaned /\ UNCHANGED <<content, torn>>

\* A command of the dead writer may still be at it, behind its lock
Orphan == writer = Orphaned /\ UNCHANGED <<writer, torn>>

Torn == torn /\ UNCHANGED <<writer, torn>>

Next ==
    \/ \E w \in Writers : Begin(w) \/ Work(w) \/ Finish(w) \/ Die(w)
    \/ Orphan \/ Torn

Spec == Init /\ [][Next]_<<content, writer, torn>>

=============================================================================
