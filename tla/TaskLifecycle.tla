--------------------------- MODULE TaskLifecycle ---------------------------
(***************************************************************************)
(* The abstract promise every writer of tasks.status makes: the persisted  *)
(* status of a task only ever follows the edges of the approved graph,     *)
(* one at a time.                                                          *)
(***************************************************************************)
EXTENDS TaskGraph

VARIABLE status

Init == status \in {"BACKLOG", "READY"}

Next == \E target \in AllowedTransitions[status] : status' = target

Spec == Init /\ [][Next]_status

=============================================================================
