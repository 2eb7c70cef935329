----------------------------- MODULE TaskGraph -----------------------------
(***************************************************************************)
(* The approved delivery graph of one task: TaskStatus of                  *)
(* src/core/enums.py and ALLOWED_TASK_TRANSITIONS of                       *)
(* src/core/tasks/state_machine.py.                                        *)
(***************************************************************************)
TaskStatus ==
    { "BACKLOG", "READY", "ASSIGNED", "IN_PROGRESS", "WAITING_REVIEW",
      "CHANGES_REQUESTED", "WAITING_QA", "WAITING_SECURITY", "BLOCKED",
      "WAITING_HUMAN", "COMPLETED", "FAILED", "CANCELLED" }

\* The edges that carry work forward or back; the two exits are added below.
WorkEdges ==
    [ s \in TaskStatus |->
        CASE s \in {"BACKLOG", "BLOCKED", "FAILED", "WAITING_HUMAN"} -> {"READY"}
          [] s = "READY"             -> {"ASSIGNED"}
          [] s = "ASSIGNED"          -> {"IN_PROGRESS", "BLOCKED"}
          [] s = "IN_PROGRESS"       -> {"WAITING_REVIEW", "BLOCKED", "FAILED"}
          [] s = "WAITING_REVIEW"    -> {"CHANGES_REQUESTED", "WAITING_QA"}
          [] s = "CHANGES_REQUESTED" -> {"IN_PROGRESS", "BLOCKED"}
          [] s = "WAITING_QA" ->
                {"CHANGES_REQUESTED", "WAITING_SECURITY", "FAILED"}
          [] s = "WAITING_SECURITY" ->
                {"CHANGES_REQUESTED", "COMPLETED", "FAILED"}
          [] s \in {"COMPLETED", "CANCELLED"} -> {} ]

Terminal == {"COMPLETED", "CANCELLED"}

\* Every live status may be cancelled, and escalated unless it already is.
AllowedTransitions ==
    [ s \in TaskStatus |->
        WorkEdges[s] \cup (IF s \in Terminal
                           THEN {}
                           ELSE {"CANCELLED", "WAITING_HUMAN"} \ {s}) ]

\* TaskStateMachine.can_transition
CanTransition(current, target) == target \in AllowedTransitions[current]

=============================================================================
