-------------------------- MODULE PermissionPolicy --------------------------
(***************************************************************************)
(* What the permission engine answers to one tool call                     *)
(* (src/core/permissions/engine.py, src/infrastructure/permissions/        *)
(* {policy,qa_policy,security_policy}.py), as a function of the rows the   *)
(* policy reads when it is asked.                                          *)
(***************************************************************************)
EXTENDS Naturals

Permission == {"FILESYSTEM_READ", "FILESYSTEM_WRITE", "GIT_READ", "GIT_WRITE",
               "SHELL_EXECUTE", "TESTS_EXECUTE", "NETWORK_ACCESS",
               "DATABASE_READ", "DATABASE_WRITE",
               "DEPLOYMENT_STAGING", "DEPLOYMENT_PRODUCTION"}

Risk == {"LOW", "MEDIUM", "HIGH", "CRITICAL"}

PermissionOutcome == {"ALLOW", "ASK", "DENY"}

\* _MINIMUM_AUTONOMY, by the lowest level that may use the permission
MinimumAutonomy(permission) ==
    CASE permission \in {"FILESYSTEM_READ", "GIT_READ", "DATABASE_READ"} -> 0
      [] permission \in {"FILESYSTEM_WRITE", "TESTS_EXECUTE"} -> 1
      [] permission = "GIT_WRITE" -> 2
      [] permission = "DEPLOYMENT_PRODUCTION" -> 4
      [] OTHER -> 3

\* _MINIMUM_RISK_AUTONOMY
MinimumRiskAutonomy == [LOW |-> 0, MEDIUM |-> 1, HIGH |-> 2]

\* The grants in force: of this project or of all, not revoked, not expired.
\* "g" is a row of agent_permissions.
ActiveGrants(grants, project, now) ==
    {g.permission : g \in {h \in grants : /\ h.project \in {"any", project}
                                          /\ ~h.revoked
                                          /\ h.expires > now}}

\* SQLAlchemyPermissionPolicy.evaluate: "scoped" says that run, agent, task,
\* project and assignment agree
DeveloperPolicy(call, scoped, granted, autonomy) ==
    IF ~scoped \/ ~(call.required \subseteq granted) THEN "DENY"
    ELSE IF \/ "DEPLOYMENT_PRODUCTION" \in call.required \/ call.risk = "CRITICAL"
            \/ \E p \in call.required : autonomy < MinimumAutonomy(p)
            \/ autonomy < MinimumRiskAutonomy[call.risk]
         THEN "ASK"
    ELSE "ALLOW"

\* The one tool a QA agent may call
QACapability == [tool |-> "command", risk |-> "HIGH",
                 required |-> {"SHELL_EXECUTE", "TESTS_EXECUTE"}]

\* SQLAlchemyQAPermissionPolicy.evaluate: "scoped" says that the run is RUNNING,
\* the task WAITING_QA, the QA agent active and not the task's Developer
QAPolicy(call, scoped, granted) ==
    IF call = QACapability /\ scoped /\ granted = QACapability.required
    THEN "ALLOW" ELSE "DENY"

\* SECURITY_READ_CAPABILITIES
SecurityCapabilities ==
    {[tool |-> "read", risk |-> "LOW", required |-> {"FILESYSTEM_READ"}],
     [tool |-> "gitread", risk |-> "LOW", required |-> {"GIT_READ"}]}

\* SQLAlchemySecurityPermissionPolicy.evaluate
SecurityPolicy(call, scoped, granted) ==
    IF call \in SecurityCapabilities /\ scoped /\ granted = call.required
    THEN "ALLOW" ELSE "DENY"

\* A decision counts once its audit event is written; if the policy or the
\* recorder fails, the executor gets an error in its place
Audited(decision) == {decision, "error"}

\* What PermissionEngine.evaluate hands to the executor: a policy's decision,
\* or DENY for a permission nobody knows
Evaluate(call, decision) ==
    Audited(IF call.required \subseteq Permission THEN decision ELSE "DENY")

=============================================================================
