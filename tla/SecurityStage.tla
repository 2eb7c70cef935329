--------------------------- MODULE SecurityStage ---------------------------
(***************************************************************************)
(* SecurityWorkflowOrchestrator (src/core/workflows/                       *)
(* security_orchestrator.py) and its checkpoints (security_audit.py).      *)
(* Unlike QA, a start is refused while any correlation of the task has an  *)
(* unmatched one, and the preflight takes no lock.                         *)
(***************************************************************************)
EXTENDS TaskRow

CONSTANTS
    SecClaims,      \* correlations of Security requests
    SecClaimOf      \* the correlation of a run's request

ASSUME SecAssumption == SecClaimOf \in [SecRuns -> SecClaims]

VARIABLES
    secPc,
    secStarted,     \* committed SECURITY_STARTED events per correlation
    secEnded        \* committed SECURITY_COMPLETED and SECURITY_ESCALATED

secVars == <<secPc, secStarted, secEnded>>

SecPc == {"idle", "start", "run", "escalate", "completed", "failed", "interrupted"}

SecInit ==
    /\ secPc = [r \in SecRuns |-> "idle"]
    /\ secStarted = [c \in SecClaims |-> 0]
    /\ secEnded = [c \in SecClaims |-> 0]

SecGoto(r, label) == secPc' = [secPc EXCEPT ![r] = label]

-----------------------------------------------------------------------------
\* _validate_security_workflow_request_result
SecPreflight(r) ==
    /\ secPc[r] = "idle"
    /\ SecGoto(r, IF AtExpected(r, "WAITING_SECURITY") THEN "start" ELSE "failed")
    /\ UNCHANGED <<rowVars, secStarted, secEnded>>

\* _has_unmatched_security_start
SecUnmatched(c) == secStarted[c] > secEnded[c]

\* Slip: only the run's own correlation is looked up.
MayClaimSecurityOwnOnly(r) ==
    /\ AtExpected(r, "WAITING_SECURITY")
    /\ secStarted[SecClaimOf[r]] = 0 /\ secEnded[SecClaimOf[r]] = 0

\* _stage_security_started, under the row lock
MayClaimSecurity(r) ==
    /\ AtExpected(r, "WAITING_SECURITY")
    /\ \A c \in SecClaims : ~SecUnmatched(c)
    /\ secStarted[SecClaimOf[r]] = 0 /\ secEnded[SecClaimOf[r]] = 0

\* commit_security_started_checkpoint; no failure of it is escalated
SecClaim(r) ==
    /\ secPc[r] = "start"
    /\ \E o \in Outcomes(r, MayClaimSecurity(r)) :
          /\ IF o \in Durable THEN secStarted' = Recorded(secStarted, SecClaimOf[r])
             ELSE UNCHANGED secStarted
          /\ SecGoto(r, IF o = "committed" THEN "run" ELSE "failed")
    /\ seen' = [seen EXCEPT ![r] = work.delivered]
    /\ overtaken' = overtaken \ {r}
    /\ UNCHANGED <<status, assigned, rowLock, owner, intruded, work, secEnded>>

\* _locked_expected_task, then _require_matching_start
SecMayEnd(r) ==
    /\ AtExpected(r, "WAITING_SECURITY")
    /\ secStarted[SecClaimOf[r]] = 1
    /\ secEnded[SecClaimOf[r]] = 0

SecTarget == [ PASS  |-> "COMPLETED",
               WARN  |-> "WAITING_HUMAN",
               BLOCK |-> "CHANGES_REQUESTED" ]

\* commit_security_completed_checkpoint
SecComplete(r, decision) ==
    /\ secPc[r] = "run"
    /\ \E o \in Outcomes(r, SecMayEnd(r)) :
          /\ IF o \in Durable
             THEN /\ status' = SecTarget[decision]
                  /\ work' = [work EXCEPT
                        !.secured = IF decision = "PASS" THEN seen[r] ELSE @]
                  /\ secEnded' = Recorded(secEnded, SecClaimOf[r])
             ELSE UNCHANGED <<status, work, secEnded>>
          /\ SecGoto(r, AfterCheckpoint(o, "completed"))
    /\ MayIntrude(r)
    /\ UNCHANGED <<assigned, rowLock, owner, overtaken, seen, secStarted>>

\* The scanner or the provider fails, or the deadline passes
SecFails(r) ==
    /\ secPc[r] = "run"
    /\ SecGoto(r, "escalate")
    /\ UNCHANGED <<rowVars, secStarted, secEnded>>

\* commit_security_escalated_checkpoint
SecEscalate(r) ==
    /\ secPc[r] = "escalate"
    /\ \/ /\ EscalationCommits(r, SecMayEnd(r))
          /\ secEnded' = Recorded(secEnded, SecClaimOf[r])
       \/ EscalationFails(r, SecMayEnd(r)) /\ UNCHANGED secEnded
    /\ SecGoto(r, "failed")
    /\ MayIntrude(r)
    /\ UNCHANGED <<assigned, rowLock, owner, overtaken, work, seen, secStarted>>

SecInterrupt(r) ==
    /\ "interrupt" \in Faults
    /\ secPc[r] \in {"start", "run", "escalate"}
    /\ SecGoto(r, "interrupted")
    /\ UNCHANGED <<rowVars, secStarted, secEnded>>

SecStep(r) ==
    \/ SecPreflight(r) \/ SecClaim(r)
    \/ \E decision \in DOMAIN SecTarget : SecComplete(r, decision)
    \/ SecFails(r) \/ SecEscalate(r)

SecTypeOK ==
    /\ secPc \in [SecRuns -> SecPc]
    /\ secStarted \in [SecClaims -> Nat]
    /\ secEnded \in [SecClaims -> Nat]

=============================================================================
