------------------------------ MODULE QAStage ------------------------------
(***************************************************************************)
(* QAWorkflowOrchestrator (src/core/workflows/qa_orchestrator.py) and its  *)
(* checkpoints (qa_audit.py).  Its audit events are matched per claim: the *)
(* task, the correlation and the QA agent of the request.                  *)
(***************************************************************************)
EXTENDS TaskRow

CONSTANTS
    QAClaims,       \* (correlation, QA agent) pairs
    QAClaimOf       \* the pair of a run's request; a retry repeats it

ASSUME QAAssumption == QAClaimOf \in [QARuns -> QAClaims]

VARIABLES
    qaPc,
    qaStarted,      \* committed QA_STARTED events per claim
    qaEnded         \* committed QA_COMPLETED and QA_ESCALATED events per claim

qaVars == <<qaPc, qaStarted, qaEnded>>

QAPc == {"idle", "holding", "run", "escalate", "completed", "failed", "interrupted"}

QAInit ==
    /\ qaPc = [r \in QARuns |-> "idle"]
    /\ qaStarted = [c \in QAClaims |-> 0]
    /\ qaEnded = [c \in QAClaims |-> 0]

QAGoto(r, label) == qaPc' = [qaPc EXCEPT ![r] = label]
-----------------------------------------------------------------------------
\* The preflight reads FOR UPDATE and the claim is committed in the same
\* transaction.  A preflight that finds another state returns its error with
\* the transaction, hence the row lock, still open in the caller's session.
QAPreflightFails(r) ==
    /\ qaPc[r] = "idle"
    /\ Lockable(r)
    /\ ~AtExpected(r, "WAITING_QA")
    /\ IF "openSession" \in Faults
       THEN QAGoto(r, "holding") /\ rowLock' = r
       ELSE QAGoto(r, "failed") /\ UNCHANGED rowLock
    /\ UNCHANGED <<status, assigned, owner, overtaken, intruded, work, seen,
                   qaStarted, qaEnded>>

QACallerCloses(r) ==
    /\ qaPc[r] = "holding"
    /\ QAGoto(r, "failed")
    /\ rowLock' = NoRun
    /\ UNCHANGED <<status, assigned, owner, overtaken, intruded, work, seen,
                   qaStarted, qaEnded>>

\* Slip: a claim is not looked up before it is started again.
MayClaimQAUnchecked(r) == TRUE

\* _stage_qa_started refuses a claim that was started before
MayClaimQA(r) == qaStarted[QAClaimOf[r]] = 0

\* commit_qa_started_checkpoint; no failure of it is escalated
QAClaim(r) ==
    /\ qaPc[r] = "idle"
    /\ Lockable(r) => AtExpected(r, "WAITING_QA")
    /\ \E o \in Outcomes(r, MayClaimQA(r)) :
          /\ IF o \in Durable THEN qaStarted' = Recorded(qaStarted, QAClaimOf[r])
             ELSE UNCHANGED qaStarted
          /\ QAGoto(r, IF o = "committed" THEN "run" ELSE "failed")
    /\ seen' = [seen EXCEPT ![r] = work.delivered]
    /\ overtaken' = overtaken \ {r}
    /\ UNCHANGED <<status, assigned, rowLock, owner, intruded, work, qaEnded>>

\* _locked_expected_task, then _require_matching_start
QAMayEnd(r) ==
    /\ AtExpected(r, "WAITING_QA")
    /\ qaStarted[QAClaimOf[r]] > 0
    /\ qaEnded[QAClaimOf[r]] = 0

\* commit_qa_completed_checkpoint
QAComplete(r, decision) ==
    /\ qaPc[r] = "run"
    /\ \E o \in Outcomes(r, QAMayEnd(r)) :
          /\ IF o \in Durable
             THEN /\ status' = IF decision = "PASSED" THEN "WAITING_SECURITY"
                               ELSE "CHANGES_REQUESTED"
                  /\ work' = [work EXCEPT
                        !.tested = IF decision = "PASSED" THEN seen[r] ELSE @]
                  /\ qaEnded' = Recorded(qaEnded, QAClaimOf[r])
             ELSE UNCHANGED <<status, work, qaEnded>>
          /\ QAGoto(r, AfterCheckpoint(o, "completed"))
    /\ MayIntrude(r)
    /\ UNCHANGED <<assigned, rowLock, owner, overtaken, seen, qaStarted>>

\* The QA agent raises, answers out of scope, or the deadline passes
QAFails(r) ==
    /\ qaPc[r] = "run"
    /\ QAGoto(r, "escalate")
    /\ UNCHANGED <<rowVars, qaStarted, qaEnded>>

\* commit_qa_escalated_checkpoint
QAEscalate(r) ==
    /\ qaPc[r] = "escalate"
    /\ \/ /\ EscalationCommits(r, QAMayEnd(r))
          /\ qaEnded' = Recorded(qaEnded, QAClaimOf[r])
       \/ EscalationFails(r, QAMayEnd(r)) /\ UNCHANGED qaEnded
    /\ QAGoto(r, "failed")
    /\ MayIntrude(r)
    /\ UNCHANGED <<assigned, rowLock, owner, overtaken, work, seen, qaStarted>>

QAInterrupt(r) ==
    /\ "interrupt" \in Faults
    /\ qaPc[r] \in {"run", "escalate"}
    /\ QAGoto(r, "interrupted")
    /\ UNCHANGED <<rowVars, qaStarted, qaEnded>>

QAStep(r) ==
    \/ QAPreflightFails(r) \/ QACallerCloses(r) \/ QAClaim(r)
    \/ \E decision \in {"PASSED", "FAILED"} : QAComplete(r, decision)
    \/ QAFails(r) \/ QAEscalate(r)

QATypeOK ==
    /\ qaPc \in [QARuns -> QAPc]
    /\ qaStarted \in [QAClaims -> Nat]
    /\ qaEnded \in [QAClaims -> Nat]

=============================================================================
