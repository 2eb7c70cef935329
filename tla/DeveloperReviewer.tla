------------------------- MODULE DeveloperReviewer -------------------------
(***************************************************************************)
(* WorkflowOrchestrator (src/core/workflows/orchestrator.py) and its       *)
(* checkpoints (audit.py).  Several runs, in processes of their own, may   *)
(* be pointed at the same task.  A run is at an await (develop, handoff,   *)
(* review) or between two checkpoints of synchronous code; other processes *)
(* act in both places.                                                     *)
(***************************************************************************)
EXTENDS TaskRow

CONSTANT MaxCycles              \* max_review_cycles of every request

ASSUME CyclesAssumption == MaxCycles \in Nat \ {0}

VARIABLES
    devPc,      \* where each run is
    cycle,      \* its review cycle
    believed,   \* checkpoint_status: last status whose commit it saw return
    lapsed      \* history: runs that were interrupted, missed that a commit
                \* succeeded, or could not commit the escalation of their task

devVars == <<devPc, cycle, believed, lapsed>>

Awaiting == {"develop", "handoff", "review"}
Started == Awaiting \cup {"start", "exhaust", "escalate"}
DevPc == {"idle", "assign", "approved", "exhausted", "failed", "interrupted"}
            \cup Started

DevInit ==
    /\ devPc = [r \in DevRuns |-> "idle"]
    /\ cycle = [r \in DevRuns |-> 1]
    /\ believed = [r \in DevRuns |-> "READY"]
    /\ lapsed = {}

Goto(r, label) == devPc' = [devPc EXCEPT ![r] = label]

LapsesIf(r, fault) == lapsed' = IF fault THEN lapsed \cup {r} ELSE lapsed

-----------------------------------------------------------------------------
\* _validate_workflow_request_result: a plain read, rolled back when it fails
DevPreflight(r) ==
    /\ devPc[r] = "idle"
    /\ Goto(r, IF status = "READY" THEN "assign" ELSE "failed")
    /\ UNCHANGED <<rowVars, cycle, believed, lapsed>>

\* commit_assignment_checkpoint.  Any failure here precedes workflow_started,
\* so nothing is escalated, not even after a commit that was not acknowledged.
Assign(r) ==
    /\ devPc[r] = "assign"
    /\ \E o \in Outcomes(r, status = "READY" /\ assigned = NoAgent) :
          /\ IF o \in Durable
             THEN /\ status' = "ASSIGNED"
                  /\ assigned' = DeveloperOf[r]
                  /\ owner' = r
                  /\ overtaken' = (overtaken \cup RunsOf(DeveloperOf[r])) \ {r}
                  /\ intruded' = FALSE
             ELSE UNCHANGED <<status, assigned, owner, overtaken, intruded>>
          /\ Goto(r, IF o = "committed" THEN "start" ELSE "failed")
          /\ believed' = [believed EXCEPT
                ![r] = IF o = "committed" THEN "ASSIGNED" ELSE @]
          /\ LapsesIf(r, o = "lostAck")
    /\ UNCHANGED <<rowLock, work, seen, cycle>>

\* A checkpoint of a started run, from "source" to "target" and on to "next"
DevCheckpoint(r, source, target, next) ==
    /\ \E o \in Outcomes(r, AtExpected(r, source)) :
          /\ status' = IF o \in Durable THEN target ELSE status
          /\ believed' = [believed EXCEPT
                ![r] = IF o = "committed" THEN target ELSE @]
          /\ Goto(r, AfterCheckpoint(o, next))
          /\ LapsesIf(r, o = "lostAck")
    /\ MayIntrude(r)
    /\ UNCHANGED <<assigned, rowLock, owner, overtaken>>

\* commit_developer_started_checkpoint, commit_next_review_cycle_checkpoint
StartCycle(r) ==
    /\ devPc[r] = "start"
    /\ DevCheckpoint(r, IF cycle[r] = 1 THEN "ASSIGNED" ELSE "CHANGES_REQUESTED",
                     "IN_PROGRESS", "develop")
    /\ UNCHANGED <<work, seen, cycle>>

\* The Developer returns: commit_developer_completed_checkpoint
DeveloperCompleted(r) ==
    /\ devPc[r] = "develop"
    /\ DevCheckpoint(r, "IN_PROGRESS", "WAITING_REVIEW", "handoff")
    /\ IF status' # status
       THEN /\ work' = [work EXCEPT !.delivered = @ + 1]
            /\ seen' = [seen EXCEPT ![r] = work.delivered + 1]
       ELSE UNCHANGED <<work, seen>>
    /\ UNCHANGED cycle

\* The handoff is built and validated: commit_developer_handoff_checkpoint
HandoffCreated(r) ==
    /\ devPc[r] = "handoff"
    /\ DevCheckpoint(r, "WAITING_REVIEW", "WAITING_REVIEW", "review")
    /\ UNCHANGED <<work, seen, cycle>>

\* The Reviewer approves: commit_review_completed_checkpoint
ReviewApproved(r) ==
    /\ devPc[r] = "review"
    /\ DevCheckpoint(r, "WAITING_REVIEW", "WAITING_QA", "approved")
    /\ work' = [work EXCEPT
          !.reviewed = IF status' # status THEN seen[r] ELSE @]
    /\ UNCHANGED <<seen, cycle>>

\* Slip: the cycle limit is compared with ">" instead of "==".
ReviewRequestedChangesPastLimit(r) ==
    /\ devPc[r] = "review"
    /\ DevCheckpoint(r, "WAITING_REVIEW", "CHANGES_REQUESTED",
                     IF cycle[r] > MaxCycles THEN "exhaust" ELSE "start")
    /\ cycle' = [cycle EXCEPT ![r] = IF devPc'[r] = "start" THEN @ + 1 ELSE @]
    /\ UNCHANGED <<work, seen>>

\* The Reviewer requests changes: the same checkpoint, then the loop
ReviewRequestedChanges(r) ==
    /\ devPc[r] = "review"
    /\ DevCheckpoint(r, "WAITING_REVIEW", "CHANGES_REQUESTED",
                     IF cycle[r] = MaxCycles THEN "exhaust" ELSE "start")
    /\ cycle' = [cycle EXCEPT ![r] = IF devPc'[r] = "start" THEN @ + 1 ELSE @]
    /\ UNCHANGED <<work, seen>>

\* commit_review_cycle_exhausted_checkpoint
CyclesExhausted(r) ==
    /\ devPc[r] = "exhaust"
    /\ DevCheckpoint(r, "CHANGES_REQUESTED", "WAITING_HUMAN", "exhausted")
    /\ UNCHANGED <<work, seen, cycle>>

\* Slip: a failed collaborator ends the run without escalating.
CollaboratorFailsSilently(r) ==
    /\ devPc[r] \in Awaiting
    /\ Goto(r, "failed")
    /\ UNCHANGED <<rowVars, cycle, believed, lapsed>>

\* A collaborator raises, its result or the handoff is invalid, or the workflow
\* deadline passes while it is awaited
CollaboratorFails(r) ==
    /\ devPc[r] \in Awaiting
    /\ Goto(r, "escalate")
    /\ UNCHANGED <<rowVars, cycle, believed, lapsed>>

\* commit_safe_failure_checkpoint: expects the status the run believes
DevEscalate(r) ==
    /\ devPc[r] = "escalate"
    /\ \/ EscalationCommits(r, AtExpected(r, believed[r]))
       \/ EscalationFails(r, AtExpected(r, believed[r]))
    /\ Goto(r, "failed")
    /\ LapsesIf(r, AtExpected(r, believed[r]) /\ status' = status)
    /\ MayIntrude(r)
    /\ UNCHANGED <<assigned, rowLock, owner, overtaken, work, seen, cycle, believed>>

\* CancelledError is re-raised with no further call; a crash can strike anywhere
DevInterrupt(r) ==
    /\ "interrupt" \in Faults
    /\ devPc[r] \in Started \cup {"assign"}
    /\ Goto(r, "interrupted")
    /\ LapsesIf(r, TRUE)
    /\ UNCHANGED <<rowVars, cycle, believed>>

DevStep(r) ==
    \/ DevPreflight(r) \/ Assign(r) \/ StartCycle(r)
    \/ DeveloperCompleted(r) \/ HandoffCreated(r)
    \/ ReviewApproved(r) \/ ReviewRequestedChanges(r) \/ CyclesExhausted(r)
    \/ CollaboratorFails(r) \/ DevEscalate(r)

DevTypeOK ==
    /\ devPc \in [DevRuns -> DevPc]
    /\ cycle \in [DevRuns -> 1 .. MaxCycles]
    /\ believed \in [DevRuns -> TaskStatus]
    /\ lapsed \subseteq DevRuns

=============================================================================
