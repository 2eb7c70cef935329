-------------------------- MODULE DeliveryPipeline --------------------------
(***************************************************************************)
(* The three workflow stages and the people around them, on one task.      *)
(* The stages never call each other: they meet in the task row and in the  *)
(* append-only audit log, and a human or a coordinator may move the task   *)
(* through TaskStateMachine at any time.                                   *)
(***************************************************************************)
EXTENDS DeveloperReviewer, QAStage, SecurityStage

CONSTANT MaxMoves               \* bound: moves from outside the stages

ASSUME MovesAssumption == MaxMoves \in Nat

VARIABLE moves                  \* moves made so far

vars == <<rowVars, devVars, qaVars, secVars, moves>>

\* The edges a stage owns; nobody else takes them.
GateEdges ==
    { <<"READY", "ASSIGNED">>, <<"ASSIGNED", "IN_PROGRESS">>,
      <<"IN_PROGRESS", "WAITING_REVIEW">>,
      <<"WAITING_REVIEW", "WAITING_QA">>, <<"WAITING_REVIEW", "CHANGES_REQUESTED">>,
      <<"WAITING_QA", "WAITING_SECURITY">>, <<"WAITING_QA", "CHANGES_REQUESTED">>,
      <<"WAITING_SECURITY", "COMPLETED">>, <<"WAITING_SECURITY", "CHANGES_REQUESTED">> }

\* A human or a coordinator takes any other approved edge, in a transaction of
\* its own that holds the row lock.  Resuming to READY may clear the assignee,
\* which no code under src/ does.
CoordinatorMove(target, agent) ==
    /\ moves < MaxMoves
    /\ rowLock = NoRun
    /\ CanTransition(status, target)
    /\ <<status, target>> \notin GateEdges
    /\ agent # assigned => target = "READY" /\ agent = NoAgent
    /\ status' = target
    /\ assigned' = agent
    /\ owner' = NoRun
    /\ moves' = moves + 1
    /\ UNCHANGED <<rowLock, overtaken, intruded, work, seen, devVars, qaVars, secVars>>

Init == RowInit /\ DevInit /\ QAInit /\ SecInit /\ moves = 0

Coordinator ==
    \E target \in TaskStatus, agent \in {assigned, NoAgent} :
        CoordinatorMove(target, agent)

DevNext(r) == (DevStep(r) \/ DevInterrupt(r)) /\ UNCHANGED <<qaVars, secVars, moves>>
QANext(r) == (QAStep(r) \/ QAInterrupt(r)) /\ UNCHANGED <<devVars, secVars, moves>>
SecNext(r) == (SecStep(r) \/ SecInterrupt(r)) /\ UNCHANGED <<devVars, qaVars, moves>>

Next ==
    \/ \E r \in DevRuns : DevNext(r)
    \/ \E r \in QARuns : QANext(r)
    \/ \E r \in SecRuns : SecNext(r)
    \/ Coordinator

Spec == Init /\ [][Next]_vars

\* A Developer run that is not interrupted goes on: synchronous code runs to its
\* next await, and every await ends at the workflow deadline at the latest.  QA and
\* Security owe it nothing.
Fairness ==
    \A r \in DevRuns : WF_vars(DevStep(r) /\ UNCHANGED <<qaVars, secVars, moves>>)

FairSpec == Spec /\ Fairness

-----------------------------------------------------------------------------
TypeOK ==
    /\ RowTypeOK /\ DevTypeOK /\ QATypeOK /\ SecTypeOK
    /\ moves \in 0 .. MaxMoves

\* The stages and the coordinator together only follow the approved graph.
Lifecycle == INSTANCE TaskLifecycle
ImplementsLifecycle == Lifecycle!Spec

\* A task stands at a gate only with evidence about its latest delivery: QA
\* sees what review approved, Security what QA passed, and COMPLETED is a
\* verdict on the delivery all three saw.  The one exception: a run that was
\* overtaken by another run of its own Developer has moved the task.
EvidenceIsCurrent ==
    ~intruded =>
        /\ status \in {"WAITING_QA", "WAITING_SECURITY", "COMPLETED"}
                => work.reviewed = work.delivered
        /\ status \in {"WAITING_SECURITY", "COMPLETED"} => work.tested = work.delivered
        /\ status = "COMPLETED" => work.secured = work.delivered

\* "A stale, duplicate, completed, or concurrently superseded invocation cannot
\* overwrite newer task state" (docs/qa-agent.md): a QA verdict is committed
\* only while the delivery QA was started for is still the latest.  The code does
\* not keep this when another run of the same Developer delivers meanwhile.
NoStaleQAVerdict ==
    [][\A r \in QARuns :
          qaPc[r] = "run" /\ qaPc'[r] = "completed"
              => seen[r] = work.delivered]_vars

\* What the code does keep: a QA verdict on a superseded delivery takes an
\* assignment of the same Developer by another run after QA was started, or an
\* overtaken run that moved the task.  A redelivery by the same Developer run, or
\* by another Developer, never meets the verdict of a slow QA run.
OnlyOvertakenQAIsStale ==
    [][\A r \in QARuns :
          qaPc[r] = "run" /\ qaPc'[r] = "completed"
              => seen[r] = work.delivered \/ r \in overtaken \/ intruded]_vars

\* Each QA claim and each Security correlation is started at most once and
\* ended at most once, and only after it started, whatever is retried,
\* duplicated or interrupted.
ClaimsMatched ==
    /\ \A c \in QAClaims : qaEnded[c] <= qaStarted[c] /\ qaStarted[c] <= 1
    /\ \A c \in SecClaims : secEnded[c] <= secStarted[c] /\ secStarted[c] <= 1

\* At most one Security correlation of a task is open at a time.
OneOpenSecurityClaim ==
    \A c, d \in SecClaims : SecUnmatched(c) /\ SecUnmatched(d) => c = d

\* "A concurrent human escalation or cancellation therefore wins; stale
\* workflow state raises INVALID_STATE without overwriting the task"
\* (docs/developer-reviewer-workflow.md): a started Developer run changes the
\* row only while the task is still the one it was assigned.  The one exception:
\* the checkpoint compares status and Developer only, so the first run to change
\* a task it has lost may be one that another run of its own Developer overtook.
OnlyOwnerCommits ==
    [][\A r \in DevRuns :
          devPc[r] \in Started /\ devPc'[r] # devPc[r] /\ status' # status
              => owner = r \/ r \in overtaken \/ intruded]_vars

Parked == {"WAITING_HUMAN", "BLOCKED", "FAILED", "CANCELLED", "COMPLETED"}

\* A task parked by a human or a terminal decision is moved on by nobody but
\* the coordinator, however late an orchestrator's answer comes.
ParkedStaysParked ==
    [][(status \in Parked /\ status' # status) => moves' = moves + 1]_vars

Developing == {"ASSIGNED", "IN_PROGRESS", "WAITING_REVIEW"}

\* "After assignment, an unsafe handoff, collaborator failure, timeout, or
\* persistence failure safely escalates the task to WAITING_HUMAN when that
\* transition is legal" (docs/developer-reviewer-workflow.md): an assigned task
\* is never left without a run that will move it, unless that run was interrupted,
\* missed that a commit succeeded or could not commit its escalation, or an
\* overtaken run moved the task under it.
NeverAbandoned ==
    status \in Developing /\ owner # NoRun /\ owner \notin lapsed /\ ~intruded
        => devPc[owner] \in Started /\ believed[owner] = status

\* Every assigned delivery leaves development: it reaches QA, changes are
\* requested, or a human is asked, unless its run lapses or an overtaken run moves
\* the task under it, as in NeverAbandoned.
DeliveryLeavesDevelopment ==
    (status \in Developing /\ owner # NoRun)
        ~> (status \notin Developing \/ owner = NoRun \/ owner \in lapsed \/ intruded)

=============================================================================
