---------------------- MODULE DeliveryPipeline_proofs ----------------------
(***************************************************************************)
(* Proofs about DeliveryPipeline, for every set of runs, Developers and    *)
(* claims, every assignment of Developers and claims to runs, and every    *)
(* combination of faults: its types, its refinement of TaskLifecycle, who  *)
(* may move a parked task, and the matching of gate claims.                *)
(***************************************************************************)
EXTENDS DeliveryPipeline, TLAPS

\* What a started run believes can still be escalated.
StartedBelief ==
    \A r \in DevRuns : devPc[r] \in Started
        => believed[r] \in {"ASSIGNED", "IN_PROGRESS", "WAITING_REVIEW", "CHANGES_REQUESTED"}

\* The inductive invariant: types, beliefs, and the matching of claims
IInv == TypeOK /\ StartedBelief /\ ClaimsMatched /\ OneOpenSecurityClaim

\* What any step of a stage may do to the status.
StageMove ==
    status' # status => status \notin Parked /\ CanTransition(status, status')

USE RowAssumption, CyclesAssumption, QAAssumption, SecAssumption, MovesAssumption

-----------------------------------------------------------------------------
\* The edges of the approved graph that the stages rely on
LEMMA StageEdges ==
    /\ CanTransition("READY", "ASSIGNED")
    /\ CanTransition("ASSIGNED", "IN_PROGRESS")
    /\ CanTransition("CHANGES_REQUESTED", "IN_PROGRESS")
    /\ CanTransition("IN_PROGRESS", "WAITING_REVIEW")
    /\ CanTransition("WAITING_REVIEW", "WAITING_QA")
    /\ CanTransition("WAITING_REVIEW", "CHANGES_REQUESTED")
    /\ CanTransition("WAITING_QA", "WAITING_SECURITY")
    /\ CanTransition("WAITING_QA", "CHANGES_REQUESTED")
    /\ CanTransition("WAITING_SECURITY", "COMPLETED")
    /\ CanTransition("WAITING_SECURITY", "CHANGES_REQUESTED")
BY DEF CanTransition, AllowedTransitions, WorkEdges, TaskStatus, Terminal

\* A human may be asked wherever a stage can escalate.
LEMMA EscalationEdges ==
    \A s \in {"ASSIGNED", "IN_PROGRESS", "WAITING_REVIEW", "CHANGES_REQUESTED",
              "WAITING_QA", "WAITING_SECURITY"} : CanTransition(s, "WAITING_HUMAN")
BY DEF CanTransition, AllowedTransitions, WorkEdges, TaskStatus, Terminal

\* The graph leads nowhere but to statuses.
LEMMA TargetsAreStatuses ==
    \A s \in TaskStatus : \A target : CanTransition(s, target) => target \in TaskStatus
BY DEF CanTransition, AllowedTransitions, WorkEdges, TaskStatus, Terminal

\* A checkpoint is durable only where its precondition held.
LEMMA DurableWasExpected ==
    ASSUME NEW r, NEW expected \in BOOLEAN, NEW o \in Outcomes(r, expected)
    PROVE  /\ o \in Durable => expected
           /\ o \in {"committed", "lostAck", "refused", "rolledBack"}
BY DEF Outcomes, Durable

-----------------------------------------------------------------------------
\* The Developer-Reviewer stage

\* A checkpoint moves the row along the edge it was written for or not at all,
\* and the run believes what it saw committed.
LEMMA DevCheckpointKeeps ==
    ASSUME IInv, NEW r \in DevRuns, devPc[r] \in Started,
           NEW source \in TaskStatus \ Parked, NEW target \in TaskStatus,
           source # target => CanTransition(source, target),
           NEW next \in DevPc, DevCheckpoint(r, source, target, next),
           next \in Started
             => target \in {"ASSIGNED", "IN_PROGRESS", "WAITING_REVIEW", "CHANGES_REQUESTED"}
    PROVE  /\ StageMove /\ status' \in TaskStatus
           /\ devPc' \in [DevRuns -> DevPc] /\ believed' \in [DevRuns -> TaskStatus]
           /\ StartedBelief'
           /\ devPc'[r] \in {next, "failed", "escalate"}
<1>. AtExpected(r, source) \in BOOLEAN
  BY DEF AtExpected
<1>1. PICK o \in Outcomes(r, AtExpected(r, source)) :
          /\ status' = IF o \in Durable THEN target ELSE status
          /\ believed' = [believed EXCEPT ![r] = IF o = "committed" THEN target ELSE @]
          /\ Goto(r, AfterCheckpoint(o, next))
  BY DEF DevCheckpoint
<1>2. o \in Durable => status = source
  BY DurableWasExpected DEF AtExpected
<1>3. StageMove /\ status' \in TaskStatus
  BY <1>1, <1>2 DEF StageMove, IInv, TypeOK, RowTypeOK
<1>4. AfterCheckpoint(o, next) \in {next, "failed", "escalate"}
      /\ (AfterCheckpoint(o, next) = next => o = "committed" \/ next \in {"failed", "escalate"})
  BY DEF AfterCheckpoint
<1>5. /\ devPc' \in [DevRuns -> DevPc] /\ believed' \in [DevRuns -> TaskStatus]
      /\ devPc'[r] \in {next, "failed", "escalate"}
      /\ \A q \in DevRuns : q # r => devPc'[q] = devPc[q] /\ believed'[q] = believed[q]
  BY <1>1, <1>4 DEF Goto, DevPc, Started, IInv, TypeOK, DevTypeOK
<1>6. devPc'[r] \in Started => believed'[r] \in
          {"ASSIGNED", "IN_PROGRESS", "WAITING_REVIEW", "CHANGES_REQUESTED"}
  BY <1>1, <1>4, <1>5
     DEF AfterCheckpoint, Goto, IInv, TypeOK, DevTypeOK, StartedBelief, Started, Awaiting
<1>. QED  BY <1>3, <1>5, <1>6 DEF IInv, StartedBelief

\* Moving the row is noted as an intrusion or not.
LEMMA IntrusionIsNoted ==
    ASSUME NEW r \in Runs, MayIntrude(r)
    PROVE  intruded' \in BOOLEAN
BY DEF MayIntrude

\* What a checkpoint leaves alone, and what it may note
LEMMA CheckpointNotes ==
    ASSUME IInv, NEW r \in DevRuns, NEW source, NEW target, NEW next,
           DevCheckpoint(r, source, target, next)
    PROVE  /\ UNCHANGED <<assigned, rowLock, owner, overtaken>>
           /\ intruded' \in BOOLEAN /\ lapsed' \subseteq DevRuns
<1>1. UNCHANGED <<assigned, rowLock, owner, overtaken>>
  BY DEF DevCheckpoint
<1>2. intruded' \in BOOLEAN
  BY IntrusionIsNoted DEF DevCheckpoint, Runs
<1>3. lapsed' \subseteq DevRuns
  BY DEF DevCheckpoint, LapsesIf, IInv, TypeOK, DevTypeOK
<1>. QED  BY <1>1, <1>2, <1>3

\* The rest of a Developer step: the history variables and the cycle
DevRest ==
    /\ assigned' \in Developers \cup {NoAgent} /\ owner' \in DevRuns \cup {NoRun}
    /\ rowLock' = rowLock
    /\ overtaken' \subseteq Runs /\ intruded' \in BOOLEAN /\ lapsed' \subseteq DevRuns
    /\ work' \in Work /\ seen' \in [Runs -> Nat]
    /\ cycle' \in [DevRuns -> 1 .. MaxCycles]

\* What a Developer step does to the row's status and to the runs
DevMoved ==
    /\ StageMove /\ status' \in TaskStatus
    /\ devPc' \in [DevRuns -> DevPc] /\ believed' \in [DevRuns -> TaskStatus]
    /\ StartedBelief'

\* Steps that leave the row alone
LEMMA DevLocalKeeps ==
    ASSUME IInv, NEW r \in DevRuns,
           DevPreflight(r) \/ CollaboratorFails(r) \/ DevInterrupt(r)
    PROVE  DevMoved /\ DevRest
<1>1. /\ UNCHANGED <<rowVars, cycle, believed>>
      /\ lapsed' \in {lapsed, lapsed \cup {r}}
      /\ \/ Goto(r, "assign") \/ Goto(r, "failed") \/ Goto(r, "interrupted")
         \/ devPc[r] \in Started /\ Goto(r, "escalate")
  BY DEF DevPreflight, CollaboratorFails, DevInterrupt, LapsesIf, Started
<1>2. devPc' \in [DevRuns -> DevPc]
  BY <1>1 DEF Goto, DevPc, Started, Awaiting, IInv, TypeOK, DevTypeOK
<1>3. \A q \in DevRuns : devPc'[q] \in Started => devPc[q] \in Started
  BY <1>1 DEF Goto, Started, Awaiting, IInv, TypeOK, DevTypeOK
<1>. QED
  BY <1>1, <1>2, <1>3 DEF DevMoved, DevRest, StageMove, rowVars, IInv, TypeOK,
     RowTypeOK, DevTypeOK, StartedBelief

\* An assignment starts from READY only.
LEMMA AssignKeeps ==
    ASSUME IInv, NEW r \in DevRuns, Assign(r)
    PROVE  DevMoved /\ DevRest
<1>1. PICK o \in Outcomes(r, status = "READY" /\ assigned = NoAgent) :
          /\ IF o \in Durable
             THEN /\ status' = "ASSIGNED" /\ assigned' = DeveloperOf[r] /\ owner' = r
                  /\ overtaken' = (overtaken \cup RunsOf(DeveloperOf[r])) \ {r}
                  /\ intruded' = FALSE
             ELSE UNCHANGED <<status, assigned, owner, overtaken, intruded>>
          /\ Goto(r, IF o = "committed" THEN "start" ELSE "failed")
          /\ believed' = [believed EXCEPT ![r] = IF o = "committed" THEN "ASSIGNED" ELSE @]
          /\ LapsesIf(r, o = "lostAck")
  BY DEF Assign
<1>2. o \in Durable => status = "READY"
  BY DurableWasExpected
<1>3. StageMove /\ status' \in TaskStatus
  BY <1>1, <1>2, StageEdges, TargetsAreStatuses
     DEF StageMove, IInv, TypeOK, RowTypeOK, Parked
<1>4. /\ devPc' \in [DevRuns -> DevPc] /\ believed' \in [DevRuns -> TaskStatus]
      /\ StartedBelief'
  BY <1>1 DEF Goto, DevPc, Started, Awaiting, TaskStatus, IInv, TypeOK, DevTypeOK,
              StartedBelief
<1>5. DeveloperOf[r] \in Developers
  BY DEF Runs
<1>6. /\ overtaken' \subseteq Runs /\ intruded' \in BOOLEAN
      /\ lapsed' \subseteq DevRuns
  BY <1>1 DEF RunsOf, LapsesIf, IInv, TypeOK, RowTypeOK, DevTypeOK
<1>. QED
  BY <1>1, <1>3, <1>4, <1>5, <1>6 DEF DevMoved, DevRest, Assign, IInv, TypeOK, RowTypeOK, DevTypeOK

\* The checkpoints of the review loop
LEMMA DevCheckpointsKeep ==
    ASSUME IInv, NEW r \in DevRuns,
           \/ StartCycle(r) \/ DeveloperCompleted(r) \/ HandoffCreated(r)
           \/ ReviewApproved(r) \/ ReviewRequestedChanges(r) \/ CyclesExhausted(r)
    PROVE  DevMoved /\ DevRest
<1>1. DevMoved
  <2>1. CASE StartCycle(r)
    BY <2>1, DevCheckpointKeeps, StageEdges
       DEF StartCycle, DevMoved, Started, Awaiting, DevPc, TaskStatus, Parked
  <2>2. CASE DeveloperCompleted(r)
    BY <2>2, DevCheckpointKeeps, StageEdges
       DEF DeveloperCompleted, DevMoved, Started, Awaiting, DevPc,
           TaskStatus, Parked
  <2>3. CASE HandoffCreated(r)
    BY <2>3, DevCheckpointKeeps
       DEF HandoffCreated, DevMoved, Started, Awaiting, DevPc,
           TaskStatus, Parked
  <2>4. CASE ReviewApproved(r)
    BY <2>4, DevCheckpointKeeps, StageEdges
       DEF ReviewApproved, DevMoved, Started, Awaiting, DevPc,
           TaskStatus, Parked
  <2>5. CASE ReviewRequestedChanges(r)
    <3>1. PICK next \in {"exhaust", "start"} :
              DevCheckpoint(r, "WAITING_REVIEW", "CHANGES_REQUESTED", next)
      BY <2>5 DEF ReviewRequestedChanges
    <3>2. devPc[r] \in Started /\ next \in DevPc
      BY <2>5 DEF ReviewRequestedChanges, Started, Awaiting, DevPc
    <3>. QED
      BY <3>1, <3>2, DevCheckpointKeeps, StageEdges
         DEF DevMoved, TaskStatus, Parked
  <2>6. CASE CyclesExhausted(r)
    BY <2>6, DevCheckpointKeeps, EscalationEdges
       DEF CyclesExhausted, DevMoved, Started, Awaiting, DevPc,
           TaskStatus, Parked
  <2>. QED  BY <2>1, <2>2, <2>3, <2>4, <2>5, <2>6
<1>2. work' \in Work /\ seen' \in [Runs -> Nat]
  <2>1. work \in Work /\ seen \in [Runs -> Nat] /\ r \in Runs
    BY DEF IInv, TypeOK, RowTypeOK, Runs
  <2>2. \/ UNCHANGED <<work, seen>>
        \/ /\ work' = [work EXCEPT !.delivered = @ + 1]
           /\ seen' = [seen EXCEPT ![r] = work.delivered + 1]
        \/ UNCHANGED seen /\ work' = [work EXCEPT !.reviewed = seen[r]]
        \/ UNCHANGED seen /\ work' = [work EXCEPT !.reviewed = work.reviewed]
    BY DEF StartCycle, DeveloperCompleted, HandoffCreated, ReviewApproved,
           ReviewRequestedChanges, CyclesExhausted
  <2>. QED  BY <2>1, <2>2 DEF Work
<1>3. cycle' \in [DevRuns -> 1 .. MaxCycles]
  <2>1. CASE ReviewRequestedChanges(r)
    <3>1. PICK next \in {"exhaust", "start"} :
              /\ DevCheckpoint(r, "WAITING_REVIEW", "CHANGES_REQUESTED", next)
              /\ next = "start" <=> cycle[r] # MaxCycles
      BY <2>1 DEF ReviewRequestedChanges
    <3>2. devPc'[r] \in {next, "failed", "escalate"}
      BY <2>1, <3>1, DevCheckpointKeeps, StageEdges
         DEF ReviewRequestedChanges, Started, Awaiting, DevPc, TaskStatus, Parked
    <3>3. devPc'[r] = "start" => cycle[r] # MaxCycles
      BY <3>1, <3>2
    <3>. QED
      BY <2>1, <3>3 DEF ReviewRequestedChanges, IInv, TypeOK, DevTypeOK
  <2>2. CASE ~ReviewRequestedChanges(r)
    BY <2>2 DEF StartCycle, DeveloperCompleted, HandoffCreated, ReviewApproved,
                CyclesExhausted, IInv, TypeOK, DevTypeOK
  <2>. QED  BY <2>1, <2>2
<1>4. /\ UNCHANGED <<assigned, rowLock, owner, overtaken>>
      /\ intruded' \in BOOLEAN /\ lapsed' \subseteq DevRuns
  <2>1. PICK source, target, next : DevCheckpoint(r, source, target, next)
    BY DEF StartCycle, DeveloperCompleted, HandoffCreated, ReviewApproved,
           ReviewRequestedChanges, CyclesExhausted
  <2>. QED  BY <2>1, CheckpointNotes
<1>. QED  BY <1>1, <1>2, <1>3, <1>4 DEF DevRest, IInv, TypeOK, RowTypeOK

\* An escalation leaves a status that a started run may believe.
LEMMA DevEscalateKeeps ==
    ASSUME IInv, NEW r \in DevRuns, DevEscalate(r)
    PROVE  DevMoved /\ DevRest
<1>1. believed[r] \in {"ASSIGNED", "IN_PROGRESS", "WAITING_REVIEW", "CHANGES_REQUESTED"}
  BY DEF DevEscalate, IInv, StartedBelief, Started
<1>2. StageMove /\ status' \in TaskStatus
  BY <1>1, EscalationEdges, TargetsAreStatuses
     DEF DevEscalate, EscalationCommits, EscalationFails, AtExpected, StageMove, Parked,
         IInv, TypeOK, RowTypeOK
<1>3. devPc' \in [DevRuns -> DevPc] /\ StartedBelief'
  BY DEF DevEscalate, Goto, DevPc, Started, Awaiting, IInv, TypeOK, DevTypeOK, StartedBelief
<1>4. intruded' \in BOOLEAN
  BY IntrusionIsNoted DEF DevEscalate, Runs
<1>5. lapsed' \subseteq DevRuns
  BY DEF DevEscalate, LapsesIf, IInv, TypeOK, DevTypeOK
<1>. QED
  BY <1>2, <1>3, <1>4, <1>5
     DEF DevMoved, DevRest, DevEscalate, IInv, TypeOK, RowTypeOK, DevTypeOK

\* Every step of the Developer-Reviewer stage
LEMMA DevKeeps ==
    ASSUME IInv, NEW r \in DevRuns, DevNext(r)
    PROVE  IInv' /\ StageMove /\ moves' = moves
<1>1. DevMoved /\ DevRest
  BY DevLocalKeeps, AssignKeeps, DevCheckpointsKeep, DevEscalateKeeps DEF DevNext, DevStep
<1>2. UNCHANGED <<qaVars, secVars, moves>>
  BY DEF DevNext
<1>. QED
  BY <1>1, <1>2 DEF DevMoved, DevRest, IInv, TypeOK, RowTypeOK, DevTypeOK, QATypeOK,
     SecTypeOK, qaVars, secVars, ClaimsMatched, OneOpenSecurityClaim, SecUnmatched

-----------------------------------------------------------------------------
\* The QA stage

\* The QA half of ClaimsMatched
QAMatched == \A c \in QAClaims : qaEnded[c] <= qaStarted[c] /\ qaStarted[c] <= 1

\* A QA step starts an unused claim, ends an open one, or leaves the log alone.
LEMMA QALogKeeps ==
    ASSUME IInv, NEW r \in QARuns, QAStep(r) \/ QAInterrupt(r)
    PROVE  /\ QAMatched'
           /\ qaStarted' \in [QAClaims -> Nat] /\ qaEnded' \in [QAClaims -> Nat]
<1>. DEFINE c == QAClaimOf[r]
<1>1. /\ c \in QAClaims /\ QAMatched
      /\ qaStarted \in [QAClaims -> Nat] /\ qaEnded \in [QAClaims -> Nat]
  BY DEF IInv, TypeOK, QATypeOK, ClaimsMatched, QAMatched
<1>2. CASE UNCHANGED <<qaStarted, qaEnded>>
  BY <1>1, <1>2 DEF QAMatched
<1>3. CASE /\ qaStarted[c] = 0 /\ qaStarted' = Recorded(qaStarted, c)
           /\ qaEnded' = qaEnded
  BY <1>1, <1>3 DEF Recorded, QAMatched
<1>4. CASE /\ qaStarted[c] > 0 /\ qaEnded[c] = 0
           /\ qaStarted' = qaStarted /\ qaEnded' = Recorded(qaEnded, c)
  BY <1>1, <1>4 DEF Recorded, QAMatched
<1>5. CASE QAClaim(r)
  <2>1. PICK o \in Outcomes(r, MayClaimQA(r)) :
            IF o \in Durable THEN qaStarted' = Recorded(qaStarted, c)
            ELSE UNCHANGED qaStarted
    BY <1>5 DEF QAClaim
  <2>2. o \in Durable => qaStarted[c] = 0
    BY DurableWasExpected DEF MayClaimQA
  <2>. QED  BY <1>2, <1>3, <1>5, <2>1, <2>2 DEF QAClaim
<1>6. CASE \E decision \in {"PASSED", "FAILED"} : QAComplete(r, decision)
  <2>1. PICK o \in Outcomes(r, QAMayEnd(r)) :
            IF o \in Durable THEN qaEnded' = Recorded(qaEnded, c) ELSE UNCHANGED qaEnded
    BY <1>6 DEF QAComplete
  <2>2. o \in Durable => QAMayEnd(r)
    BY DurableWasExpected DEF QAMayEnd, AtExpected
  <2>. QED  BY <1>2, <1>4, <1>6, <2>1, <2>2 DEF QAComplete, QAMayEnd
<1>7. CASE QAEscalate(r)
  BY <1>2, <1>4, <1>7 DEF QAEscalate, EscalationCommits, QAMayEnd
<1>8. CASE QAPreflightFails(r) \/ QACallerCloses(r) \/ QAFails(r) \/ QAInterrupt(r)
  BY <1>2, <1>8 DEF QAPreflightFails, QACallerCloses, QAFails, QAInterrupt
<1>. QED  BY <1>5, <1>6, <1>7, <1>8 DEF QAStep

\* The row after a QA step
LEMMA QARowKeeps ==
    ASSUME IInv, NEW r \in QARuns, QAStep(r) \/ QAInterrupt(r)
    PROVE  StageMove /\ RowTypeOK' /\ qaPc' \in [QARuns -> QAPc]
<1>. r \in Runs /\ RowTypeOK /\ work \in Work /\ seen \in [Runs -> Nat]
  BY DEF IInv, TypeOK, RowTypeOK, Runs
<1>1. qaPc' \in [QARuns -> QAPc]
  <2>1. \E label \in QAPc : QAGoto(r, label)
    BY DEF QAStep, QAPreflightFails, QACallerCloses, QAClaim, QAComplete, QAFails,
           QAEscalate, QAInterrupt, QAPc, AfterCheckpoint
  <2>. QED  BY <2>1 DEF QAGoto, IInv, TypeOK, QATypeOK
<1>2. CASE QAClaim(r)
  <2>1. work.delivered \in Nat
    BY DEF Work
  <2>2. seen' \in [Runs -> Nat]
    BY <1>2, <2>1 DEF QAClaim
  <2>. QED  BY <1>1, <1>2, <2>2 DEF QAClaim, StageMove, RowTypeOK
<1>3. CASE \E decision \in {"PASSED", "FAILED"} : QAComplete(r, decision)
  <2>1. PICK decision \in {"PASSED", "FAILED"}, o \in Outcomes(r, QAMayEnd(r)) :
            IF o \in Durable
            THEN /\ status' = IF decision = "PASSED" THEN "WAITING_SECURITY"
                              ELSE "CHANGES_REQUESTED"
                 /\ work' = [work EXCEPT
                       !.tested = IF decision = "PASSED" THEN seen[r] ELSE @]
            ELSE UNCHANGED <<status, work>>
    BY <1>3 DEF QAComplete
  <2>2. o \in Durable => status = "WAITING_QA"
    BY DurableWasExpected DEF QAMayEnd, AtExpected
  <2>3. StageMove /\ status' \in TaskStatus
    BY <2>1, <2>2, StageEdges DEF StageMove, Parked, RowTypeOK, TaskStatus
  <2>4. work' \in Work
    BY <2>1 DEF Work
  <2>5. intruded' \in BOOLEAN
    BY <1>3, IntrusionIsNoted DEF QAComplete
  <2>. QED  BY <1>1, <1>3, <2>3, <2>4, <2>5 DEF QAComplete, RowTypeOK
<1>4. CASE QAEscalate(r)
  <2>1. StageMove /\ status' \in TaskStatus
    BY <1>4, EscalationEdges, TargetsAreStatuses
       DEF QAEscalate, EscalationCommits, EscalationFails, QAMayEnd, AtExpected,
           StageMove, Parked, RowTypeOK
  <2>2. intruded' \in BOOLEAN
    BY <1>4, IntrusionIsNoted DEF QAEscalate
  <2>. QED  BY <1>1, <1>4, <2>1, <2>2 DEF QAEscalate, RowTypeOK
<1>5. CASE QAPreflightFails(r) \/ QACallerCloses(r) \/ QAFails(r) \/ QAInterrupt(r)
  BY <1>1, <1>5 DEF QAPreflightFails, QACallerCloses, QAFails, QAInterrupt, rowVars,
                    StageMove, RowTypeOK
<1>. QED  BY <1>2, <1>3, <1>4, <1>5 DEF QAStep

\* Every step of the QA stage
LEMMA QAKeeps ==
    ASSUME IInv, NEW r \in QARuns, QANext(r)
    PROVE  IInv' /\ StageMove /\ moves' = moves
<1>1. UNCHANGED <<devVars, secVars, moves>>
  BY DEF QANext
<1>. QED
  BY <1>1, QALogKeeps, QARowKeeps
     DEF QANext, IInv, TypeOK, DevTypeOK, QATypeOK, SecTypeOK, devVars, secVars,
         StartedBelief, ClaimsMatched, QAMatched, OneOpenSecurityClaim, SecUnmatched

-----------------------------------------------------------------------------
\* The Security stage

\* The Security half of ClaimsMatched
SecMatched == \A c \in SecClaims : secEnded[c] <= secStarted[c] /\ secStarted[c] <= 1

\* A Security step starts an unused correlation while none is open, ends an
\* open one, or leaves the log alone.
LEMMA SecLogKeeps ==
    ASSUME IInv, NEW r \in SecRuns, SecStep(r) \/ SecInterrupt(r)
    PROVE  /\ SecMatched' /\ OneOpenSecurityClaim'
           /\ secStarted' \in [SecClaims -> Nat] /\ secEnded' \in [SecClaims -> Nat]
<1>. DEFINE c == SecClaimOf[r]
<1>1. /\ c \in SecClaims /\ SecMatched /\ OneOpenSecurityClaim
      /\ secStarted \in [SecClaims -> Nat] /\ secEnded \in [SecClaims -> Nat]
  BY DEF IInv, TypeOK, SecTypeOK, ClaimsMatched, SecMatched
<1>2. CASE UNCHANGED <<secStarted, secEnded>>
  BY <1>1, <1>2 DEF SecMatched, OneOpenSecurityClaim, SecUnmatched
<1>3. CASE /\ secStarted[c] = 0 /\ \A d \in SecClaims : ~SecUnmatched(d)
           /\ secStarted' = Recorded(secStarted, c) /\ secEnded' = secEnded
  BY <1>1, <1>3 DEF Recorded, SecMatched, OneOpenSecurityClaim, SecUnmatched
<1>4. CASE /\ secStarted[c] = 1 /\ secEnded[c] = 0
           /\ secStarted' = secStarted /\ secEnded' = Recorded(secEnded, c)
  BY <1>1, <1>4 DEF Recorded, SecMatched, OneOpenSecurityClaim, SecUnmatched
<1>5. CASE SecClaim(r)
  <2>1. PICK o \in Outcomes(r, MayClaimSecurity(r)) :
            IF o \in Durable THEN secStarted' = Recorded(secStarted, c)
            ELSE UNCHANGED secStarted
    BY <1>5 DEF SecClaim
  <2>2. o \in Durable => MayClaimSecurity(r)
    BY DurableWasExpected DEF MayClaimSecurity, AtExpected
  <2>. QED  BY <1>2, <1>3, <1>5, <2>1, <2>2 DEF SecClaim, MayClaimSecurity
<1>6. CASE \E decision \in DOMAIN SecTarget : SecComplete(r, decision)
  <2>1. PICK o \in Outcomes(r, SecMayEnd(r)) :
            IF o \in Durable THEN secEnded' = Recorded(secEnded, c) ELSE UNCHANGED secEnded
    BY <1>6 DEF SecComplete
  <2>2. o \in Durable => SecMayEnd(r)
    BY DurableWasExpected DEF SecMayEnd, AtExpected
  <2>. QED  BY <1>2, <1>4, <1>6, <2>1, <2>2 DEF SecComplete, SecMayEnd
<1>7. CASE SecEscalate(r)
  BY <1>2, <1>4, <1>7 DEF SecEscalate, EscalationCommits, SecMayEnd
<1>8. CASE SecPreflight(r) \/ SecFails(r) \/ SecInterrupt(r)
  BY <1>2, <1>8 DEF SecPreflight, SecFails, SecInterrupt
<1>. QED  BY <1>5, <1>6, <1>7, <1>8 DEF SecStep

\* The row after a Security step
LEMMA SecRowKeeps ==
    ASSUME IInv, NEW r \in SecRuns, SecStep(r) \/ SecInterrupt(r)
    PROVE  StageMove /\ RowTypeOK' /\ secPc' \in [SecRuns -> SecPc]
<1>. r \in Runs /\ RowTypeOK /\ work \in Work /\ seen \in [Runs -> Nat]
  BY DEF IInv, TypeOK, RowTypeOK, Runs
<1>1. secPc' \in [SecRuns -> SecPc]
  <2>1. \E label \in SecPc : SecGoto(r, label)
    BY DEF SecStep, SecPreflight, SecClaim, SecComplete, SecFails, SecEscalate,
           SecInterrupt, SecPc, AfterCheckpoint
  <2>. QED  BY <2>1 DEF SecGoto, IInv, TypeOK, SecTypeOK
<1>2. CASE SecClaim(r)
  <2>1. work.delivered \in Nat
    BY DEF Work
  <2>2. seen' \in [Runs -> Nat]
    BY <1>2, <2>1 DEF SecClaim
  <2>. QED  BY <1>1, <1>2, <2>2 DEF SecClaim, StageMove, RowTypeOK
<1>3. CASE \E decision \in DOMAIN SecTarget : SecComplete(r, decision)
  <2>1. PICK decision \in DOMAIN SecTarget, o \in Outcomes(r, SecMayEnd(r)) :
            IF o \in Durable
            THEN /\ status' = SecTarget[decision]
                 /\ work' = [work EXCEPT
                       !.secured = IF decision = "PASS" THEN seen[r] ELSE @]
            ELSE UNCHANGED <<status, work>>
    BY <1>3 DEF SecComplete
  <2>2. o \in Durable => status = "WAITING_SECURITY"
    BY DurableWasExpected DEF SecMayEnd, AtExpected
  <2>3. SecTarget[decision] \in {"COMPLETED", "WAITING_HUMAN", "CHANGES_REQUESTED"}
    BY DEF SecTarget
  <2>4. StageMove /\ status' \in TaskStatus
    BY <2>1, <2>2, <2>3, StageEdges, EscalationEdges
       DEF StageMove, Parked, RowTypeOK, TaskStatus
  <2>5. work' \in Work
    BY <2>1 DEF Work
  <2>6. intruded' \in BOOLEAN
    BY <1>3, IntrusionIsNoted DEF SecComplete
  <2>. QED  BY <1>1, <1>3, <2>4, <2>5, <2>6 DEF SecComplete, RowTypeOK
<1>4. CASE SecEscalate(r)
  <2>1. StageMove /\ status' \in TaskStatus
    BY <1>4, EscalationEdges, TargetsAreStatuses
       DEF SecEscalate, EscalationCommits, EscalationFails, SecMayEnd, AtExpected,
           StageMove, Parked, RowTypeOK
  <2>2. intruded' \in BOOLEAN
    BY <1>4, IntrusionIsNoted DEF SecEscalate
  <2>. QED  BY <1>1, <1>4, <2>1, <2>2 DEF SecEscalate, RowTypeOK
<1>5. CASE SecPreflight(r) \/ SecFails(r) \/ SecInterrupt(r)
  BY <1>1, <1>5 DEF SecPreflight, SecFails, SecInterrupt, rowVars, StageMove, RowTypeOK
<1>. QED  BY <1>2, <1>3, <1>4, <1>5 DEF SecStep

\* Every step of the Security stage
LEMMA SecKeeps ==
    ASSUME IInv, NEW r \in SecRuns, SecNext(r)
    PROVE  IInv' /\ StageMove /\ moves' = moves
<1>1. UNCHANGED <<devVars, qaVars, moves>>
  BY DEF SecNext
<1>. QED
  BY <1>1, SecLogKeeps, SecRowKeeps
     DEF SecNext, IInv, TypeOK, DevTypeOK, QATypeOK, SecTypeOK, devVars, qaVars,
         StartedBelief, ClaimsMatched, SecMatched

-----------------------------------------------------------------------------
\* The coordinator, and all steps together

\* A move from outside the stages takes an approved edge and is counted.
LEMMA CoordinatorKeeps ==
    ASSUME IInv, Coordinator
    PROVE  IInv' /\ CanTransition(status, status') /\ moves' = moves + 1
<1>1. PICK target \in TaskStatus, agent \in {assigned, NoAgent} :
          CoordinatorMove(target, agent)
  BY DEF Coordinator
<1>. QED
  BY <1>1 DEF CoordinatorMove, IInv, TypeOK, RowTypeOK, DevTypeOK, QATypeOK, SecTypeOK,
     devVars, qaVars, secVars, StartedBelief, ClaimsMatched, OneOpenSecurityClaim,
     SecUnmatched

\* The invariant holds before any run.
LEMMA InitEstablishes == Init => IInv
<1>. SUFFICES ASSUME Init PROVE IInv
  OBVIOUS
<1>1. RowTypeOK
  BY DEF Init, RowInit, RowTypeOK, Work, TaskStatus
<1>2. DevTypeOK /\ QATypeOK /\ SecTypeOK
  BY DEF Init, DevInit, QAInit, SecInit, DevTypeOK, QATypeOK, SecTypeOK, DevPc, QAPc, SecPc,
         TaskStatus
<1>3. StartedBelief /\ ClaimsMatched /\ OneOpenSecurityClaim /\ moves \in 0 .. MaxMoves
  BY DEF Init, DevInit, QAInit, SecInit, Started, Awaiting, StartedBelief, ClaimsMatched,
         OneOpenSecurityClaim, SecUnmatched
<1>. QED  BY <1>1, <1>2, <1>3 DEF IInv, TypeOK

\* Every step, or a stutter
LEMMA StepKeeps ==
    ASSUME IInv, [Next]_vars
    PROVE  /\ IInv'
           /\ status' # status => CanTransition(status, status')
           /\ status \in Parked /\ status' # status => moves' = moves + 1
<1>1. CASE UNCHANGED vars
  BY <1>1 DEF vars, rowVars, devVars, qaVars, secVars, IInv, TypeOK, RowTypeOK, DevTypeOK,
     QATypeOK, SecTypeOK, StartedBelief, ClaimsMatched, OneOpenSecurityClaim, SecUnmatched
<1>2. CASE Next
  BY <1>2, DevKeeps, QAKeeps, SecKeeps, CoordinatorKeeps DEF Next, StageMove
<1>. QED  BY <1>1, <1>2

\* The inductive invariant holds in every reachable state.
THEOREM InductiveInvariant == Spec => []IInv
<1>1. IInv /\ [Next]_vars => IInv'
  BY StepKeeps
<1>. QED  BY <1>1, InitEstablishes, PTL DEF Spec

\* Every variable of the pipeline keeps its type; no review cycle passes the
\* limit of its request.
THEOREM TypeCorrectness == Spec => []TypeOK
<1>1. IInv => TypeOK
  BY DEF IInv
<1>. QED  BY <1>1, InductiveInvariant, PTL

\* Whatever the stages and the people around them do, faults included, tasks.status
\* only follows edges of the approved graph: DeliveryPipeline implements
\* TaskLifecycle.
THEOREM RefinesLifecycle == Spec => ImplementsLifecycle
<1>1. Init => Lifecycle!Init
  BY DEF Init, RowInit, Lifecycle!Init
<1>2. IInv /\ [Next]_vars => [Lifecycle!Next]_status
  <2>. SUFFICES ASSUME IInv, [Next]_vars, status' # status PROVE Lifecycle!Next
    OBVIOUS
  <2>1. CanTransition(status, status')
    BY StepKeeps
  <2>. QED
    BY <2>1 DEF Lifecycle!Next, CanTransition, AllowedTransitions, Lifecycle!AllowedTransitions,
       WorkEdges, Lifecycle!WorkEdges, TaskStatus, Lifecycle!TaskStatus, Terminal,
       Lifecycle!Terminal
<1>. QED
  BY <1>1, <1>2, InductiveInvariant, PTL DEF Spec, ImplementsLifecycle, Lifecycle!Spec

\* Every gate claim is started once and ended once, after its start.
THEOREM ClaimsAreMatched == Spec => []ClaimsMatched
<1>1. IInv => ClaimsMatched
  BY DEF IInv
<1>. QED  BY <1>1, InductiveInvariant, PTL

\* Two Security correlations of a task are never open together.
THEOREM SecurityExcludes == Spec => []OneOpenSecurityClaim
<1>1. IInv => OneOpenSecurityClaim
  BY DEF IInv
<1>. QED  BY <1>1, InductiveInvariant, PTL

\* A task that a human or a terminal decision parked is moved only from
\* outside the stages.
THEOREM ParkedIsStable == Spec => ParkedStaysParked
<1>1. IInv /\ [Next]_vars
          => [(status \in Parked /\ status' # status) => moves' = moves + 1]_vars
  BY StepKeeps
<1>. QED  BY <1>1, InductiveInvariant, PTL DEF Spec, ParkedStaysParked

=============================================================================
