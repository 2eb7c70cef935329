---------------------- MODULE DeliveryOwnership_proofs ----------------------
(***************************************************************************)
(* A checkpoint recognises the task of its run by status and assigned      *)
(* Developer only, so it cannot tell two runs of the same Developer apart. *)
(* This module proves how much it tells nevertheless, whoever the requests *)
(* name and whatever people, the other stages and faults do: until a run   *)
(* that another run of its own Developer overtook moves the task, no other *)
(* run commits to a task it has lost, evidence is about the latest         *)
(* delivery, and a task is left without a run only by a named fault.  The  *)
(* next assignment of the task ends the effects of such an intrusion.      *)
(***************************************************************************)
EXTENDS DeliveryPipeline_proofs

\* Where a run is tells what it believes.
BeliefAtLabel ==
    \A r \in DevRuns :
        /\ devPc[r] \in {"idle", "assign"} => cycle[r] = 1
        /\ devPc[r] = "start" =>
              believed[r] = IF cycle[r] = 1 THEN "ASSIGNED" ELSE "CHANGES_REQUESTED"
        /\ devPc[r] = "develop" => believed[r] = "IN_PROGRESS"
        /\ devPc[r] \in {"handoff", "review"} => believed[r] = "WAITING_REVIEW"
        /\ devPc[r] = "exhaust" => believed[r] = "CHANGES_REQUESTED"

\* The status a run believes, and the one the task has when the run missed the
\* acknowledgement of its last commit (and other stages went on from there).
MissedMoves ==
    { <<"ASSIGNED", "IN_PROGRESS">>, <<"CHANGES_REQUESTED", "IN_PROGRESS">>,
      <<"IN_PROGRESS", "WAITING_REVIEW">>, <<"CHANGES_REQUESTED", "WAITING_HUMAN">> }
    \cup ({"WAITING_REVIEW"} \X
            {"CHANGES_REQUESTED", "WAITING_QA", "WAITING_SECURITY", "COMPLETED",
             "WAITING_HUMAN"})

\* The task is assigned to the Developer of its owner.
OwnerIsAssigned == owner # NoRun => assigned = DeveloperOf[owner]

\* An assignment overtakes every other run of its Developer, so the owner was not
\* overtaken, and of the runs under way that name one Developer only the latest was.
OwnerIsCurrent == owner # NoRun => owner \notin overtaken
OneCurrentRun ==
    \A q, r \in DevRuns \ overtaken :
        devPc[q] \in Started /\ devPc[r] \in Started /\ DeveloperOf[q] = DeveloperOf[r]
            => q = r

\* A started owner knows the status, or is about to escalate.
OwnerKnows ==
    \A r \in DevRuns : devPc[r] \in Started /\ owner = r
        => \/ status = believed[r]
           \/ devPc[r] = "escalate" /\ <<believed[r], status>> \in MissedMoves

\* A started run whose task was taken away, but not by a run of its own Developer,
\* finds it parked, or handed back to development when the run waits for
\* something else.
StrangerIsStuck ==
    \A r \in DevRuns \ overtaken :
        devPc[r] \in Started /\ owner # r /\ assigned = DeveloperOf[r]
        => \/ status \in {"READY", "BLOCKED", "FAILED", "CANCELLED", "WAITING_HUMAN"}
           \/ status = "IN_PROGRESS" /\ believed[r] \in {"CHANGES_REQUESTED", "WAITING_REVIEW"}

\* The part of the invariant about the task's owner
OwnerInv ==
    /\ OwnerIsAssigned /\ OwnerIsCurrent /\ OneCurrentRun
    /\ ~intruded => OwnerKnows /\ StrangerIsStuck

\* What a Developer step does, for OnlyOwnerCommits
OwnerMove(r) ==
    devPc[r] \in Started /\ status' # status => owner = r \/ r \in overtaken \/ intruded

USE RowAssumption

-----------------------------------------------------------------------------
\* Developer steps

\* A started run that was not overtaken and finds the task as it believes it to be
\* owns it.
LEMMA ExpectedMeansOwner ==
    ASSUME IInv, OwnerInv, ~intruded, NEW r \in DevRuns \ overtaken, devPc[r] \in Started,
           AtExpected(r, believed[r])
    PROVE  owner = r
BY DEF IInv, StartedBelief, OwnerInv, StrangerIsStuck, AtExpected

\* Who owns and who is current stays, when no run starts and none is assigned.
LEMMA OwnerStays ==
    ASSUME OwnerInv, UNCHANGED <<assigned, owner>>,
           \A q \in DevRuns : q \in overtaken' <=> q \in overtaken,
           \A q \in DevRuns : devPc'[q] \in Started => devPc[q] \in Started,
           owner \in DevRuns \cup {NoRun}
    PROVE  OwnerIsAssigned' /\ OwnerIsCurrent' /\ OneCurrentRun'
BY DEF OwnerInv, OwnerIsAssigned, OwnerIsCurrent, OneCurrentRun

\* What a checkpoint of a started run does to the owner's part of the invariant
\* while no overtaken run has moved the task
LEMMA CurrentCheckpointOwns ==
    ASSUME IInv, OwnerInv, ~intruded, NEW r \in DevRuns \ overtaken, devPc[r] \in Started,
           NEW target, NEW next, DevCheckpoint(r, believed[r], target, next),
           target = believed[r] \/ <<believed[r], target>> \in MissedMoves
    PROVE  (OwnerKnows /\ StrangerIsStuck)' /\ (status' # status => owner = r)
<1>. AtExpected(r, believed[r]) \in BOOLEAN
  BY DEF AtExpected
<1>1. PICK o \in Outcomes(r, AtExpected(r, believed[r])) :
          /\ status' = IF o \in Durable THEN target ELSE status
          /\ believed' = [believed EXCEPT ![r] = IF o = "committed" THEN target ELSE @]
          /\ Goto(r, AfterCheckpoint(o, next))
  BY DEF DevCheckpoint
<1>2. /\ o \in Durable => owner = r /\ status = believed[r]
      /\ o \in {"committed", "lostAck", "refused", "rolledBack"}
  BY DurableWasExpected, ExpectedMeansOwner DEF AtExpected
<1>3. UNCHANGED <<assigned, owner, overtaken>>
  BY DEF DevCheckpoint
<1>4. devPc \in [DevRuns -> DevPc] /\ believed \in [DevRuns -> TaskStatus]
  BY DEF IInv, TypeOK, DevTypeOK
<1>5. \A q \in DevRuns : q # r => devPc'[q] = devPc[q] /\ believed'[q] = believed[q]
  BY <1>1, <1>4 DEF Goto
<1>6. CASE o \in Durable
  <2>1. owner = r /\ status = believed[r] /\ status' = target
    BY <1>1, <1>2, <1>6
  <2>2. /\ o = "committed" => believed'[r] = target
        /\ o # "committed" => believed'[r] = believed[r] /\ devPc'[r] = "escalate"
    BY <1>1, <1>2, <1>4, <1>6 DEF Durable, AfterCheckpoint, Goto
  <2>3. OwnerKnows'
    BY <1>3, <2>1, <2>2 DEF OwnerKnows
  <2>4. StrangerIsStuck'
    <3>1. assigned' = DeveloperOf[r]
      BY <1>3, <2>1 DEF OwnerInv, OwnerIsAssigned, Runs
    <3>. QED  BY <1>3, <1>5, <2>1, <3>1 DEF StrangerIsStuck, OwnerInv, OneCurrentRun
  <2>. QED  BY <2>1, <2>3, <2>4
<1>7. CASE o \notin Durable
  <2>1. status' = status /\ believed'[r] = believed[r]
        /\ (devPc'[r] \in Started => devPc'[r] = "escalate")
    BY <1>1, <1>2, <1>4, <1>7 DEF Durable, AfterCheckpoint, Goto, Started, Awaiting
  <2>. QED  BY <1>3, <1>5, <2>1 DEF OwnerInv, OwnerKnows, StrangerIsStuck
<1>. QED  BY <1>6, <1>7

\* A checkpoint of a started run, from the status it believes
LEMMA CheckpointOwns ==
    ASSUME IInv, OwnerInv, NEW r \in DevRuns, devPc[r] \in Started,
           NEW target, NEW next, DevCheckpoint(r, believed[r], target, next),
           target = believed[r] \/ <<believed[r], target>> \in MissedMoves
    PROVE  OwnerInv' /\ OwnerMove(r)
<1>1. /\ UNCHANGED <<assigned, owner, overtaken>>
      /\ intruded' = (intruded \/ (r \in overtaken /\ status' # status))
  BY DEF DevCheckpoint, MayIntrude
<1>2. \A q \in DevRuns \ {r} : devPc'[q] = devPc[q] /\ believed'[q] = believed[q]
  BY DEF DevCheckpoint, Goto, IInv, TypeOK, DevTypeOK
<1>3. OwnerIsAssigned' /\ OwnerIsCurrent' /\ OneCurrentRun'
  <2>1. owner \in DevRuns \cup {NoRun}
    BY DEF IInv, TypeOK, RowTypeOK
  <2>. QED  BY <1>1, <1>2, <2>1, OwnerStays
<1>4. CASE intruded
  BY <1>1, <1>3, <1>4 DEF OwnerInv, OwnerMove
<1>5. CASE ~intruded /\ r \in overtaken
  <2>1. owner # r
    BY <1>5 DEF OwnerInv, OwnerIsCurrent, Runs
  <2>2. status' = status => (OwnerKnows /\ StrangerIsStuck)'
    BY <1>1, <1>2, <1>5, <2>1 DEF OwnerInv, OwnerKnows, StrangerIsStuck
  <2>. QED  BY <1>1, <1>3, <1>5, <2>2 DEF OwnerInv, OwnerMove
<1>6. CASE ~intruded /\ r \notin overtaken
  BY <1>3, <1>6, CurrentCheckpointOwns DEF OwnerInv, OwnerMove
<1>. QED  BY <1>4, <1>5, <1>6

\* A run learns and forgets nothing between two checkpoints.
LEMMA BeliefKeeps ==
    ASSUME IInv, BeliefAtLabel, NEW r \in DevRuns, DevStep(r) \/ DevInterrupt(r)
    PROVE  BeliefAtLabel'
<1>. /\ devPc \in [DevRuns -> DevPc] /\ believed \in [DevRuns -> TaskStatus]
     /\ cycle \in [DevRuns -> 1 .. MaxCycles]
  BY DEF IInv, TypeOK, DevTypeOK
<1>1. CASE DevPreflight(r) \/ Assign(r)
  BY <1>1 DEF DevPreflight, Assign, Goto, BeliefAtLabel
<1>2. CASE CollaboratorFails(r) \/ DevEscalate(r) \/ DevInterrupt(r)
  BY <1>2 DEF CollaboratorFails, DevEscalate, DevInterrupt, Goto, BeliefAtLabel
<1>3. CASE StartCycle(r) \/ DeveloperCompleted(r) \/ HandoffCreated(r)
           \/ ReviewApproved(r) \/ CyclesExhausted(r)
  BY <1>3 DEF StartCycle, DeveloperCompleted, HandoffCreated, ReviewApproved,
              CyclesExhausted, DevCheckpoint, AfterCheckpoint, Goto, BeliefAtLabel
<1>4. CASE ReviewRequestedChanges(r)
  <2>1. PICK o \in Outcomes(r, AtExpected(r, "WAITING_REVIEW")) :
            /\ believed' = [believed EXCEPT
                  ![r] = IF o = "committed" THEN "CHANGES_REQUESTED" ELSE @]
            /\ Goto(r, AfterCheckpoint(o, IF cycle[r] = MaxCycles
                                          THEN "exhaust" ELSE "start"))
    BY <1>4 DEF ReviewRequestedChanges, DevCheckpoint
  <2>2. /\ devPc'[r] \in {"start", "exhaust"} => believed'[r] = "CHANGES_REQUESTED"
        /\ devPc'[r] \in {"start", "exhaust", "failed", "escalate"}
    BY <2>1 DEF Goto, AfterCheckpoint
  <2>3. devPc'[r] = "start" => cycle'[r] # 1
    BY <1>4 DEF ReviewRequestedChanges
  <2>4. \A q \in DevRuns : q # r => /\ devPc'[q] = devPc[q]
                                   /\ believed'[q] = believed[q]
                                   /\ cycle'[q] = cycle[q]
    BY <1>4, <2>1 DEF ReviewRequestedChanges, Goto
  <2>. QED  BY <2>2, <2>3, <2>4 DEF BeliefAtLabel
<1>. QED  BY <1>1, <1>2, <1>3, <1>4 DEF DevStep

\* An assignment makes the run the owner and overtakes the others of its Developer.
LEMMA AssignOwns ==
    ASSUME IInv, OwnerInv, NEW r \in DevRuns, Assign(r)
    PROVE  OwnerInv'
<1>1. PICK o \in Outcomes(r, status = "READY" /\ assigned = NoAgent) :
          /\ IF o \in Durable
             THEN /\ status' = "ASSIGNED" /\ assigned' = DeveloperOf[r] /\ owner' = r
                  /\ overtaken' = (overtaken \cup RunsOf(DeveloperOf[r])) \ {r}
             ELSE UNCHANGED <<status, assigned, owner, overtaken, intruded>>
          /\ Goto(r, IF o = "committed" THEN "start" ELSE "failed")
          /\ believed' = [believed EXCEPT ![r] = IF o = "committed" THEN "ASSIGNED" ELSE @]
  BY DEF Assign
<1>2. devPc \in [DevRuns -> DevPc] /\ believed \in [DevRuns -> TaskStatus]
  BY DEF IInv, TypeOK, DevTypeOK
<1>3. /\ \A q \in DevRuns : q # r => devPc'[q] = devPc[q] /\ believed'[q] = believed[q]
      /\ o # "committed" => devPc'[r] \notin Started
      /\ o = "committed" => believed'[r] = "ASSIGNED"
  BY <1>1, <1>2 DEF Goto, Started, Awaiting
<1>4. CASE o \in Durable
  <2>1. /\ r \notin overtaken'
        /\ \A q \in DevRuns : DeveloperOf[q] = DeveloperOf[r] /\ q # r => q \in overtaken'
        /\ \A q \in DevRuns \ overtaken' : q # r => q \notin overtaken
    BY <1>1, <1>4 DEF RunsOf, Runs
  <2>2. OwnerIsAssigned' /\ OwnerIsCurrent' /\ OwnerKnows'
    BY <1>1, <1>3, <1>4, <2>1 DEF OwnerIsAssigned, OwnerIsCurrent, OwnerKnows
  <2>3. OneCurrentRun'
    BY <1>3, <2>1 DEF OwnerInv, OneCurrentRun
  <2>4. StrangerIsStuck'
    BY <1>1, <1>4, <2>1 DEF StrangerIsStuck
  <2>. QED  BY <2>2, <2>3, <2>4 DEF OwnerInv
<1>5. CASE o \notin Durable
  <2>1. o # "committed" /\ UNCHANGED <<status, assigned, owner, overtaken, intruded>>
    BY <1>1, <1>5 DEF Durable
  <2>. QED
    BY <1>3, <2>1 DEF OwnerInv, OwnerIsAssigned, OwnerIsCurrent, OneCurrentRun, OwnerKnows,
                      StrangerIsStuck
<1>. QED  BY <1>4, <1>5

\* Every step of a Developer run
LEMMA DevOwns ==
    ASSUME IInv, OwnerInv, BeliefAtLabel,
           NEW r \in DevRuns, DevStep(r) \/ DevInterrupt(r)
    PROVE  OwnerInv' /\ OwnerMove(r)
<1>. /\ devPc \in [DevRuns -> DevPc] /\ believed \in [DevRuns -> TaskStatus]
     /\ owner \in DevRuns \cup {NoRun}
  BY DEF IInv, TypeOK, RowTypeOK, DevTypeOK
<1>1. CASE DevPreflight(r) \/ CollaboratorFails(r) \/ DevInterrupt(r)
  <2>1. /\ UNCHANGED <<status, assigned, owner, overtaken, intruded, believed>>
        /\ \A q \in DevRuns : devPc'[q] \in Started =>
              devPc[q] \in Started /\ (devPc'[q] = devPc[q] \/ devPc'[q] = "escalate")
    BY <1>1 DEF DevPreflight, CollaboratorFails, DevInterrupt, Goto, rowVars, Started,
                Awaiting
  <2>2. OwnerIsAssigned' /\ OwnerIsCurrent' /\ OneCurrentRun'
    BY <2>1, OwnerStays
  <2>. QED
    BY <2>1, <2>2 DEF OwnerInv, OwnerKnows, StrangerIsStuck, OwnerMove
<1>2. CASE Assign(r)
  BY <1>2, AssignOwns DEF Assign, OwnerMove, Started, Awaiting
<1>3. CASE StartCycle(r) \/ DeveloperCompleted(r) \/ HandoffCreated(r) \/ ReviewApproved(r)
           \/ ReviewRequestedChanges(r) \/ CyclesExhausted(r)
  <2>1. devPc[r] \in Started
    BY <1>3 DEF StartCycle, DeveloperCompleted, HandoffCreated, ReviewApproved,
                ReviewRequestedChanges, CyclesExhausted, Started, Awaiting
  <2>2. PICK target, next :
            /\ DevCheckpoint(r, believed[r], target, next)
            /\ target = believed[r] \/ <<believed[r], target>> \in MissedMoves
    <3>1. CASE StartCycle(r)
      BY <3>1 DEF StartCycle, BeliefAtLabel, MissedMoves
    <3>2. CASE DeveloperCompleted(r)
      BY <3>2 DEF DeveloperCompleted, BeliefAtLabel, MissedMoves
    <3>3. CASE HandoffCreated(r)
      BY <3>3 DEF HandoffCreated, BeliefAtLabel
    <3>4. CASE ReviewApproved(r)
      BY <3>4 DEF ReviewApproved, BeliefAtLabel, MissedMoves
    <3>5. CASE ReviewRequestedChanges(r)
      BY <3>5 DEF ReviewRequestedChanges, BeliefAtLabel, MissedMoves
    <3>6. CASE CyclesExhausted(r)
      BY <3>6 DEF CyclesExhausted, BeliefAtLabel, MissedMoves
    <3>. QED  BY <1>3, <3>1, <3>2, <3>3, <3>4, <3>5, <3>6
  <2>. QED  BY <2>1, <2>2, CheckpointOwns
<1>4. CASE DevEscalate(r)
  <2>1. /\ devPc[r] = "escalate" /\ devPc[r] \in Started /\ devPc'[r] \notin Started
        /\ \A q \in DevRuns : q # r => devPc'[q] = devPc[q]
        /\ UNCHANGED <<assigned, owner, overtaken, believed>>
        /\ intruded' = (intruded \/ (r \in overtaken /\ status' # status))
    BY <1>4 DEF DevEscalate, MayIntrude, Goto, Started, Awaiting
  <2>2. /\ status' # status => AtExpected(r, believed[r])
        /\ status' # status => status' = "WAITING_HUMAN"
    BY <1>4 DEF DevEscalate, EscalationCommits, EscalationFails
  <2>3. OwnerIsAssigned' /\ OwnerIsCurrent' /\ OneCurrentRun'
    BY <2>1, OwnerStays
  <2>4. status' # status /\ ~intruded' => owner = r
    BY <2>1, <2>2, ExpectedMeansOwner
  <2>5. ~intruded' => (OwnerKnows /\ StrangerIsStuck)'
    BY <2>1, <2>2, <2>4 DEF OwnerInv, OwnerKnows, StrangerIsStuck
  <2>. QED
    BY <2>1, <2>3, <2>4, <2>5 DEF OwnerInv, OwnerMove
<1>. QED  BY <1>1, <1>2, <1>3, <1>4 DEF DevStep

-----------------------------------------------------------------------------
\* The steps of others

\* What QA and Security do to the task, as the Developer's run sees it
GateMove ==
    /\ UNCHANGED <<assigned, owner, devPc, cycle, believed, lapsed>>
    /\ \A q \in DevRuns : q \in overtaken' <=> q \in overtaken
    /\ intruded => intruded'
    /\ status' # status =>
          /\ status \in {"WAITING_QA", "WAITING_SECURITY"}
          /\ status' \in {"WAITING_SECURITY", "COMPLETED", "CHANGES_REQUESTED",
                          "WAITING_HUMAN"}

\* QA moves the task only from its own gate.
LEMMA QAGateMove ==
    ASSUME NEW r \in QARuns, QANext(r)
    PROVE  GateMove
<1>1. /\ UNCHANGED <<assigned, owner, devPc, cycle, believed, lapsed>>
      /\ \A q \in DevRuns : q \in overtaken' <=> q \in overtaken
      /\ intruded => intruded'
  <2>1. UNCHANGED <<assigned, owner, devPc, cycle, believed, lapsed>>
    BY DEF QANext, QAStep, QAPreflightFails, QACallerCloses, QAClaim, QAComplete, QAFails,
           QAEscalate, QAInterrupt, rowVars, devVars
  <2>2. overtaken' = overtaken \/ overtaken' = overtaken \ {r}
    BY DEF QANext, QAStep, QAPreflightFails, QACallerCloses, QAClaim, QAComplete, QAFails,
           QAEscalate, QAInterrupt, rowVars
  <2>3. intruded' = intruded \/ MayIntrude(r)
    BY DEF QANext, QAStep, QAPreflightFails, QACallerCloses, QAClaim, QAComplete, QAFails,
           QAEscalate, QAInterrupt, rowVars
  <2>4. \A q \in DevRuns : q \in overtaken' <=> q \in overtaken
    BY <2>2
  <2>5. intruded => intruded'
    BY <2>3, Zenon DEF MayIntrude
  <2>. QED  BY <2>1, <2>4, <2>5
<1>2. CASE \E decision \in {"PASSED", "FAILED"} : QAComplete(r, decision)
  <2>1. PICK o \in Outcomes(r, QAMayEnd(r)) :
            IF o \in Durable THEN status' \in {"WAITING_SECURITY", "CHANGES_REQUESTED"}
            ELSE UNCHANGED status
    BY <1>2 DEF QAComplete
  <2>2. o \in Durable => status = "WAITING_QA"
    BY DurableWasExpected DEF QAMayEnd, AtExpected
  <2>. QED  BY <1>1, <2>1, <2>2 DEF GateMove
<1>3. CASE QAEscalate(r)
  BY <1>1, <1>3 DEF QAEscalate, EscalationCommits, EscalationFails, QAMayEnd, AtExpected,
                    GateMove
<1>4. CASE ~QAEscalate(r) /\ ~\E decision \in {"PASSED", "FAILED"} : QAComplete(r, decision)
  BY <1>1, <1>4 DEF QANext, QAStep, QAPreflightFails, QACallerCloses, QAClaim, QAFails,
                    QAInterrupt, rowVars, GateMove
<1>. QED  BY <1>2, <1>3, <1>4

\* Security moves the task only from its own gate.
LEMMA SecGateMove ==
    ASSUME NEW r \in SecRuns, SecNext(r)
    PROVE  GateMove
<1>1. /\ UNCHANGED <<assigned, owner, devPc, cycle, believed, lapsed>>
      /\ \A q \in DevRuns : q \in overtaken' <=> q \in overtaken
      /\ intruded => intruded'
  <2>1. UNCHANGED <<assigned, owner, devPc, cycle, believed, lapsed>>
    BY DEF SecNext, SecStep, SecPreflight, SecClaim, SecComplete, SecFails, SecEscalate,
           SecInterrupt, rowVars, devVars
  <2>2. overtaken' = overtaken \/ overtaken' = overtaken \ {r}
    BY DEF SecNext, SecStep, SecPreflight, SecClaim, SecComplete, SecFails, SecEscalate,
           SecInterrupt, rowVars
  <2>3. intruded' = intruded \/ MayIntrude(r)
    BY DEF SecNext, SecStep, SecPreflight, SecClaim, SecComplete, SecFails, SecEscalate,
           SecInterrupt, rowVars
  <2>4. \A q \in DevRuns : q \in overtaken' <=> q \in overtaken
    BY <2>2
  <2>5. intruded => intruded'
    BY <2>3, Zenon DEF MayIntrude
  <2>. QED  BY <2>1, <2>4, <2>5
<1>2. CASE \E decision \in DOMAIN SecTarget : SecComplete(r, decision)
  <2>1. PICK decision \in DOMAIN SecTarget, o \in Outcomes(r, SecMayEnd(r)) :
            status' = IF o \in Durable THEN SecTarget[decision] ELSE status
    BY <1>2 DEF SecComplete
  <2>2. o \in Durable => status = "WAITING_SECURITY"
    BY DurableWasExpected DEF SecMayEnd, AtExpected
  <2>3. SecTarget[decision] \in {"COMPLETED", "WAITING_HUMAN", "CHANGES_REQUESTED"}
    BY DEF SecTarget
  <2>. QED  BY <1>1, <2>1, <2>2, <2>3 DEF GateMove
<1>3. CASE SecEscalate(r)
  BY <1>1, <1>3 DEF SecEscalate, EscalationCommits, EscalationFails, SecMayEnd, AtExpected,
                    GateMove
<1>4. CASE ~SecEscalate(r) /\ ~\E decision \in DOMAIN SecTarget : SecComplete(r, decision)
  BY <1>1, <1>4 DEF SecNext, SecStep, SecPreflight, SecClaim, SecFails, SecInterrupt,
                    rowVars, GateMove
<1>. QED  BY <1>2, <1>3, <1>4

\* A task at a gate is owned by a run that already missed its approval.
LEMMA GateOwns ==
    ASSUME IInv, OwnerInv, BeliefAtLabel, GateMove
    PROVE  OwnerInv' /\ BeliefAtLabel'
<1>1. BeliefAtLabel'
  BY DEF GateMove, BeliefAtLabel
<1>2. OwnerIsAssigned' /\ OwnerIsCurrent' /\ OneCurrentRun'
  BY OwnerStays DEF GateMove, IInv, TypeOK, RowTypeOK
<1>3. CASE intruded'
  BY <1>1, <1>2, <1>3 DEF OwnerInv
<1>4. CASE ~intruded' /\ status' = status
  BY <1>1, <1>2, <1>4 DEF GateMove, OwnerInv, OwnerKnows, StrangerIsStuck
<1>5. CASE ~intruded' /\ status' # status
  <2>. OwnerKnows /\ StrangerIsStuck
    BY <1>5 DEF GateMove, OwnerInv
  <2>1. ASSUME NEW r \in DevRuns, devPc[r] \in Started, owner = r
        PROVE  devPc[r] = "escalate" /\ believed[r] = "WAITING_REVIEW"
    BY <1>5, <2>1 DEF GateMove, OwnerKnows, IInv, StartedBelief, MissedMoves
  <2>2. OwnerKnows'
    BY <1>5, <2>1 DEF GateMove, OwnerKnows, MissedMoves
  <2>3. StrangerIsStuck'
    BY <1>5 DEF GateMove, StrangerIsStuck
  <2>. QED  BY <1>1, <1>2, <2>2, <2>3 DEF OwnerInv
<1>. QED  BY <1>3, <1>4, <1>5

\* A move from outside takes the task away from its owner and leaves it where
\* no checkpoint of a run expects it.
LEMMA CoordinatorOwns ==
    ASSUME IInv, OwnerInv, BeliefAtLabel, Coordinator
    PROVE  OwnerInv' /\ BeliefAtLabel'
<1>1. PICK target \in TaskStatus, agent \in {assigned, NoAgent} :
          CoordinatorMove(target, agent)
  BY DEF Coordinator
<1>2. /\ UNCHANGED <<devPc, cycle, believed, overtaken, intruded>> /\ owner' = NoRun
      /\ status' = target /\ assigned' \in {assigned, NoAgent}
  BY <1>1 DEF CoordinatorMove, devVars
<1>3. \/ target \in {"READY", "BLOCKED", "FAILED", "CANCELLED", "WAITING_HUMAN"}
      \/ status = "CHANGES_REQUESTED" /\ target = "IN_PROGRESS"
  BY <1>1 DEF CoordinatorMove, CanTransition, AllowedTransitions, WorkEdges, Terminal,
              GateEdges, TaskStatus, IInv, TypeOK, RowTypeOK
<1>4. ASSUME NEW r \in DevRuns \ overtaken, devPc[r] \in Started, ~intruded,
             assigned' = DeveloperOf[r], status = "CHANGES_REQUESTED"
      PROVE  believed[r] \in {"CHANGES_REQUESTED", "WAITING_REVIEW"}
  <2>1. assigned = DeveloperOf[r]
    BY <1>2, <1>4 DEF Runs
  <2>2. owner = r
    BY <1>4, <2>1 DEF OwnerInv, StrangerIsStuck
  <2>. QED  BY <1>4, <2>2 DEF OwnerInv, OwnerKnows, MissedMoves
<1>5. BeliefAtLabel'
  BY <1>2 DEF BeliefAtLabel
<1>6. OwnerIsAssigned' /\ OwnerIsCurrent' /\ OneCurrentRun' /\ OwnerKnows'
  BY <1>2 DEF OwnerIsAssigned, OwnerIsCurrent, OwnerInv, OneCurrentRun, OwnerKnows, Runs
<1>7. ~intruded' => StrangerIsStuck'
  BY <1>2, <1>3, <1>4 DEF StrangerIsStuck
<1>. QED  BY <1>5, <1>6, <1>7 DEF OwnerInv

-----------------------------------------------------------------------------
\* Every step, or a stutter
LEMMA StepOwns ==
    ASSUME IInv, OwnerInv, BeliefAtLabel, [Next]_vars
    PROVE  /\ OwnerInv' /\ BeliefAtLabel'
           /\ \A r \in DevRuns : devPc'[r] # devPc[r] => OwnerMove(r)
<1>1. CASE UNCHANGED vars
  BY <1>1 DEF vars, rowVars, devVars, OwnerInv, OwnerIsAssigned, OwnerIsCurrent,
              OneCurrentRun, OwnerKnows, StrangerIsStuck, BeliefAtLabel
<1>2. ASSUME NEW r \in DevRuns, DevNext(r)
      PROVE  /\ OwnerInv' /\ BeliefAtLabel'
             /\ \A q \in DevRuns : devPc'[q] # devPc[q] => OwnerMove(q)
  <2>1. \A q \in DevRuns : devPc'[q] # devPc[q] => q = r
    <3>1. \E label : Goto(r, label)
      BY <1>2 DEF DevNext, DevStep, DevInterrupt, DevPreflight, Assign, StartCycle,
                  DeveloperCompleted, HandoffCreated, ReviewApproved,
                  ReviewRequestedChanges, CyclesExhausted, CollaboratorFails,
                  DevEscalate, DevCheckpoint
    <3>. QED  BY <3>1 DEF Goto, IInv, TypeOK, DevTypeOK
  <2>. QED  BY <1>2, <2>1, DevOwns, BeliefKeeps DEF DevNext
<1>3. CASE (\E r \in QARuns : QANext(r)) \/ (\E r \in SecRuns : SecNext(r))
  <2>1. GateMove
    BY <1>3, QAGateMove, SecGateMove
  <2>. QED  BY <2>1, GateOwns DEF GateMove
<1>4. CASE Coordinator
  <2>1. UNCHANGED devPc
    BY <1>4 DEF Coordinator, CoordinatorMove, devVars
  <2>. QED  BY <1>4, <2>1, CoordinatorOwns
<1>. QED  BY <1>1, <1>2, <1>3, <1>4 DEF Next

\* Whoever the requests name, only the run a task was last assigned to commits
\* checkpoints and escalations to it, until a run that another run of its own
\* Developer overtook has done so.
THEOREM OwnersCommit == Spec => OnlyOwnerCommits
<1>1. Init => OwnerInv /\ BeliefAtLabel
  BY DEF Init, RowInit, DevInit, OwnerInv, OwnerIsAssigned, OwnerIsCurrent, OneCurrentRun,
         OwnerKnows, StrangerIsStuck, BeliefAtLabel, Started, Awaiting
<1>2. IInv /\ OwnerInv /\ BeliefAtLabel /\ [Next]_vars => OwnerInv' /\ BeliefAtLabel'
  BY StepOwns
<1>3. IInv /\ OwnerInv /\ BeliefAtLabel /\ [Next]_vars
          => [\A r \in DevRuns : devPc[r] \in Started /\ devPc'[r] # devPc[r]
                                     /\ status' # status
                  => owner = r \/ r \in overtaken \/ intruded]_vars
  BY StepOwns DEF OwnerMove
<1>. QED  BY <1>1, <1>2, <1>3, InductiveInvariant, PTL DEF Spec, OnlyOwnerCommits

-----------------------------------------------------------------------------
\* Evidence about the latest delivery

\* A gate run is under way: its verdict may still be committed.
GateRuns == {r \in QARuns : qaPc[r] = "run"} \cup {r \in SecRuns : secPc[r] = "run"}

\* Where a Developer run may still deliver
Delivering == Started \ {"escalate"}

\* While a gate run is under way on a task of its Developer, no other run delivers
\* for that Developer, unless one of the two was overtaken.
DeveloperIsDone ==
    \A g \in GateRuns \ overtaken, r \in DevRuns \ overtaken :
        DeveloperOf[r] = DeveloperOf[g] /\ assigned = DeveloperOf[g]
            => devPc[r] \notin Delivering

\* As long as the task is assigned to its Developer, what a run has seen, at
\* a gate or under review, is the latest delivery, unless the run was overtaken.
SeenIsLatest ==
    \A r \in (GateRuns \cup {d \in DevRuns : devPc[d] \in {"handoff", "review"}}) \ overtaken :
        assigned = DeveloperOf[r] => seen[r] = work.delivered

\* The inductive invariant behind EvidenceIsCurrent
EvidenceInv == ~intruded => DeveloperIsDone /\ SeenIsLatest /\ EvidenceIsCurrent

\* A task at the QA or Security gate is assigned to a Developer whose current run
\* has delivered.
LEMMA AtGateDeveloperIsDone ==
    ASSUME IInv, OwnerInv, ~intruded, status \in {"WAITING_QA", "WAITING_SECURITY"},
           NEW r \in DevRuns \ overtaken, assigned = DeveloperOf[r]
    PROVE  devPc[r] \notin Delivering
<1>. SUFFICES ASSUME devPc[r] \in Started PROVE devPc[r] = "escalate"
  BY DEF Delivering
<1>1. CASE owner = r
  BY <1>1 DEF OwnerInv, OwnerKnows, IInv, StartedBelief
<1>2. CASE owner # r
  BY <1>2 DEF OwnerInv, StrangerIsStuck
<1>. QED  BY <1>1, <1>2

\* Only an assignment sets a run to deliver.
LEMMA DeliveringBegins ==
    ASSUME IInv, NEW r \in DevRuns, DevNext(r), ~Assign(r)
    PROVE  \A q \in DevRuns : devPc'[q] \in Delivering => devPc[q] \in Delivering
<1>1. devPc \in [DevRuns -> DevPc]
  BY DEF IInv, TypeOK, DevTypeOK
<1>2. \E label : Goto(r, label)
  BY DEF DevNext, DevStep, DevInterrupt, DevPreflight, StartCycle,
         DeveloperCompleted, HandoffCreated, ReviewApproved, ReviewRequestedChanges,
         CyclesExhausted, CollaboratorFails, DevEscalate, DevCheckpoint
<1>3. devPc[r] \notin Delivering
          => \E label \in {"assign", "failed", "interrupted"} : Goto(r, label)
  BY DEF DevNext, DevStep, DevInterrupt, DevPreflight, StartCycle,
         DeveloperCompleted, HandoffCreated, ReviewApproved, ReviewRequestedChanges,
         CyclesExhausted, CollaboratorFails, DevEscalate, Delivering, Started, Awaiting
<1>. QED  BY <1>1, <1>2, <1>3 DEF Goto, Delivering, Started, Awaiting

\* A step that assigns nothing leaves the owner and who is current alone, and an
\* intrusion stays one.
LEMMA DevNotes ==
    ASSUME IInv, NEW r \in DevRuns, DevNext(r), ~Assign(r)
    PROVE  /\ UNCHANGED <<assigned, owner, overtaken>>
           /\ UNCHANGED <<status, intruded>>
              \/ intruded' = (intruded \/ (r \in overtaken /\ status' # status))
<1>1. CASE DevPreflight(r) \/ CollaboratorFails(r) \/ DevInterrupt(r)
  BY <1>1 DEF DevPreflight, CollaboratorFails, DevInterrupt, rowVars
<1>2. CASE DevEscalate(r)
  BY <1>2 DEF DevEscalate, MayIntrude
<1>3. CASE \/ StartCycle(r) \/ DeveloperCompleted(r) \/ HandoffCreated(r)
           \/ ReviewApproved(r) \/ ReviewRequestedChanges(r) \/ CyclesExhausted(r)
  <2>1. PICK source, target, next : DevCheckpoint(r, source, target, next)
    BY <1>3 DEF StartCycle, DeveloperCompleted, HandoffCreated, ReviewApproved,
                ReviewRequestedChanges, CyclesExhausted
  <2>. QED  BY <2>1 DEF DevCheckpoint, MayIntrude
<1>. QED  BY <1>1, <1>2, <1>3 DEF DevNext, DevStep

\* A checkpoint finds the task where it expects it, assigned to the run's
\* Developer, or changes nothing and ends or escalates the run.
LEMMA CheckpointCases ==
    ASSUME IInv, NEW r \in DevRuns, NEW source, NEW target, NEW next,
           DevCheckpoint(r, source, target, next)
    PROVE  /\ UNCHANGED <<assigned, rowLock, owner>>
           /\ \A q \in DevRuns \ {r} : devPc'[q] = devPc[q] /\ believed'[q] = believed[q]
           /\ lapsed' \in {lapsed, lapsed \cup {r}}
           /\ \/ /\ AtExpected(r, source) /\ status' = target
                 /\ devPc'[r] = next /\ believed'[r] = target
              \/ /\ AtExpected(r, source) /\ status' = target /\ r \in lapsed'
                 /\ devPc'[r] = "escalate" /\ believed'[r] = believed[r]
              \/ /\ status' = status /\ believed'[r] = believed[r]
                 /\ \/ devPc'[r] = "escalate"
                    \/ devPc'[r] = "failed" /\ ~AtExpected(r, source)
<1>. devPc \in [DevRuns -> DevPc] /\ believed \in [DevRuns -> TaskStatus]
  BY DEF IInv, TypeOK, DevTypeOK
<1>1. PICK o \in Outcomes(r, AtExpected(r, source)) :
          /\ status' = IF o \in Durable THEN target ELSE status
          /\ believed' = [believed EXCEPT ![r] = IF o = "committed" THEN target ELSE @]
          /\ Goto(r, AfterCheckpoint(o, next))
          /\ LapsesIf(r, o = "lostAck")
  BY DEF DevCheckpoint
<1>2. UNCHANGED <<assigned, rowLock, owner>>
  BY DEF DevCheckpoint
<1>3. /\ \A q \in DevRuns \ {r} : devPc'[q] = devPc[q] /\ believed'[q] = believed[q]
      /\ devPc'[r] = AfterCheckpoint(o, next)
      /\ believed'[r] = IF o = "committed" THEN target ELSE believed[r]
  BY <1>1 DEF Goto
<1>4. \/ o = "committed" /\ AtExpected(r, source)
      \/ o = "lostAck" /\ AtExpected(r, source)
      \/ o = "refused" /\ ~AtExpected(r, source)
      \/ o = "rolledBack"
  BY DEF Outcomes
<1>5. lapsed' \in {lapsed, lapsed \cup {r}} /\ (o = "lostAck" => r \in lapsed')
  BY <1>1 DEF LapsesIf
<1>. QED  BY <1>1, <1>2, <1>3, <1>4, <1>5 DEF Durable, AfterCheckpoint

\* An assignment overtakes every run that has seen a delivery of its Developer.
LEMMA AssignEvidence ==
    ASSUME IInv, EvidenceInv, NEW r \in DevRuns, Assign(r), GateRuns' = GateRuns
    PROVE  EvidenceInv'
<1>. /\ devPc \in [DevRuns -> DevPc] /\ GateRuns \subseteq Runs /\ DevRuns \subseteq Runs
     /\ r \notin GateRuns
  BY DEF IInv, TypeOK, DevTypeOK, GateRuns, Runs
<1>1. /\ devPc[r] = "assign" /\ UNCHANGED <<work, seen>>
      /\ Goto(r, "start") \/ Goto(r, "failed")
  BY DEF Assign
<1>2. \/ /\ status' = "ASSIGNED" /\ assigned' = DeveloperOf[r]
         /\ overtaken' = (overtaken \cup RunsOf(DeveloperOf[r])) \ {r}
      \/ UNCHANGED <<status, assigned, overtaken, intruded>> /\ Goto(r, "failed")
  BY DEF Assign, Durable
<1>3. /\ \A q \in DevRuns \ {r} : devPc'[q] = devPc[q]
      /\ devPc'[r] \in {"start", "failed"}
  BY <1>1 DEF Goto
<1>4. CASE /\ status' = "ASSIGNED" /\ assigned' = DeveloperOf[r]
           /\ overtaken' = (overtaken \cup RunsOf(DeveloperOf[r])) \ {r}
  <2>1. \A q \in Runs \ {r} : assigned' = DeveloperOf[q] => q \in overtaken'
    BY <1>4 DEF RunsOf
  <2>2. DeveloperIsDone'
    BY <2>1 DEF DeveloperIsDone
  <2>3. SeenIsLatest'
    BY <1>3, <2>1 DEF SeenIsLatest
  <2>4. EvidenceIsCurrent'
    BY <1>4 DEF EvidenceIsCurrent
  <2>. QED  BY <2>2, <2>3, <2>4 DEF EvidenceInv
<1>5. CASE UNCHANGED <<status, assigned, overtaken, intruded>> /\ Goto(r, "failed")
  <2>. SUFFICES ASSUME ~intruded'
                PROVE  DeveloperIsDone' /\ SeenIsLatest' /\ EvidenceIsCurrent'
    BY DEF EvidenceInv
  <2>1. devPc'[r] = "failed"
    BY <1>5 DEF Goto
  <2>2. DeveloperIsDone'
    BY <1>3, <1>5, <2>1 DEF EvidenceInv, DeveloperIsDone, Delivering, Started, Awaiting
  <2>3. SeenIsLatest'
    BY <1>1, <1>3, <1>5, <2>1 DEF EvidenceInv, SeenIsLatest
  <2>4. EvidenceIsCurrent'
    BY <1>1, <1>5 DEF EvidenceInv, EvidenceIsCurrent
  <2>. QED  BY <2>2, <2>3, <2>4
<1>. QED  BY <1>2, <1>4, <1>5

\* Every Developer step: a delivery is the current run's own, on a task that no
\* current gate run still looks at.
LEMMA DevEvidence ==
    ASSUME IInv, OwnerInv, EvidenceInv, NEW r \in DevRuns, DevNext(r)
    PROVE  EvidenceInv'
<1>. r \in Runs /\ devPc \in [DevRuns -> DevPc] /\ work \in Work /\ seen \in [Runs -> Nat]
  BY DEF IInv, TypeOK, DevTypeOK, RowTypeOK, Runs
<1>. /\ GateRuns' = GateRuns /\ GateRuns \subseteq Runs /\ GateRuns \cap DevRuns = {}
  BY DEF DevNext, qaVars, secVars, GateRuns, Runs
<1>. SUFFICES ASSUME ~Assign(r), ~intruded'
              PROVE  DeveloperIsDone' /\ SeenIsLatest' /\ EvidenceIsCurrent'
  BY AssignEvidence DEF EvidenceInv
<1>0. /\ UNCHANGED <<assigned, overtaken>> /\ ~intruded
      /\ status' # status => r \notin overtaken
  BY DevNotes
<1>1. DeveloperIsDone'
  BY <1>0, DeliveringBegins DEF EvidenceInv, DeveloperIsDone
<1>2. ASSUME UNCHANGED <<work, seen>>,
             \A q \in DevRuns \ {r} : devPc'[q] = devPc[q],
             devPc'[r] = "review" => devPc[r] = "handoff",
             devPc'[r] # "handoff",
             status' \in {"WAITING_QA", "WAITING_SECURITY", "COMPLETED"} => status' = status
      PROVE  SeenIsLatest' /\ EvidenceIsCurrent'
  <2>1. SeenIsLatest'
    BY <1>0, <1>2 DEF EvidenceInv, SeenIsLatest
  <2>2. EvidenceIsCurrent'
    BY <1>0, <1>2 DEF EvidenceInv, EvidenceIsCurrent
  <2>. QED  BY <2>1, <2>2
<1>3. CASE DevPreflight(r) \/ CollaboratorFails(r) \/ DevInterrupt(r) \/ DevEscalate(r)
  <2>1. /\ UNCHANGED <<work, seen>> /\ status' \in {status, "WAITING_HUMAN"}
        /\ Goto(r, "assign") \/ Goto(r, "failed") \/ Goto(r, "escalate") \/ Goto(r, "interrupted")
    BY <1>3 DEF DevPreflight, CollaboratorFails, DevInterrupt, DevEscalate,
                EscalationCommits, EscalationFails, rowVars
  <2>. QED  BY <1>1, <1>2, <2>1 DEF Goto
<1>5. CASE StartCycle(r) \/ HandoffCreated(r) \/ ReviewRequestedChanges(r) \/ CyclesExhausted(r)
  <2>1. PICK source, target, next :
            /\ DevCheckpoint(r, source, target, next)
            /\ \/ target \in {"IN_PROGRESS", "CHANGES_REQUESTED", "WAITING_HUMAN"}
               \/ target = "WAITING_REVIEW"
            /\ \/ next \in {"develop", "start", "exhaust", "exhausted"}
               \/ next = "review" /\ devPc[r] = "handoff"
    <3>1. CASE StartCycle(r)
      BY <3>1 DEF StartCycle
    <3>2. CASE HandoffCreated(r)
      BY <3>2 DEF HandoffCreated
    <3>3. CASE ReviewRequestedChanges(r)
      BY <3>3 DEF ReviewRequestedChanges
    <3>4. CASE CyclesExhausted(r)
      BY <3>4 DEF CyclesExhausted
    <3>. QED  BY <1>5, <3>1, <3>2, <3>3, <3>4
  <2>2. UNCHANGED <<work, seen>>
    BY <1>5 DEF StartCycle, HandoffCreated, ReviewRequestedChanges, CyclesExhausted
  <2>. QED  BY <1>1, <1>2, <2>1, <2>2, CheckpointCases
<1>6. CASE DeveloperCompleted(r)
  <2>1. /\ devPc[r] = "develop"
        /\ DevCheckpoint(r, "IN_PROGRESS", "WAITING_REVIEW", "handoff")
        /\ IF status' # status
           THEN /\ work' = [work EXCEPT !.delivered = @ + 1]
                /\ seen' = [seen EXCEPT ![r] = work.delivered + 1]
           ELSE UNCHANGED <<work, seen>>
    BY <1>6 DEF DeveloperCompleted
  <2>2. CASE status' = status
    <3>1. devPc'[r] \in {"escalate", "failed"}
      BY <2>1, <2>2, CheckpointCases DEF AtExpected
    <3>. QED  BY <1>1, <1>2, <2>1, <2>2, <3>1, CheckpointCases
  <2>3. CASE status' # status
    <3>1. /\ assigned = DeveloperOf[r] /\ assigned' = assigned /\ status' = "WAITING_REVIEW"
          /\ devPc'[r] \in {"handoff", "escalate"}
          /\ \A q \in DevRuns \ {r} : devPc'[q] = devPc[q]
      BY <2>1, <2>3, CheckpointCases DEF AtExpected
    <3>2. /\ r \notin overtaken
          /\ \A g \in GateRuns \ overtaken : DeveloperOf[g] # DeveloperOf[r]
      BY <1>0, <2>1, <2>3, <3>1
         DEF EvidenceInv, DeveloperIsDone, Delivering, Started, Awaiting
    <3>3. \A q \in DevRuns \ overtaken :
              q # r /\ devPc[q] \in {"handoff", "review"} => DeveloperOf[q] # DeveloperOf[r]
      BY <2>1, <3>2 DEF OwnerInv, OneCurrentRun, Started, Awaiting
    <3>4. seen'[r] = work'.delivered
      BY <2>1, <2>3 DEF Work
    <3>5. SeenIsLatest'
      <4>1. ASSUME NEW q \in (GateRuns' \cup {d \in DevRuns : devPc'[d] \in {"handoff", "review"}})
                                 \ overtaken',
                   assigned' = DeveloperOf[q], q # r
            PROVE  FALSE
        BY <1>0, <3>1, <3>2, <3>3, <4>1
      <4>. QED  BY <3>4, <4>1 DEF SeenIsLatest
    <3>6. EvidenceIsCurrent'
      BY <3>1 DEF EvidenceIsCurrent
    <3>. QED  BY <1>1, <3>5, <3>6
  <2>. QED  BY <2>2, <2>3
<1>7. CASE ReviewApproved(r)
  <2>1. /\ devPc[r] = "review" /\ seen' = seen
        /\ DevCheckpoint(r, "WAITING_REVIEW", "WAITING_QA", "approved")
        /\ work' = [work EXCEPT !.reviewed = IF status' # status THEN seen[r] ELSE @]
    BY <1>7 DEF ReviewApproved
  <2>2. CASE status' = status
    <3>1. work' = work
      BY <2>1, <2>2 DEF Work
    <3>. QED  BY <1>1, <1>2, <2>1, <2>2, <3>1, CheckpointCases DEF AtExpected
  <2>3. CASE status' # status
    <3>1. /\ assigned = DeveloperOf[r] /\ assigned' = assigned /\ status' = "WAITING_QA"
          /\ devPc'[r] \in {"approved", "escalate"}
          /\ \A q \in DevRuns \ {r} : devPc'[q] = devPc[q]
      BY <2>1, <2>3, CheckpointCases DEF AtExpected
    <3>2. seen[r] = work.delivered
      BY <1>0, <2>1, <2>3, <3>1 DEF EvidenceInv, SeenIsLatest
    <3>3. work'.delivered = work.delivered /\ work'.reviewed = work.delivered
      BY <2>1, <2>3, <3>2 DEF Work
    <3>4. SeenIsLatest'
      BY <1>0, <2>1, <3>1, <3>3 DEF EvidenceInv, SeenIsLatest
    <3>5. EvidenceIsCurrent'
      BY <3>1, <3>3 DEF EvidenceIsCurrent
    <3>. QED  BY <1>1, <3>4, <3>5
  <2>. QED  BY <2>2, <2>3
<1>. QED  BY <1>3, <1>5, <1>6, <1>7 DEF DevNext, DevStep

\* What a gate run's step may do to the evidence: it starts to look at the latest
\* delivery of a Developer whose current run has delivered, or passes what it has seen.
LEMMA GateEvidence ==
    ASSUME IInv, EvidenceInv, ~intruded, NEW g \in QARuns \cup SecRuns,
           UNCHANGED <<assigned, devVars>>,
           GateRuns' \subseteq GateRuns \cup {g},
           \/ UNCHANGED <<seen, overtaken>> /\ GateRuns' \subseteq GateRuns
           \/ /\ seen' = [seen EXCEPT ![g] = work.delivered]
              /\ overtaken' = overtaken \ {g}
              /\ g \in GateRuns' =>
                    \A r \in DevRuns \ overtaken :
                        assigned = DeveloperOf[r] => devPc[r] \notin Delivering,
           work'.delivered = work.delivered
    PROVE  DeveloperIsDone' /\ SeenIsLatest'
<1>1. g \in Runs /\ g \notin DevRuns /\ seen \in [Runs -> Nat] /\ GateRuns \subseteq Runs
      /\ DevRuns \subseteq Runs /\ devPc' = devPc /\ assigned' = assigned
  BY DEF Runs, IInv, TypeOK, RowTypeOK, GateRuns, devVars
<1>2. DeveloperIsDone /\ SeenIsLatest
  BY DEF EvidenceInv
<1>3. CASE UNCHANGED <<seen, overtaken>> /\ GateRuns' \subseteq GateRuns
  BY <1>1, <1>2, <1>3 DEF DeveloperIsDone, SeenIsLatest
<1>4. CASE /\ seen' = [seen EXCEPT ![g] = work.delivered]
           /\ overtaken' = overtaken \ {g}
           /\ g \in GateRuns' =>
                 \A r \in DevRuns \ overtaken :
                     assigned = DeveloperOf[r] => devPc[r] \notin Delivering
  <2>1. /\ seen'[g] = work.delivered
        /\ \A r \in Runs \ {g} : seen'[r] = seen[r] /\ (r \in overtaken' <=> r \in overtaken)
    BY <1>1, <1>4
  <2>2. DeveloperIsDone'
    <3>1. ASSUME NEW h \in GateRuns' \ overtaken', NEW r \in DevRuns \ overtaken',
                 DeveloperOf[r] = DeveloperOf[h], assigned' = DeveloperOf[h]
          PROVE  devPc'[r] \notin Delivering
      <4>1. r \notin overtaken /\ assigned = DeveloperOf[r]
        BY <1>1, <2>1, <3>1
      <4>2. CASE h = g
        BY <1>1, <1>4, <3>1, <4>1, <4>2
      <4>3. CASE h # g
        BY <1>1, <1>2, <2>1, <3>1, <4>1, <4>3 DEF DeveloperIsDone
      <4>. QED  BY <4>2, <4>3
    <3>. QED  BY <3>1 DEF DeveloperIsDone
  <2>3. SeenIsLatest'
    <3>1. ASSUME NEW r \in (GateRuns' \cup {d \in DevRuns : devPc'[d] \in {"handoff", "review"}})
                               \ overtaken',
                 assigned' = DeveloperOf[r], r # g
          PROVE  seen'[r] = work'.delivered
      BY <1>1, <1>2, <2>1, <3>1 DEF SeenIsLatest
    <3>. QED  BY <2>1, <3>1 DEF SeenIsLatest
  <2>. QED  BY <2>2, <2>3
<1>. QED  BY <1>3, <1>4

\* QA passes the latest delivery, unless its Developer's task went to another run.
LEMMA QAEvidence ==
    ASSUME IInv, OwnerInv, EvidenceInv, NEW r \in QARuns, QANext(r)
    PROVE  /\ EvidenceInv'
           /\ qaPc[r] = "run" /\ qaPc'[r] = "completed"
                 => seen[r] = work.delivered \/ r \in overtaken \/ intruded
<1>. /\ r \in Runs /\ r \notin SecRuns /\ work \in Work /\ seen \in [Runs -> Nat]
     /\ qaPc \in [QARuns -> QAPc]
  BY DEF IInv, TypeOK, QATypeOK, RowTypeOK, Runs
<1>1. UNCHANGED <<assigned, devVars, secPc>>
  BY DEF QANext, QAStep, QAPreflightFails, QACallerCloses, QAClaim, QAComplete, QAFails,
         QAEscalate, QAInterrupt, rowVars, devVars, secVars
<1>2. intruded => intruded'
  BY QAGateMove DEF GateMove
<1>3. CASE intruded
  BY <1>2, <1>3 DEF EvidenceInv
<1>4. CASE ~intruded /\ QAClaim(r)
  <2>1. /\ UNCHANGED <<status, work>> /\ seen' = [seen EXCEPT ![r] = work.delivered]
        /\ overtaken' = overtaken \ {r} /\ qaPc[r] = "idle"
    BY <1>4 DEF QAClaim
  <2>2. PICK o \in Outcomes(r, MayClaimQA(r)) :
            QAGoto(r, IF o = "committed" THEN "run" ELSE "failed")
    BY <1>4 DEF QAClaim
  <2>3. o = "committed" => AtExpected(r, "WAITING_QA")
    BY <1>4, <2>2 DEF QAClaim, Outcomes
  <2>4. GateRuns' \subseteq GateRuns \cup {r} /\ (r \in GateRuns' => o = "committed")
    BY <1>1, <2>2 DEF QAGoto, GateRuns
  <2>5. r \in GateRuns' =>
            \A q \in DevRuns \ overtaken :
                assigned = DeveloperOf[q] => devPc[q] \notin Delivering
    BY <1>4, <2>3, <2>4, AtGateDeveloperIsDone DEF AtExpected
  <2>6. EvidenceIsCurrent'
    BY <1>4, <2>1 DEF EvidenceInv, EvidenceIsCurrent
  <2>7. DeveloperIsDone' /\ SeenIsLatest'
    BY <1>1, <1>4, <2>1, <2>4, <2>5, GateEvidence
  <2>. QED  BY <2>1, <2>6, <2>7 DEF EvidenceInv
<1>5. CASE ~intruded /\ \E decision \in {"PASSED", "FAILED"} : QAComplete(r, decision)
  <2>1. PICK decision \in {"PASSED", "FAILED"} : QAComplete(r, decision)
    BY <1>5
  <2>2. PICK o \in Outcomes(r, QAMayEnd(r)) :
            /\ IF o \in Durable
               THEN /\ status' = IF decision = "PASSED" THEN "WAITING_SECURITY"
                                 ELSE "CHANGES_REQUESTED"
                    /\ work' = [work EXCEPT
                          !.tested = IF decision = "PASSED" THEN seen[r] ELSE @]
               ELSE UNCHANGED <<status, work>>
            /\ QAGoto(r, AfterCheckpoint(o, "completed"))
    BY <2>1 DEF QAComplete
  <2>3. /\ qaPc[r] = "run" /\ r \in GateRuns /\ UNCHANGED <<seen, overtaken>>
        /\ intruded' = (intruded \/ (r \in overtaken /\ status' # status))
    BY <2>1 DEF QAComplete, GateRuns, MayIntrude
  <2>4. o \in Durable => status = "WAITING_QA" /\ assigned = DeveloperOf[r]
    BY DurableWasExpected DEF QAMayEnd, AtExpected
  <2>5. o \in Durable => seen[r] = work.delivered \/ r \in overtaken
    BY <1>5, <2>3, <2>4 DEF EvidenceInv, SeenIsLatest
  <2>6. GateRuns' \subseteq GateRuns
    BY <1>1, <2>2, <2>3 DEF QAGoto, GateRuns
  <2>7. ~intruded' => EvidenceIsCurrent'
    <3>1. CASE o \in Durable
      <4>1. r \in overtaken => intruded'
        BY <2>2, <2>3, <2>4, <3>1
      <4>. QED  BY <1>5, <2>2, <2>4, <2>5, <3>1, <4>1 DEF EvidenceInv, EvidenceIsCurrent, Work
    <3>2. CASE o \notin Durable
      BY <1>5, <2>2, <3>2 DEF EvidenceInv, EvidenceIsCurrent
    <3>. QED  BY <3>1, <3>2
  <2>8. work'.delivered = work.delivered
    BY <2>2 DEF Work
  <2>9. DeveloperIsDone' /\ SeenIsLatest'
    BY <1>1, <1>5, <2>3, <2>6, <2>8, GateEvidence
  <2>10. qaPc'[r] = "completed" => o = "committed"
    BY <2>2 DEF QAGoto, AfterCheckpoint
  <2>. QED  BY <2>5, <2>7, <2>9, <2>10 DEF EvidenceInv, Durable
<1>6. CASE ~intruded /\ ( QAPreflightFails(r) \/ QACallerCloses(r) \/ QAFails(r)
                           \/ QAEscalate(r) \/ QAInterrupt(r) )
  <2>1. /\ UNCHANGED <<work, seen, overtaken>> /\ status' \in {status, "WAITING_HUMAN"}
        /\ QAGoto(r, "holding") \/ QAGoto(r, "failed") \/ QAGoto(r, "escalate")
           \/ QAGoto(r, "interrupted")
    BY <1>6 DEF QAPreflightFails, QACallerCloses, QAFails, QAEscalate, QAInterrupt,
                EscalationCommits, EscalationFails, rowVars
  <2>2. GateRuns' \subseteq GateRuns /\ qaPc'[r] # "completed"
    BY <1>1, <2>1 DEF QAGoto, GateRuns
  <2>3. EvidenceIsCurrent'
    BY <1>6, <2>1 DEF EvidenceInv, EvidenceIsCurrent
  <2>4. DeveloperIsDone' /\ SeenIsLatest'
    BY <1>1, <1>6, <2>1, <2>2, GateEvidence
  <2>. QED  BY <2>2, <2>3, <2>4 DEF EvidenceInv
<1>. QED  BY <1>3, <1>4, <1>5, <1>6 DEF QANext, QAStep

\* Security passes the latest delivery, unless an overtaken run of it intrudes.
LEMMA SecEvidence ==
    ASSUME IInv, OwnerInv, EvidenceInv, NEW r \in SecRuns, SecNext(r)
    PROVE  EvidenceInv'
<1>. /\ r \in Runs /\ r \notin QARuns /\ work \in Work /\ seen \in [Runs -> Nat]
     /\ secPc \in [SecRuns -> SecPc]
  BY DEF IInv, TypeOK, SecTypeOK, RowTypeOK, Runs
<1>1. UNCHANGED <<assigned, devVars, qaPc>>
  BY DEF SecNext, SecStep, SecPreflight, SecClaim, SecComplete, SecFails, SecEscalate,
         SecInterrupt, rowVars, devVars, qaVars
<1>2. intruded => intruded'
  BY SecGateMove DEF GateMove
<1>3. CASE intruded
  BY <1>2, <1>3 DEF EvidenceInv
<1>4. CASE ~intruded /\ SecClaim(r)
  <2>1. /\ UNCHANGED <<status, work>> /\ seen' = [seen EXCEPT ![r] = work.delivered]
        /\ overtaken' = overtaken \ {r}
    BY <1>4 DEF SecClaim
  <2>2. PICK o \in Outcomes(r, MayClaimSecurity(r)) :
            SecGoto(r, IF o = "committed" THEN "run" ELSE "failed")
    BY <1>4 DEF SecClaim
  <2>3. o = "committed" => AtExpected(r, "WAITING_SECURITY")
    BY DurableWasExpected DEF Durable, MayClaimSecurity, AtExpected
  <2>4. GateRuns' \subseteq GateRuns \cup {r} /\ (r \in GateRuns' => o = "committed")
    BY <1>1, <2>2 DEF SecGoto, GateRuns
  <2>5. r \in GateRuns' =>
            \A q \in DevRuns \ overtaken :
                assigned = DeveloperOf[q] => devPc[q] \notin Delivering
    BY <1>4, <2>3, <2>4, AtGateDeveloperIsDone DEF AtExpected
  <2>6. EvidenceIsCurrent'
    BY <1>4, <2>1 DEF EvidenceInv, EvidenceIsCurrent
  <2>7. DeveloperIsDone' /\ SeenIsLatest'
    BY <1>1, <1>4, <2>1, <2>4, <2>5, GateEvidence
  <2>. QED  BY <2>6, <2>7 DEF EvidenceInv
<1>5. CASE ~intruded /\ \E decision \in DOMAIN SecTarget : SecComplete(r, decision)
  <2>1. PICK decision \in DOMAIN SecTarget : SecComplete(r, decision)
    BY <1>5
  <2>2. PICK o \in Outcomes(r, SecMayEnd(r)) :
            /\ IF o \in Durable
               THEN /\ status' = SecTarget[decision]
                    /\ work' = [work EXCEPT
                          !.secured = IF decision = "PASS" THEN seen[r] ELSE @]
               ELSE UNCHANGED <<status, work>>
            /\ SecGoto(r, AfterCheckpoint(o, "completed"))
    BY <2>1 DEF SecComplete
  <2>3. /\ r \in GateRuns /\ UNCHANGED <<seen, overtaken>>
        /\ intruded' = (intruded \/ (r \in overtaken /\ status' # status))
    BY <2>1 DEF SecComplete, GateRuns, MayIntrude
  <2>4. o \in Durable => status = "WAITING_SECURITY" /\ assigned = DeveloperOf[r]
    BY DurableWasExpected DEF SecMayEnd, AtExpected
  <2>5. o \in Durable => seen[r] = work.delivered \/ r \in overtaken
    BY <1>5, <2>3, <2>4 DEF EvidenceInv, SeenIsLatest
  <2>6. GateRuns' \subseteq GateRuns
    BY <1>1, <2>2, <2>3 DEF SecGoto, GateRuns, AfterCheckpoint
  <2>7. /\ SecTarget[decision] \in {"COMPLETED", "WAITING_HUMAN", "CHANGES_REQUESTED"}
        /\ SecTarget[decision] = "COMPLETED" => decision = "PASS"
    BY DEF SecTarget
  <2>8. ~intruded' => EvidenceIsCurrent'
    <3>1. CASE o \in Durable
      <4>1. r \in overtaken => intruded'
        BY <2>2, <2>3, <2>4, <2>7, <3>1
      <4>. QED  BY <1>5, <2>2, <2>4, <2>5, <2>7, <3>1, <4>1
                   DEF EvidenceInv, EvidenceIsCurrent, Work
    <3>2. CASE o \notin Durable
      BY <1>5, <2>2, <3>2 DEF EvidenceInv, EvidenceIsCurrent
    <3>. QED  BY <3>1, <3>2
  <2>9. work'.delivered = work.delivered
    BY <2>2 DEF Work
  <2>10. DeveloperIsDone' /\ SeenIsLatest'
    BY <1>1, <1>5, <2>3, <2>6, <2>9, GateEvidence
  <2>. QED  BY <2>8, <2>10 DEF EvidenceInv
<1>6. CASE ~intruded /\ (SecPreflight(r) \/ SecFails(r) \/ SecEscalate(r) \/ SecInterrupt(r))
  <2>1. /\ UNCHANGED <<work, seen, overtaken>> /\ status' \in {status, "WAITING_HUMAN"}
        /\ SecGoto(r, "start") \/ SecGoto(r, "failed") \/ SecGoto(r, "escalate")
           \/ SecGoto(r, "interrupted")
    BY <1>6 DEF SecPreflight, SecFails, SecEscalate, SecInterrupt,
                EscalationCommits, EscalationFails, rowVars
  <2>2. GateRuns' \subseteq GateRuns
    BY <1>1, <2>1 DEF SecGoto, GateRuns
  <2>3. EvidenceIsCurrent'
    BY <1>6, <2>1 DEF EvidenceInv, EvidenceIsCurrent
  <2>4. DeveloperIsDone' /\ SeenIsLatest'
    BY <1>1, <1>6, <2>1, <2>2, GateEvidence
  <2>. QED  BY <2>3, <2>4 DEF EvidenceInv
<1>. QED  BY <1>3, <1>4, <1>5, <1>6 DEF SecNext, SecStep

\* A move from outside gives the task to no one and leads to no gate.
LEMMA CoordinatorEvidence ==
    ASSUME IInv, EvidenceInv, Coordinator
    PROVE  EvidenceInv'
<1>1. PICK target \in TaskStatus, agent \in {assigned, NoAgent} :
          CoordinatorMove(target, agent)
  BY DEF Coordinator
<1>2. /\ status' = target /\ assigned' \in {assigned, NoAgent}
      /\ UNCHANGED <<overtaken, intruded, work, seen, devPc, qaPc, secPc>>
  BY <1>1 DEF CoordinatorMove, devVars, qaVars, secVars
<1>3. target \notin {"WAITING_QA", "WAITING_SECURITY", "COMPLETED"}
  BY <1>1 DEF CoordinatorMove, CanTransition, AllowedTransitions, WorkEdges, Terminal,
              GateEdges, TaskStatus, IInv, TypeOK, RowTypeOK
<1>4. \A r \in Runs : assigned' = DeveloperOf[r] => assigned = DeveloperOf[r]
  BY <1>2
<1>5. DeveloperIsDone => DeveloperIsDone'
  BY <1>2, <1>4 DEF DeveloperIsDone, GateRuns, Runs
<1>6. SeenIsLatest => SeenIsLatest'
  BY <1>2, <1>4 DEF SeenIsLatest, GateRuns, Runs
<1>7. EvidenceIsCurrent'
  BY <1>2, <1>3 DEF EvidenceIsCurrent
<1>. QED  BY <1>2, <1>5, <1>6, <1>7 DEF EvidenceInv

\* Every step, or a stutter
LEMMA StepEvidence ==
    ASSUME IInv, OwnerInv, EvidenceInv, [Next]_vars
    PROVE  /\ EvidenceInv'
           /\ \A r \in QARuns :
                 qaPc[r] = "run" /\ qaPc'[r] = "completed"
                    => seen[r] = work.delivered \/ r \in overtaken \/ intruded
<1>1. CASE UNCHANGED vars
  BY <1>1 DEF vars, rowVars, devVars, qaVars, secVars, EvidenceInv, DeveloperIsDone,
              SeenIsLatest, EvidenceIsCurrent, GateRuns
<1>2. ASSUME NEW r \in QARuns, QANext(r)
      PROVE  /\ EvidenceInv'
             /\ \A q \in QARuns :
                   qaPc[q] = "run" /\ qaPc'[q] = "completed"
                      => seen[q] = work.delivered \/ q \in overtaken \/ intruded
  <2>1. \A q \in QARuns : qaPc'[q] # qaPc[q] => q = r
    <3>1. \E label : QAGoto(r, label)
      BY <1>2 DEF QANext, QAStep, QAPreflightFails, QACallerCloses, QAClaim, QAComplete,
                  QAFails, QAEscalate, QAInterrupt
    <3>. QED  BY <3>1 DEF QAGoto, IInv, TypeOK, QATypeOK
  <2>. QED  BY <1>2, <2>1, QAEvidence
<1>3. CASE (\E r \in DevRuns : DevNext(r)) \/ (\E r \in SecRuns : SecNext(r)) \/ Coordinator
  <2>1. qaPc' = qaPc
    BY <1>3 DEF DevNext, SecNext, Coordinator, CoordinatorMove, qaVars
  <2>. QED  BY <1>3, <2>1, DevEvidence, SecEvidence, CoordinatorEvidence
<1>. QED  BY <1>1, <1>2, <1>3 DEF Next

\* The invariant that the last three theorems share
LEMMA EvidenceInvariant == Spec => [](IInv /\ OwnerInv /\ BeliefAtLabel /\ EvidenceInv)
<1>1. Init => OwnerInv /\ BeliefAtLabel /\ EvidenceInv
  <2>. SUFFICES ASSUME Init PROVE OwnerInv /\ BeliefAtLabel /\ EvidenceInv
    OBVIOUS
  <2>1. OwnerInv /\ BeliefAtLabel
    BY DEF Init, RowInit, DevInit, OwnerInv, OwnerIsAssigned, OwnerIsCurrent, OneCurrentRun,
           OwnerKnows, StrangerIsStuck, BeliefAtLabel, Started, Awaiting
  <2>2. DeveloperIsDone /\ SeenIsLatest
    BY DEF Init, DevInit, QAInit, SecInit, DeveloperIsDone, SeenIsLatest, GateRuns
  <2>3. EvidenceIsCurrent
    BY DEF Init, RowInit, EvidenceIsCurrent
  <2>. QED  BY <2>1, <2>2, <2>3 DEF EvidenceInv
<1>2. IInv /\ OwnerInv /\ BeliefAtLabel /\ EvidenceInv /\ [Next]_vars
          => OwnerInv' /\ BeliefAtLabel' /\ EvidenceInv'
  BY StepOwns, StepEvidence
<1>. QED  BY <1>1, <1>2, InductiveInvariant, PTL DEF Spec

\* Whoever the requests name and whatever faults occur, a task stands at a gate,
\* or is COMPLETED, only on evidence about its latest delivery, until a run that
\* another run of its own Developer overtook moves it.
THEOREM EvidenceStaysCurrent == Spec => []EvidenceIsCurrent
<1>1. EvidenceInv => EvidenceIsCurrent
  BY DEF EvidenceInv, EvidenceIsCurrent
<1>. QED  BY <1>1, EvidenceInvariant, PTL

\* A QA verdict is about the latest delivery, unless its Developer was assigned
\* the task again, by another run, since that QA run began.
THEOREM QAVerdictsAreFresh == Spec => OnlyOvertakenQAIsStale
<1>1. IInv /\ OwnerInv /\ BeliefAtLabel /\ EvidenceInv /\ [Next]_vars
          => [\A r \in QARuns : qaPc[r] = "run" /\ qaPc'[r] = "completed"
                  => seen[r] = work.delivered \/ r \in overtaken \/ intruded]_vars
  BY StepEvidence
<1>. QED  BY <1>1, EvidenceInvariant, PTL DEF Spec, OnlyOvertakenQAIsStale

-----------------------------------------------------------------------------
\* No assigned task is abandoned

\* A run that cannot commit a checkpoint escalates, unless it lost the task.
LEMMA DevAttends ==
    ASSUME IInv, OwnerInv, BeliefAtLabel, NeverAbandoned,
           NEW r \in DevRuns, DevNext(r)
    PROVE  NeverAbandoned'
<1>. /\ devPc \in [DevRuns -> DevPc] /\ believed \in [DevRuns -> TaskStatus]
     /\ NoRun \notin DevRuns /\ owner \in DevRuns \cup {NoRun} /\ lapsed \subseteq DevRuns
  BY DEF IInv, TypeOK, DevTypeOK, RowTypeOK, Runs
<1>1. CASE Assign(r)
  <2>1. PICK o \in Outcomes(r, status = "READY" /\ assigned = NoAgent) :
            /\ IF o \in Durable THEN status' = "ASSIGNED" /\ owner' = r
               ELSE UNCHANGED <<status, owner, intruded>>
            /\ Goto(r, IF o = "committed" THEN "start" ELSE "failed")
            /\ believed' = [believed EXCEPT ![r] = IF o = "committed" THEN "ASSIGNED" ELSE @]
            /\ LapsesIf(r, o = "lostAck")
    BY <1>1 DEF Assign
  <2>2. devPc[r] \notin Started
    BY <1>1 DEF Assign, Started, Awaiting
  <2>3. /\ \A q \in DevRuns \ {r} : devPc'[q] = devPc[q] /\ believed'[q] = believed[q]
        /\ o = "committed" => devPc'[r] = "start" /\ believed'[r] = "ASSIGNED"
        /\ lapsed \subseteq lapsed' /\ (o = "lostAck" => r \in lapsed')
    BY <2>1 DEF Goto, LapsesIf
  <2>4. CASE o \in Durable
    BY <2>1, <2>3, <2>4 DEF Durable, NeverAbandoned, Started
  <2>5. CASE o \notin Durable
    BY <2>1, <2>2, <2>3, <2>5 DEF NeverAbandoned
  <2>. QED  BY <2>4, <2>5
<1>2. CASE ~Assign(r)
  <2>. SUFFICES ASSUME status' \in Developing, owner # NoRun, owner \notin lapsed', ~intruded'
                PROVE  devPc'[owner] \in Started /\ believed'[owner] = status'
    BY <1>2, DevNotes DEF NeverAbandoned
  <2>1. /\ owner \in DevRuns /\ assigned = DeveloperOf[owner] /\ ~intruded
        /\ status' # status => r \notin overtaken
    BY <1>2, DevNotes DEF OwnerInv, OwnerIsAssigned
  <2>2. status \in Developing /\ owner \notin lapsed
            => devPc[owner] \in Started /\ believed[owner] = status
    BY <2>1 DEF NeverAbandoned
  <2>3. CASE DevPreflight(r) \/ CollaboratorFails(r) \/ DevInterrupt(r)
    <3>1. /\ UNCHANGED <<status, believed>> /\ lapsed \subseteq lapsed'
          /\ devPc[r] = "idle" \/ Goto(r, "escalate") \/ r \in lapsed'
          /\ \A q \in DevRuns \ {r} : devPc'[q] = devPc[q]
      BY <2>3 DEF DevPreflight, CollaboratorFails, DevInterrupt, Goto, LapsesIf, rowVars
    <3>. QED  BY <2>1, <2>2, <3>1 DEF Goto, Started, Awaiting
  <2>4. CASE \/ StartCycle(r) \/ DeveloperCompleted(r) \/ HandoffCreated(r)
             \/ ReviewApproved(r) \/ ReviewRequestedChanges(r) \/ CyclesExhausted(r)
    <3>1. devPc[r] \in Started
      BY <2>4 DEF StartCycle, DeveloperCompleted, HandoffCreated, ReviewApproved,
                  ReviewRequestedChanges, CyclesExhausted, Started, Awaiting
    <3>2. PICK target, next :
              /\ DevCheckpoint(r, believed[r], target, next)
              /\ target \in Developing => next \in Started
      <4>1. CASE StartCycle(r)
        BY <4>1 DEF StartCycle, BeliefAtLabel, Started, Awaiting
      <4>2. CASE DeveloperCompleted(r)
        BY <4>2 DEF DeveloperCompleted, BeliefAtLabel, Started, Awaiting
      <4>3. CASE HandoffCreated(r)
        BY <4>3 DEF HandoffCreated, BeliefAtLabel, Started, Awaiting
      <4>4. CASE ReviewApproved(r)
        BY <4>4 DEF ReviewApproved, BeliefAtLabel, Developing
      <4>5. CASE ReviewRequestedChanges(r)
        BY <4>5 DEF ReviewRequestedChanges, BeliefAtLabel, Developing
      <4>6. CASE CyclesExhausted(r)
        BY <4>6 DEF CyclesExhausted, BeliefAtLabel, Developing
      <4>. QED  BY <2>4, <4>1, <4>2, <4>3, <4>4, <4>5, <4>6
    <3>3. /\ \A q \in DevRuns \ {r} : devPc'[q] = devPc[q] /\ believed'[q] = believed[q]
          /\ owner \notin lapsed
      BY <3>2, CheckpointCases
    <3>4. CASE AtExpected(r, believed[r]) /\ status' = target /\ devPc'[r] = next
                  /\ believed'[r] = target
      <4>1. status' # status => owner = r
        BY <2>1, <3>1, <3>4, ExpectedMeansOwner
      <4>. QED  BY <2>2, <3>2, <3>3, <3>4, <4>1
    <3>5. CASE AtExpected(r, believed[r]) /\ status' = target /\ r \in lapsed'
      <4>1. status' # status => owner = r
        BY <2>1, <3>1, <3>5, ExpectedMeansOwner
      <4>. QED  BY <2>2, <3>3, <3>5, <4>1
    <3>6. CASE /\ status' = status /\ believed'[r] = believed[r]
               /\ \/ devPc'[r] = "escalate"
                  \/ devPc'[r] = "failed" /\ ~AtExpected(r, believed[r])
      BY <2>1, <2>2, <3>3, <3>6 DEF AtExpected, Started
    <3>. QED  BY <3>2, <3>4, <3>5, <3>6, CheckpointCases
  <2>5. CASE DevEscalate(r)
    <3>1. /\ believed' = believed /\ \A q \in DevRuns \ {r} : devPc'[q] = devPc[q]
          /\ LapsesIf(r, AtExpected(r, believed[r]) /\ status' = status)
          /\ status' \in {status, "WAITING_HUMAN"}
      BY <2>5 DEF DevEscalate, EscalationCommits, EscalationFails, Goto
    <3>2. status' = status
      BY <3>1 DEF Developing
    <3>3. owner \notin lapsed /\ (owner = r => ~AtExpected(r, believed[r]))
      BY <3>1, <3>2 DEF LapsesIf
    <3>. QED  BY <2>1, <2>2, <3>1, <3>2, <3>3 DEF AtExpected
  <2>. QED  BY <1>2, <2>3, <2>4, <2>5 DEF DevNext, DevStep
<1>. QED  BY <1>1, <1>2

\* Nobody else takes an assigned task from its run without parking it.
LEMMA OthersAttend ==
    ASSUME IInv, NeverAbandoned,
           \/ \E r \in QARuns : QANext(r)
           \/ \E r \in SecRuns : SecNext(r)
           \/ Coordinator \/ UNCHANGED vars
    PROVE  NeverAbandoned'
<1>1. CASE (\E r \in QARuns : QANext(r)) \/ (\E r \in SecRuns : SecNext(r))
  <2>1. GateMove
    BY <1>1, QAGateMove, SecGateMove
  <2>. QED  BY <2>1 DEF GateMove, NeverAbandoned, Developing
<1>2. CASE Coordinator
  BY <1>2 DEF Coordinator, CoordinatorMove, NeverAbandoned
<1>3. CASE UNCHANGED vars
  BY <1>3 DEF vars, rowVars, devVars, NeverAbandoned
<1>. QED  BY <1>1, <1>2, <1>3

\* A task under development is attended by a run that knows its status, unless
\* that run lapsed (it was interrupted, missed that a commit succeeded, or could
\* not commit its escalation) or an overtaken run moved the task under it.
THEOREM AssignedTasksAreAttended == Spec => []NeverAbandoned
<1>1. Init => NeverAbandoned
  BY DEF Init, RowInit, NeverAbandoned
<1>2. IInv /\ OwnerInv /\ BeliefAtLabel /\ NeverAbandoned /\ [Next]_vars => NeverAbandoned'
  BY DevAttends, OthersAttend DEF Next
<1>. QED  BY <1>1, <1>2, EvidenceInvariant, PTL DEF Spec
=============================================================================
