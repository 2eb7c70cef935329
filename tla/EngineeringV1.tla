---------------------------- MODULE EngineeringV1 ----------------------------
(***************************************************************************)
(* The complete engineering flow: EngineeringV1Orchestrator runs seventeen *)
(* stages in order, each at most once, under one deadline and with an      *)
(* audit record before and after each.  The operations of the stages are   *)
(* the caller's; here each stage is done by the component of its name, and *)
(* a stage without one returns or raises as it likes.  A component's state *)
(* is kept while its stages run.                                           *)
(***************************************************************************)
EXTENDS Planning, Staffing, ReviewerAgent, QAAgent, SecurityAgent, GitHubMerge,
        ProjectClosure

VARIABLES
    stage,      \* index of the active stage
    outcome,    \* "running", or how the run ended
    trail       \* the audit records of the run

engineeringVars == <<stage, outcome, trail>>
stageVars == <<returned, prs, work, events, lapses>>
vars == <<engineeringVars, stageVars, development, planningVars, staffingVars, pullRequestVars,
          mergeVars, closureVars>>

StageOrder ==
    <<"SPECIFICATION_ANALYSIS", "BLOCKING_QUESTIONS", "ARCHITECTURE", "TASK_PLANNING",
      "AGENT_ASSIGNMENT", "REPOSITORY_INSPECTION", "CODE_CHANGE", "TEST_EXECUTION",
      "INDEPENDENT_REVIEW", "QA", "SECURITY", "MERGE_GATE", "AUDIT", "SCORING",
      "MEMORY", "FEEDBACK", "CLOSURE">>

Stages == DOMAIN StageOrder
FinalStage == Len(StageOrder)

Outcomes == {"running", "completed", "blocked", "failed", "timeout", "auditFailure", "cancelled"}

\* An audit record, with the number of completed stages in it
Record(s, status, completed) == [stage |-> s, status |-> status, completed |-> completed]

NoWork == [k \in Kinds \union {"evidence"} |-> Nil]

Init ==
    /\ InitPlanning /\ InitStaffing /\ InitPullRequests /\ InitMerge /\ InitClosure
    /\ returned = "none" /\ work = NoWork /\ development = Nil
    /\ stage = 1
    /\ \/ outcome = "running" /\ trail = <<Record(1, "STARTED", 0)>>
       \/ outcome = "auditFailure" /\ trail = <<>>

Active(name) == outcome = "running" /\ returned = "none" /\ StageOrder[stage] = name

-----------------------------------------------------------------------------
\* What the stages do.  Each disjunct leaves the other components alone.

PlanningStage ==
    /\ \/ Active("SPECIFICATION_ANALYSIS")
             /\ (SubmitText \/ IngestDocument \/ AnalyzeSpecification)
       \/ Active("ARCHITECTURE") /\ AnalyzeArchitecture
       \/ Active("TASK_PLANNING") /\ DecomposeDomains
    /\ UNCHANGED <<development, prs, engineeringVars, staffingVars, pullRequestVars, mergeVars, closureVars>>

StaffingStage ==
    /\ Active("AGENT_ASSIGNMENT")
    /\ Schedule \/ (\E p \in Projects : ReleaseProject(p)) \/ StaffingDone
    /\ UNCHANGED <<development, prs, engineeringVars, planningVars, pullRequestVars, mergeVars, closureVars>>

DeveloperStage ==
    /\ Active("CODE_CHANGE") /\ Develop
    /\ UNCHANGED <<engineeringVars, planningVars, staffingVars, pullRequestVars, mergeVars,
                   closureVars>>

DeliveryStage ==
    /\ \/ Active("CODE_CHANGE") /\ Developed /\ ValidateDelivery
       \/ Active("TEST_EXECUTION") /\ OpenPullRequest
       \/ Active("MERGE_GATE") /\ At("none") /\ \E k \in RowKinds : RecordRow(k) \/ LeaveOut(k)
    /\ UNCHANGED <<engineeringVars, development, planningVars, staffingVars, mergeVars, closureVars>>

RoleStage ==
    /\ \/ Active("INDEPENDENT_REVIEW") /\ Review
       \/ Active("QA") /\ QA /\ UNCHANGED development
       \/ Active("SECURITY") /\ Security /\ UNCHANGED development
    /\ UNCHANGED <<engineeringVars, planningVars, staffingVars, pullRequestVars, mergeVars,
                   closureVars>>

MergeStage ==
    /\ Active("MERGE_GATE") /\ MergeStep
    /\ UNCHANGED <<engineeringVars, development, planningVars, staffingVars, closureVars>>

\* GitHub and other people do not wait for the run
RemoteStep ==
    /\ StageOrder[stage] = "MERGE_GATE"
    /\ GitHubAnswers \/ SomeonePushes
    /\ UNCHANGED <<engineeringVars, development, planningVars, staffingVars, closureVars>>

ClosureStage ==
    /\ StageOrder[stage] = "CLOSURE"
    /\ \/ Active("CLOSURE") /\ CloserStep(Own)
       \/ \E c \in Closers \ {Own} : CloserStep(c)
       \/ \E a \in Team : AgentMoves(a)
    /\ UNCHANGED <<engineeringVars, development, prs, work, events, lapses, planningVars, staffingVars,
                   pullRequestVars, mergeVars>>

\* A stage no component here is about
OtherStage ==
    /\ \E name \in {"BLOCKING_QUESTIONS", "REPOSITORY_INSPECTION", "AUDIT", "SCORING",
                    "MEMORY", "FEEDBACK"} : Active(name)
    /\ Answer \/ Raise
    /\ UNCHANGED <<engineeringVars, development, prs, work, events, lapses, planningVars, staffingVars,
                   pullRequestVars, mergeVars, closureVars>>

-----------------------------------------------------------------------------
\* EngineeringV1Orchestrator.run between two stage operations: no await, so the
\* records of one result are one step.

\* The sink appends what it is given, in a transaction of its own
Recording(records) == trail' = trail \o records

\* A record cannot be written; those before it are
AuditFails(records) ==
    /\ outcome' = "auditFailure"
    /\ Recording(records)
    /\ UNCHANGED stage

\* Mutant: the stage counts as completed however it ended.
EndsCounted(status, how) ==
    \/ /\ Recording(<<Record(stage, status, stage)>>)
       /\ outcome' = how
       /\ UNCHANGED stage
    \/ AuditFails(<<>>)

\* A record that is the last one, whatever comes of it
EndsWith(status, how) ==
    \/ /\ Recording(<<Record(stage, status, stage - 1)>>)
       /\ outcome' = how
       /\ UNCHANGED stage
    \/ AuditFails(<<>>)

\* The stage passed: its evidence counts, it is recorded, and the next starts
StagePassed ==
    /\ outcome = "running" /\ returned = "passed"
    /\ LET passed == Record(stage, "PASSED", stage)
       IN  \/ /\ stage < FinalStage
              /\ Recording(<<passed, Record(stage + 1, "STARTED", stage)>>)
              /\ stage' = stage + 1
              /\ UNCHANGED outcome
           \/ /\ stage = FinalStage
              /\ Recording(<<passed>>)
              /\ outcome' = "completed"
              /\ UNCHANGED stage
           \/ AuditFails(<<>>)                        \* PASSED is not recorded
           \/ stage < FinalStage /\ AuditFails(<<passed>>)  \* nor is the next start
    /\ returned' = "none"
    /\ LET leaves(s) == stage' # stage /\ StageOrder[stage] = s
       IN  /\ IF leaves("TASK_PLANNING")
              THEN specification' = "none" /\ intake' = Nil /\ architecture' = Nil /\ plan' = Nil
              ELSE UNCHANGED planningVars
           /\ IF leaves("AGENT_ASSIGNMENT")
              THEN active' = [a \in Agents |-> Nil] /\ history' = <<>>
              ELSE UNCHANGED staffingVars
           /\ work' = IF leaves("SECURITY") THEN NoWork ELSE [work EXCEPT !.evidence = Nil]
           /\ development' = IF leaves("INDEPENDENT_REVIEW") THEN Nil ELSE development
           /\ IF leaves("MERGE_GATE")
              THEN /\ validated' = {} /\ lapses' = 0 /\ events' = {}
                   /\ prs' = [h \in Heads |-> Nil]
                   /\ rows' = [h \in Heads |-> NoRows]
                   /\ remote' = [head |-> OldHead, merged |-> Nil]
                   /\ call' = NoCall /\ mergeAudit' = {}
              ELSE UNCHANGED <<pullRequestVars, prs, events, lapses, mergeVars>>
    /\ UNCHANGED closureVars

\* It did not pass: its evidence does not count
StageBlocked ==
    /\ outcome = "running" /\ returned = "blocked"
    /\ EndsWith("BLOCKED", "blocked")
    /\ UNCHANGED <<stageVars, development, planningVars, staffingVars, pullRequestVars, mergeVars,
                   closureVars>>

\* It raised, possibly TimeoutError, or its result is not one of this stage
StageRaised ==
    /\ outcome = "running" /\ returned # "none"
    /\ \E how \in {"failed", "timeout"} :
          /\ how = "timeout" => returned = "raised"
          /\ EndsWith("FAILED", how)
    /\ UNCHANGED <<stageVars, development, planningVars, staffingVars, pullRequestVars, mergeVars,
                   closureVars>>

\* The global deadline, or a cancellation, which leaves no record; both stop
\* the operation where it waits
Interrupted ==
    /\ outcome = "running" /\ returned = "none"
    /\ \/ EndsWith("FAILED", "timeout")
       \/ outcome' = "cancelled" /\ UNCHANGED <<stage, trail>>
    /\ IF StageOrder[stage] = "MERGE_GATE" THEN MergeInterrupted ELSE UNCHANGED mergeVars
    /\ IF StageOrder[stage] = "CLOSURE" THEN ClosureInterrupted ELSE UNCHANGED closureVars
    /\ UNCHANGED <<stageVars, development, planningVars, staffingVars, pullRequestVars>>

Next ==
    \/ PlanningStage \/ StaffingStage \/ DeveloperStage \/ DeliveryStage \/ RoleStage \/ MergeStage
    \/ RemoteStep \/ ClosureStage \/ OtherStage
    \/ StagePassed \/ StageBlocked \/ StageRaised \/ Interrupted

Spec == Init /\ [][Next]_vars

-----------------------------------------------------------------------------
DevelopmentTypeOK ==
    development = Nil \/
        /\ development.required \in RequiredChecks
        /\ ToSet(development.checks) \subseteq Checks
        /\ Len(development.checks) <= development.records /\ development.records <= MaxRecords
        /\ development.report \in {"none", "SUCCEEDED", "FAILED", "BLOCKED", "NEEDS_HUMAN"}

PlanningTypeOK ==
    /\ specification \in {"none", "text"}
    /\ intake = Nil \/ intake \in Intakes
    /\ architecture = Nil \/ architecture \in
          [domains : SUBSET Domains, status : {"PROPOSED", "NEEDS_HUMAN"}]
    /\ plan = Nil \/ DOMAIN plan \subseteq Workstreams

StaffingTypeOK ==
    /\ DOMAIN active = Agents
    /\ Len(history) <= MaxHistory
    /\ \A i \in DOMAIN history : history[i].id = i - 1 /\ history[i].agent \in Agents

DeliveryTypeOK ==
    /\ \A e \in events : e.kind \in Kinds /\ e.head \in Heads \union {Nil}
    /\ validated \subseteq Heads /\ lapses \in 0..MaxLapses
    /\ DOMAIN prs = Heads /\ DOMAIN rows = Heads
    /\ remote \in RemotePullRequests
    /\ call.step \in {"none", "started", "gated", "sent", "answered", "abandoned", "ended"}
    /\ mergeAudit \subseteq {"STARTED", "SUCCEEDED", "BLOCKED", "FAILED"}
    /\ \A h \in Heads : prs[h] = Nil \/ prs[h] \in TestEvidence

ClosureTypeOK ==
    /\ project \in {"CLIENT_REVIEW", "ARCHIVED"}
    /\ staff \in [Team -> {"WORKING", "AVAILABLE"}]
    /\ busy \subseteq Team /\ held \subseteq Closers
    /\ lock \in Closers \union {Nil}
    /\ closer \in [Closers -> [step : {"idle", "collected", "locked", "closed", "ended"},
                               busy : SUBSET Team]]

TypeOK ==
    /\ stage \in Stages
    /\ outcome \in Outcomes
    /\ returned \in {"none", "passed", "blocked", "raised"}
    /\ DevelopmentTypeOK /\ PlanningTypeOK /\ StaffingTypeOK /\ DeliveryTypeOK /\ ClosureTypeOK

\* Three gates that nobody evaluates together: a Security PASS stands on a
\* clean, trusted and whole scan and on a QA verdict PASSED, that one on tests
\* of its own that all passed whole and on an APPROVED review, and that one on
\* an independent reviewer and a Developer whose required checks
\* all passed, none of them failing or being cut in another try.  A provider's
\* proposal alone never passes a stage, and none is blocked on suspicion alone.
\* (Scanner output the adapter drops as malformed is no evidence to the gate.)
VerdictsRestOnEvidence ==
    /\ work.SECURITY # Nil => work.QA = "PASSED"
    /\ work.QA = "PASSED" => work.REVIEWER = "APPROVED"
    /\ work.evidence # Nil =>
        LET given == work.evidence
        IN  IF work.SECURITY # Nil
            THEN /\ work.SECURITY = "PASS" =>
                       /\ given.secrets = 0 /\ given.trusted /\ ~given.cut
                       /\ ToSet(given.output) \subseteq {"malformed"}
                       /\ Len(given.output) <= MaxFindings
                 /\ work.SECURITY = "BLOCK" =>
                       given.secrets > 0 \/ "severe" \in ToSet(given.output)
            ELSE IF work.QA # Nil
            THEN work.QA = "PASSED" =>
                    /\ \A t \in DOMAIN given.runs : given.runs[t] = "passed"
                    /\ given.cites # {} /\ given.cites \subseteq DOMAIN given.runs
            ELSE work.REVIEWER = "APPROVED" =>
                    /\ given.independent /\ development.report = "SUCCEEDED"
                    /\ \A p \in ToSet(development.required) :
                          {c.result : c \in {x \in ToSet(development.checks) : x.profile = p}}
                             = {"passed"}

Recorded(name, status) ==
    \E i \in DOMAIN trail : StageOrder[trail[i].stage] = name /\ trail[i].status = status

\* The append-only trail tells how the run went, wherever it was interrupted
\* and whichever record failed: stages start in order, each after the one
\* before it PASSED, every count is the number of stages that passed so far,
\* BLOCKED and FAILED end it, a COMPLETED run has seventeen PASSED stages, and
\* what cannot be undone happened after the stages that have to allow it.
AuditTellsTheRun ==
    /\ \A i \in DOMAIN trail :
          /\ trail[i].completed =
                Cardinality({j \in 1..i : trail[j].status = "PASSED"})
          /\ trail[i].status = "STARTED" =>
                trail[i].stage = trail[i].completed + 1 /\ (i > 1 => trail[i - 1].status = "PASSED")
          /\ trail[i].status # "STARTED" =>
                /\ i > 1 /\ trail[i - 1].status = "STARTED"
                /\ trail[i].stage = trail[i - 1].stage
    /\ outcome = "completed" <=>
          Cardinality({i \in DOMAIN trail : trail[i].status = "PASSED"}) = FinalStage
    /\ outcome = "blocked" => trail[Len(trail)].status = "BLOCKED"
    /\ outcome \in {"failed", "timeout"} => trail[Len(trail)].status = "FAILED"
    /\ mergeAudit # {} => Recorded("SECURITY", "PASSED")
    /\ closer[Own].step = "closed" => Recorded("MERGE_GATE", "PASSED")
=============================================================================
