------------------------ MODULE EngineeringV1_proofs ------------------------
(***************************************************************************)
(* Proofs about the engineering flow for every number of agents, closers,  *)
(* test profiles and bounds: what is merged was approved, the audit trail  *)
(* tells the run, and a project is closed once.                            *)
(***************************************************************************)
EXTENDS EngineeringV1, FiniteSetTheorems, TLAPS

MergeGate == 12
ClosureStageNo == 17

\* The merge call, as merge_pull_request and its interruptions leave it
MergeCalls ==
    [step : {"none", "started", "gated", "sent", "answered", "abandoned", "ended"},
     pr : Heads \union {Nil}, git : Heads \union {Nil}, expected : Heads \union {Nil},
     answer : {"merged", "refused", Nil}]

MergeTypeOK ==
    /\ validated \subseteq Heads
    /\ remote \in RemotePullRequests
    /\ call \in MergeCalls

\* Before the merge is called, and outside its stage, nothing was merged
MergeAwaited ==
    stage # MergeGate \/ At("none") =>
        call = NoCall /\ mergeAudit = {} /\ remote.merged = Nil

\* A call under way was announced, and past the gate what the gate saw holds
MergeCalled ==
    /\ call.step \notin {"none", "ended"} =>
          "STARTED" \in mergeAudit /\ call.pr \in Heads /\ call.expected \in Heads
    /\ call.step \in {"gated", "sent", "answered", "abandoned"} =>
          GatePasses(call.pr, call.git)

\* What was merged went through the gate, and is recorded only if it was merged
Merged ==
    /\ remote.merged # Nil =>
          /\ call.step \in {"answered", "ended"}
          /\ GatePasses(call.pr, call.git)
          /\ "STARTED" \in mergeAudit
    /\ At("answered") /\ call.answer = "merged" => remote.merged # Nil
    /\ "SUCCEEDED" \in mergeAudit => remote.merged # Nil

MergeInv == MergeTypeOK /\ MergeAwaited /\ MergeCalled /\ Merged

CloserStates ==
    [step : {"idle", "collected", "locked", "closed", "ended"}, busy : SUBSET Team]

\* Who is about to close has the lock and saw a project that nobody closed
\* since, unless its session shows it an older one; the run's own closure is
\* its last stage
ClosureInv ==
    /\ busy \subseteq Team
    /\ closer \in [Closers -> CloserStates]
    /\ \A c \in Closers : closer[c].step = "locked" =>
          lock = c /\ (project = "CLIENT_REVIEW" \/ c \in held)
    /\ stage # ClosureStageNo => closer[Own].step = "idle"

Entries ==
    [stage : Stages, status : {"STARTED", "PASSED", "BLOCKED", "FAILED"},
     completed : 0..FinalStage]

\* The records of passed stages among the first of a trail
PassedOf(t, n) == {j \in 1..n : t[j].status = "PASSED"}

\* The first conjunct of AuditTellsTheRun, of any trail
TrailShape(t) ==
    \A i \in DOMAIN t :
        /\ t[i].completed = Cardinality(PassedOf(t, i))
        /\ t[i].status = "STARTED" =>
              t[i].stage = t[i].completed + 1 /\ (i > 1 => t[i - 1].status = "PASSED")
        /\ t[i].status # "STARTED" =>
              /\ i > 1 /\ t[i - 1].status = "STARTED"
              /\ t[i].stage = t[i - 1].stage

\* What the last record says of the stage and of how the run ended
LastRecord(t, s, how) ==
    /\ how \in {"running", "cancelled"} => t[Len(t)] = Record(s, "STARTED", s - 1)
    /\ how = "blocked"                  => t[Len(t)] = Record(s, "BLOCKED", s - 1)
    /\ how \in {"failed", "timeout"}    => t[Len(t)] = Record(s, "FAILED", s - 1)
    /\ how = "completed" => s = FinalStage /\ t[Len(t)] = Record(s, "PASSED", s)
    /\ how = "auditFailure" =>
          \/ t[Len(t)] = Record(s, "STARTED", s - 1)
          \/ s < FinalStage /\ t[Len(t)] = Record(s, "PASSED", s)

\* Each of the first s stages has its record of having passed
PassedUpTo(t, s) ==
    \A x \in 1..s : \E i \in DOMAIN t : t[i].stage = x /\ t[i].status = "PASSED"

TrailInv ==
    /\ stage \in Stages /\ outcome \in Outcomes
    /\ trail \in Seq(Entries)
    /\ TrailShape(trail)
    /\ trail = <<>> => outcome = "auditFailure" /\ stage = 1
    /\ trail # <<>> => LastRecord(trail, stage, outcome)
    /\ PassedUpTo(trail, stage - 1)

IInv == TrailInv /\ MergeInv /\ ClosureInv

-----------------------------------------------------------------------------
\* The stages of the order that the invariants name.
LEMMA OrderFacts ==
    /\ Stages = 1..17 /\ FinalStage = 17
    /\ \A s \in Stages : StageOrder[s] = "MERGE_GATE" <=> s = MergeGate
    /\ \A s \in Stages : StageOrder[s] = "CLOSURE" <=> s = ClosureStageNo
    /\ StageOrder[11] = "SECURITY"
<1>1. Len(StageOrder) = 17 BY DEF StageOrder
<1>2. Stages = 1..17 BY <1>1 DEF Stages, StageOrder
<1> QED BY <1>1, <1>2 DEF FinalStage, StageOrder, MergeGate, ClosureStageNo

\* The two heads are values, and Nil is neither
LEMMA HeadsAreValues == Nil \notin Heads
BY StageAssumption DEF Heads

-----------------------------------------------------------------------------
\* A step that leaves the merge call alone, and the delivery too once the merge
\* was called, keeps the merge invariant.
LEMMA MergeFrame ==
    ASSUME MergeInv, stage' = stage, UNCHANGED mergeVars, validated' \subseteq Heads,
           stage # MergeGate \/ At("none") \/ UNCHANGED <<validated, rows, prs, events>>
    PROVE  MergeInv'
<1>1. MergeTypeOK' BY DEF MergeInv, MergeTypeOK, mergeVars, Heads, MergeCalls, RemotePullRequests
<1>2. MergeAwaited' BY DEF MergeInv, MergeAwaited, mergeVars, At
<1>3. CASE stage # MergeGate \/ At("none")
    <2>1. call = NoCall /\ mergeAudit = {} /\ remote.merged = Nil
        BY <1>3 DEF MergeInv, MergeAwaited
    <2>2. call' = NoCall /\ mergeAudit' = {} /\ remote'.merged = Nil
        BY <2>1 DEF mergeVars
    <2>3. NoCall.step = "none" BY DEF NoCall
    <2> QED BY <1>1, <1>2, <2>2, <2>3 DEF MergeInv, MergeCalled, Merged, At
<1>4. CASE UNCHANGED <<validated, rows, prs, events>>
    <2>1. UNCHANGED <<validated, rows, prs, events>> BY <1>4
    <2>3. UNCHANGED <<remote, call, mergeAudit>> BY DEF mergeVars
    <2>4. GatePasses(call.pr, call.git)' <=> GatePasses(call.pr, call.git)
        BY <2>1, <2>3 DEF GatePasses, GitEventHolds, ReviewHolds, ApprovalHolds, TestsMatchQA,
                          PassingEvents
    <2>5. MergeCalled' BY <2>3, <2>4 DEF MergeInv, MergeCalled
    <2>6. Merged' BY <2>3, <2>4 DEF MergeInv, Merged, At
    <2> QED BY <1>1, <1>2, <2>5, <2>6 DEF MergeInv
<1> QED BY <1>3, <1>4

\* The gate of a call after a step that leaves the delivery and the call alone.
LEMMA GateHolds ==
    ASSUME UNCHANGED <<validated, rows, prs, events>>, call'.pr = call.pr, call'.git = call.git
    PROVE  GatePasses(call.pr, call.git)' <=> GatePasses(call.pr, call.git)
BY DEF GatePasses, GitEventHolds, ReviewHolds, ApprovalHolds, TestsMatchQA, PassingEvents

\* The steps of a merge call, and of those who do not wait for it.
LEMMA CallMergeStep ==
    ASSUME MergeInv, CallMerge, stage = MergeGate, stage' = stage
    PROVE  MergeInv'
<1>1. /\ At("none") /\ UNCHANGED <<remote, validated, rows, prs, events>>
    BY DEF CallMerge, pullRequestVars
<1>2. call = NoCall /\ mergeAudit = {} /\ remote.merged = Nil
    BY <1>1 DEF MergeInv, MergeAwaited
<1>3. CASE \E pr, git, expected \in Heads :
              /\ call' = [step |-> "started", pr |-> pr, git |-> git,
                          expected |-> expected, answer |-> Nil]
              /\ mergeAudit' = {"STARTED"}
    <2>1. PICK pr, git, expected \in Heads :
              /\ call' = [step |-> "started", pr |-> pr, git |-> git,
                          expected |-> expected, answer |-> Nil]
              /\ mergeAudit' = {"STARTED"}
        BY <1>3
    <2>2. call' \in MergeCalls BY <2>1 DEF MergeCalls
    <2>3. MergeTypeOK' BY <1>1, <2>2 DEF MergeInv, MergeTypeOK, Heads, MergeCalls, RemotePullRequests
    <2>4. /\ call'.step = "started" /\ call'.pr \in Heads /\ call'.expected \in Heads
          /\ "STARTED" \in mergeAudit' /\ "SUCCEEDED" \notin mergeAudit'
          /\ remote'.merged = Nil
        BY <1>1, <1>2, <2>1
    <2>5. MergeAwaited' BY <2>4 DEF MergeAwaited, At
    <2>6. MergeCalled' /\ Merged' BY <2>4 DEF MergeCalled, Merged, At, Heads
    <2> QED BY <2>3, <2>5, <2>6 DEF MergeInv
<1>4. CASE call' = [NoCall EXCEPT !.step = "ended"] /\ UNCHANGED mergeAudit
    <2>1. call' \in MergeCalls /\ call'.step = "ended" BY <1>4 DEF MergeCalls, NoCall
    <2>2. MergeTypeOK' BY <1>1, <2>1 DEF MergeInv, MergeTypeOK, Heads, MergeCalls, RemotePullRequests
    <2>3. MergeAwaited' BY <2>1 DEF MergeAwaited, At
    <2>4. MergeCalled' /\ Merged' BY <1>1, <1>2, <1>4, <2>1 DEF MergeCalled, Merged, At
    <2> QED BY <2>2, <2>3, <2>4 DEF MergeInv
<1> QED
    <2>1. validated \subseteq Heads BY DEF MergeInv, MergeTypeOK
    <2> QED BY <1>3, <1>4, <2>1 DEF CallMerge

\* A step of the call itself: it goes on or ends, and records what it may.
LEMMA CallGoesOn ==
    ASSUME MergeInv, stage = MergeGate, stage' = stage, ~At("none"),
           UNCHANGED <<remote, validated, rows, prs, events>>,
           NEW step \in {"gated", "sent", "abandoned", "ended"},
           call' = [call EXCEPT !.step = step],
           NEW how \in {"BLOCKED", "FAILED", "SUCCEEDED"},
           mergeAudit' \in {mergeAudit, mergeAudit \union {how}},
           step # "ended" => call.step # "ended" /\ GatePasses(call.pr, call.git),
           remote.merged # Nil => step = "ended",
           how = "SUCCEEDED" => remote.merged # Nil
    PROVE  MergeInv'
<1>1. /\ call \in MergeCalls /\ call.step # "none"
    BY DEF MergeInv, MergeTypeOK, At
<1>2. /\ call' \in MergeCalls /\ call'.step = step
      /\ call'.pr = call.pr /\ call'.git = call.git /\ call'.expected = call.expected
    BY <1>1 DEF MergeCalls
<1>3. MergeTypeOK' BY <1>2 DEF MergeInv, MergeTypeOK, Heads, MergeCalls, RemotePullRequests
<1>4. MergeAwaited' BY <1>2 DEF MergeAwaited, At
<1>5. GatePasses(call.pr, call.git)' <=> GatePasses(call.pr, call.git) BY <1>2, GateHolds
<1>6. "STARTED" \in mergeAudit => "STARTED" \in mergeAudit' OBVIOUS
<1>7. "SUCCEEDED" \in mergeAudit' => "SUCCEEDED" \in mergeAudit \/ how = "SUCCEEDED" OBVIOUS
<1>8. MergeCalled' BY <1>1, <1>2, <1>5, <1>6 DEF MergeInv, MergeCalled, Heads
<1>9. Merged' BY <1>1, <1>2, <1>5, <1>6, <1>7 DEF MergeInv, Merged, At
<1> QED BY <1>3, <1>4, <1>8, <1>9 DEF MergeInv

\* A step of merge_pull_request keeps the merge invariant, whatever it does.
LEMMA MergeCallStep ==
    ASSUME MergeInv, stage = MergeGate, stage' = stage, MergeStep
    PROVE  MergeInv'
<1>1. CASE CallMerge BY <1>1, CallMergeStep
<1>2. CASE ReadBack
    <2>1. /\ At("started") /\ UNCHANGED <<remote, validated, rows, prs, events>>
          /\ remote.merged = Nil
        BY <1>2 DEF ReadBack, pullRequestVars, MergeInv, Merged, At
    <2>2. CASE Becomes("gated") /\ GatePasses(call.pr, call.git) /\ UNCHANGED mergeAudit
        BY <2>1, <2>2, CallGoesOn DEF Becomes, At
    <2>3. CASE Blocked BY <2>1, <2>3, CallGoesOn DEF Blocked, Becomes, Audits, At
    <2> QED BY <1>2, <2>2, <2>3 DEF ReadBack
<1>3. CASE ListChecks
    <2>1. /\ At("gated") /\ UNCHANGED <<remote, validated, rows, prs, events>>
          /\ remote.merged = Nil /\ GatePasses(call.pr, call.git)
        BY <1>3 DEF ListChecks, pullRequestVars, MergeInv, Merged, MergeCalled, At
    <2>2. CASE Becomes("sent") /\ UNCHANGED mergeAudit
        BY <2>1, <2>2, CallGoesOn DEF Becomes, At
    <2>3. CASE Blocked BY <2>1, <2>3, CallGoesOn DEF Blocked, Becomes, Audits, At
    <2> QED BY <1>3, <2>2, <2>3 DEF ListChecks
<1>4. CASE AnswerTooLate
    <2>1. /\ At("sent") /\ UNCHANGED <<remote, validated, rows, prs, events>>
          /\ remote.merged = Nil /\ GatePasses(call.pr, call.git)
        BY <1>4 DEF AnswerTooLate, pullRequestVars, MergeInv, Merged, MergeCalled, At
    <2> QED BY <1>4, <2>1, CallGoesOn DEF AnswerTooLate, Becomes, Audits, At
<1>5. CASE MergeSucceeds
    <2>1. /\ At("answered") /\ UNCHANGED <<remote, validated, rows, prs, events>>
          /\ remote.merged # Nil
        BY <1>5 DEF MergeSucceeds, pullRequestVars, MergeInv, Merged, At
    <2>2. CASE Becomes("ended") /\ mergeAudit' = mergeAudit \union {"SUCCEEDED"}
        BY <2>1, <2>2, CallGoesOn DEF Becomes, At
    <2>3. CASE Blocked BY <2>1, <2>3, CallGoesOn DEF Blocked, Becomes, Audits, At
    <2> QED BY <1>5, <2>2, <2>3 DEF MergeSucceeds
<1>6. CASE MergeFails
    <2>1. At("answered") /\ UNCHANGED <<remote, validated, rows, prs, events>>
        BY <1>6 DEF MergeFails, pullRequestVars
    <2>2. CASE Blocked BY <2>1, <2>2, CallGoesOn DEF Blocked, Becomes, Audits, At
    <2>3. CASE Becomes("ended") /\ Audits("FAILED")
        BY <2>1, <2>3, CallGoesOn DEF Becomes, Audits, At
    <2> QED BY <1>6, <2>2, <2>3 DEF MergeFails
<1> QED BY <1>1, <1>2, <1>3, <1>4, <1>5, <1>6 DEF MergeStep

\* GitHub answers a request that was sent, in time or too late.
LEMMA GitHubStep ==
    ASSUME MergeInv, stage = MergeGate, stage' = stage, GitHubAnswers
    PROVE  MergeInv'
<1>1. /\ call \in MergeCalls /\ call.step \in {"sent", "abandoned"}
      /\ UNCHANGED <<mergeAudit, validated, rows, prs, events>>
      /\ remote \in RemotePullRequests
    BY DEF GitHubAnswers, pullRequestVars, MergeInv, MergeTypeOK
<1>2. /\ remote.merged = Nil /\ "STARTED" \in mergeAudit /\ GatePasses(call.pr, call.git)
      /\ call.pr \in Heads /\ call.expected \in Heads /\ "SUCCEEDED" \notin mergeAudit
    BY <1>1 DEF MergeInv, Merged, MergeCalled
<1>3. PICK step \in {"answered", "ended"}, answer \in {"merged", "refused"} :
          /\ call' = [call EXCEPT !.answer = answer, !.step = step]
          /\ IF answer = "merged" THEN remote' = [remote EXCEPT !.merged = call.expected]
                                  ELSE UNCHANGED remote
    BY <1>1 DEF GitHubAnswers
<1>4. /\ call' \in MergeCalls /\ call'.step = step /\ call'.answer = answer
      /\ call'.pr = call.pr /\ call'.git = call.git /\ call'.expected = call.expected
    BY <1>1, <1>3 DEF MergeCalls
<1>5. remote' \in RemotePullRequests /\ (answer = "merged" => remote'.merged # Nil)
    BY <1>1, <1>2, <1>3, HeadsAreValues DEF RemotePullRequests
<1>6. GatePasses(call.pr, call.git)' BY <1>1, <1>2, <1>4, GateHolds
<1>7. MergeTypeOK' BY <1>1, <1>4, <1>5 DEF MergeInv, MergeTypeOK, Heads, MergeCalls, RemotePullRequests
<1>8. MergeAwaited' BY <1>4 DEF MergeAwaited, At
<1>9. MergeCalled' BY <1>1, <1>2, <1>4, <1>6 DEF MergeCalled, Heads
<1>10. Merged' BY <1>1, <1>2, <1>4, <1>5, <1>6 DEF Merged, At
<1> QED BY <1>7, <1>8, <1>9, <1>10 DEF MergeInv

\* Someone else pushes to the branch.
LEMMA PushStep ==
    ASSUME MergeInv, stage' = stage, SomeonePushes
    PROVE  MergeInv'
<1>1. /\ UNCHANGED <<call, mergeAudit, validated, rows, prs, events>>
      /\ remote.merged = Nil /\ remote \in RemotePullRequests
    BY DEF SomeonePushes, pullRequestVars, MergeInv, MergeTypeOK
<1>2. PICK h \in Heads : remote' = [remote EXCEPT !.head = h] BY DEF SomeonePushes
<1>3. remote' \in RemotePullRequests /\ remote'.merged = Nil
    BY <1>1, <1>2 DEF RemotePullRequests
<1>4. GatePasses(call.pr, call.git)' <=> GatePasses(call.pr, call.git) BY <1>1, GateHolds
<1>5. MergeTypeOK' BY <1>1, <1>3 DEF MergeInv, MergeTypeOK, Heads, MergeCalls, RemotePullRequests
<1>6. MergeAwaited' BY <1>1, <1>3 DEF MergeInv, MergeAwaited, At
<1>7. MergeCalled' BY <1>1, <1>4 DEF MergeInv, MergeCalled, Heads
<1>8. Merged' BY <1>1, <1>3, <1>4 DEF MergeInv, Merged, At
<1> QED BY <1>5, <1>6, <1>7, <1>8 DEF MergeInv

\* The run is interrupted while the merge is under way, or before it.
LEMMA MergeInterruptedStep ==
    ASSUME MergeInv, stage = MergeGate, stage' = stage, MergeInterrupted,
           UNCHANGED <<validated, rows, prs, events>>
    PROVE  MergeInv'
<1>1. UNCHANGED <<remote, mergeAudit>> BY DEF MergeInterrupted
<1>2. CASE At("none")
    <2>1. call = NoCall /\ mergeAudit = {} /\ remote.merged = Nil
        BY <1>2 DEF MergeInv, MergeAwaited
    <2>2. call' = [NoCall EXCEPT !.step = "ended"]
        BY <1>2, <2>1 DEF MergeInterrupted, Becomes, At
    <2>3. call' \in MergeCalls /\ call'.step = "ended" BY <2>2 DEF MergeCalls, NoCall
    <2>4. MergeTypeOK' BY <1>1, <2>3 DEF MergeInv, MergeTypeOK, Heads, MergeCalls, RemotePullRequests
    <2>5. MergeAwaited' BY <2>3 DEF MergeAwaited, At
    <2>6. MergeCalled' /\ Merged' BY <1>1, <2>1, <2>3 DEF MergeCalled, Merged, At
    <2> QED BY <2>4, <2>5, <2>6 DEF MergeInv
<1>3. CASE At("sent")
    <2>1. remote.merged = Nil /\ GatePasses(call.pr, call.git)
        BY <1>3 DEF MergeInv, Merged, MergeCalled, At
    <2> QED BY <1>1, <1>3, <2>1, CallGoesOn DEF MergeInterrupted, Becomes, At
<1>4. CASE ~At("none") /\ ~At("sent")
    BY <1>1, <1>4, CallGoesOn DEF MergeInterrupted, Becomes
<1> QED BY <1>2, <1>3, <1>4

\* Nothing is called, announced or merged: the merge invariant holds.
LEMMA NothingCalled ==
    ASSUME validated' \subseteq Heads, remote' \in RemotePullRequests, remote'.merged = Nil,
           call' = NoCall, mergeAudit' = {}
    PROVE  MergeInv'
<1>1. NoCall \in MergeCalls /\ NoCall.step = "none" BY DEF NoCall, MergeCalls
<1>2. MergeTypeOK' BY <1>1 DEF MergeTypeOK, Heads, MergeCalls, RemotePullRequests
<1>3. MergeAwaited' BY DEF MergeAwaited
<1>4. MergeCalled' /\ Merged' BY <1>1 DEF MergeCalled, Merged, At
<1> QED BY <1>2, <1>3, <1>4 DEF MergeInv

\* So does the end of a stage that passed: after the merge gate its state is new.
LEMMA MergeStagePassed ==
    ASSUME stage \in Stages, MergeInv, StagePassed
    PROVE  MergeInv'
<1>1. validated \subseteq Heads /\ remote \in RemotePullRequests
    BY DEF MergeInv, MergeTypeOK
<1>2. CASE stage = MergeGate /\ stage' # stage
    <2>1. StageOrder[stage] = "MERGE_GATE" BY <1>2, OrderFacts
    <2>2. /\ validated' = {} /\ remote' = [head |-> OldHead, merged |-> Nil]
          /\ call' = NoCall /\ mergeAudit' = {}
        BY <1>2, <2>1 DEF StagePassed
    <2>3. [head |-> OldHead, merged |-> Nil] \in RemotePullRequests
        BY DEF RemotePullRequests, Heads
    <2> QED BY <2>2, <2>3, NothingCalled
<1>3. CASE stage = MergeGate /\ stage' = stage
    <2>1. UNCHANGED <<pullRequestVars, prs, events, lapses, mergeVars>>
        BY <1>3 DEF StagePassed
    <2> QED BY <1>1, <1>3, <2>1, MergeFrame DEF pullRequestVars
<1>4. CASE stage # MergeGate
    <2>1. StageOrder[stage] # "MERGE_GATE" BY <1>4, OrderFacts
    <2>2. UNCHANGED <<pullRequestVars, prs, events, lapses, mergeVars>>
        BY <2>1 DEF StagePassed
    <2>3. call = NoCall /\ mergeAudit = {} /\ remote.merged = Nil
        BY <1>4 DEF MergeInv, MergeAwaited
    <2> QED BY <1>1, <2>2, <2>3, NothingCalled DEF pullRequestVars, mergeVars
<1> QED BY <1>2, <1>3, <1>4

\* No step of the flow breaks the merge invariant.
LEMMA MergeNext ==
    ASSUME stage \in Stages, MergeInv, [Next]_vars
    PROVE  MergeInv'
<1>1. validated \subseteq Heads BY DEF MergeInv, MergeTypeOK
<1>2. StageOrder[MergeGate] = "MERGE_GATE" BY OrderFacts DEF MergeGate
<1>3. CASE PlanningStage
    <2>1. stage # MergeGate BY <1>2, <1>3 DEF PlanningStage, Active
    <2> QED BY <1>1, <1>3, <2>1, MergeFrame DEF PlanningStage, engineeringVars, pullRequestVars
<1>4. CASE StaffingStage
    <2>1. stage # MergeGate BY <1>2, <1>4 DEF StaffingStage, Active
    <2> QED BY <1>1, <1>4, <2>1, MergeFrame DEF StaffingStage, engineeringVars, pullRequestVars
<1>5. CASE DeveloperStage
    <2>1. stage # MergeGate BY <1>2, <1>5 DEF DeveloperStage, Active
    <2> QED BY <1>1, <1>5, <2>1, MergeFrame DEF DeveloperStage, engineeringVars, pullRequestVars
<1>6. CASE DeliveryStage
    <2>1. stage' = stage /\ UNCHANGED mergeVars BY <1>6 DEF DeliveryStage, engineeringVars
    <2>2. CASE Active("CODE_CHANGE") /\ ValidateDelivery
        <3>1. stage # MergeGate BY <1>2, <2>2 DEF Active
        <3>2. validated' \subseteq Heads BY <1>1, <2>2 DEF ValidateDelivery, Heads
        <3> QED BY <2>1, <3>1, <3>2, MergeFrame
    <2>3. CASE Active("TEST_EXECUTION") /\ OpenPullRequest
        <3>1. stage # MergeGate BY <1>2, <2>3 DEF Active
        <3> QED BY <1>1, <2>1, <2>3, <3>1, MergeFrame DEF OpenPullRequest
    <2>4. CASE At("none") /\ \E k \in RowKinds : RecordRow(k) \/ LeaveOut(k)
        <3>1. UNCHANGED validated BY <2>4 DEF RecordRow, LeaveOut
        <3> QED BY <1>1, <2>1, <2>4, <3>1, MergeFrame
    <2> QED BY <1>6, <2>2, <2>3, <2>4 DEF DeliveryStage
<1>7. CASE RoleStage
    <2>1. stage # MergeGate BY <1>2, <1>7 DEF RoleStage, Active
    <2> QED BY <1>1, <1>7, <2>1, MergeFrame DEF RoleStage, engineeringVars, pullRequestVars
<1>8. CASE MergeStage
    <2>1. stage = MergeGate BY <1>8, OrderFacts DEF MergeStage, Active
    <2> QED BY <1>8, <2>1, MergeCallStep DEF MergeStage, engineeringVars
<1>9. CASE RemoteStep
    <2>1. stage = MergeGate BY <1>9, OrderFacts DEF RemoteStep
    <2> QED BY <1>9, <2>1, GitHubStep, PushStep DEF RemoteStep, engineeringVars
<1>10. CASE ClosureStage
    <2>1. stage # MergeGate BY <1>2, <1>10 DEF ClosureStage
    <2> QED BY <1>1, <1>10, <2>1, MergeFrame DEF ClosureStage, engineeringVars, pullRequestVars
<1>11. CASE OtherStage
    <2>1. stage # MergeGate BY <1>2, <1>11 DEF OtherStage, Active
    <2> QED BY <1>1, <1>11, <2>1, MergeFrame DEF OtherStage, engineeringVars, pullRequestVars
<1>12. CASE StagePassed BY <1>12, MergeStagePassed
<1>13. CASE StageBlocked
    <2>1. stage' = stage BY <1>13 DEF StageBlocked, EndsWith, AuditFails
    <2> QED BY <1>1, <1>13, <2>1, MergeFrame DEF StageBlocked, stageVars, pullRequestVars
<1>14. CASE StageRaised
    <2>1. stage' = stage BY <1>14 DEF StageRaised, EndsWith, AuditFails
    <2> QED BY <1>1, <1>14, <2>1, MergeFrame DEF StageRaised, stageVars, pullRequestVars
<1>15. CASE Interrupted
    <2>1. stage' = stage BY <1>15 DEF Interrupted, EndsWith, AuditFails
    <2>2. UNCHANGED <<validated, rows, prs, events>>
        BY <1>15 DEF Interrupted, stageVars, pullRequestVars
    <2>3. CASE stage = MergeGate
        BY <1>2, <1>15, <2>1, <2>2, <2>3, MergeInterruptedStep DEF Interrupted
    <2>4. CASE stage # MergeGate
        <3>1. UNCHANGED mergeVars BY <1>15, <2>4, OrderFacts DEF Interrupted
        <3> QED BY <1>1, <2>1, <2>2, <2>4, <3>1, MergeFrame
    <2> QED BY <2>3, <2>4
<1>16. CASE UNCHANGED vars
    BY <1>1, <1>16, MergeFrame DEF vars, engineeringVars, stageVars, pullRequestVars
<1> QED BY <1>3, <1>4, <1>5, <1>6, <1>7, <1>8, <1>9, <1>10, <1>11, <1>12, <1>13, <1>14,
           <1>15, <1>16 DEF Next

\* The merge invariant is enough: a merged head went through the gate.
LEMMA MergeInvImpliesApproved == MergeInv => MergeWasApproved
<1> SUFFICES ASSUME MergeInv PROVE MergeWasApproved OBVIOUS
<1>1. ASSUME remote.merged # Nil, call.pr = remote.merged
      PROVE  LET h == remote.merged
             IN  /\ h \in validated
                 /\ \A k \in Kinds : PassingEvents(k, h) # {}
                 /\ \E e \in PassingEvents("QA", h) : e.tests = prs[h].names
                 /\ prs[h].outcome = "passed"
                 /\ \A k \in RowKinds : rows[h][k] # Nil /\ rows[h][k].decision = "APPROVED"
    <2> DEFINE h == remote.merged
    <2>1. GatePasses(h, call.git) BY <1>1 DEF MergeInv, Merged
    <2>2. h \in validated BY <2>1 DEF GatePasses, GitEventHolds
    <2>3. \A k \in Kinds : /\ rows[h][k] # Nil /\ rows[h][k].decision = "APPROVED"
                           /\ rows[h][k].event \in PassingEvents(k, h)
        BY <2>1 DEF GatePasses, ApprovalHolds
    <2>4. rows[h]["REVIEW"] # Nil /\ rows[h]["REVIEW"].decision = "APPROVED"
        BY <2>1 DEF GatePasses, ReviewHolds
    <2>5. prs[h].outcome = "passed" /\ rows[h]["QA"].event.tests = prs[h].names
        BY <2>1 DEF GatePasses, TestsMatchQA
    <2>6. "QA" \in Kinds BY DEF Kinds
    <2>7. rows[h]["QA"].event \in PassingEvents("QA", h) BY <2>3, <2>6
    <2>8. \A k \in RowKinds : rows[h][k] # Nil /\ rows[h][k].decision = "APPROVED"
        BY <2>3, <2>4 DEF RowKinds
    <2>9. \A k \in Kinds : PassingEvents(k, h) # {} BY <2>3
    <2>10. \E e \in PassingEvents("QA", h) : e.tests = prs[h].names BY <2>5, <2>7
    <2> HIDE DEF h
    <2> QED BY <2>2, <2>5, <2>8, <2>9, <2>10 DEF h
<1> QED BY <1>1 DEF MergeInv, Merged, MergeWasApproved

-----------------------------------------------------------------------------
\* One step of a closure of the project.
LEMMA CloserKeeps ==
    ASSUME ClosureInv, NEW c \in Closers, CloserStep(c), stage' = stage,
           c = Own => stage = ClosureStageNo
    PROVE  ClosureInv'
<1>1. /\ closer \in [Closers -> CloserStates] /\ busy \subseteq Team
      /\ Own \in Closers /\ Nil \notin Closers
    BY ClosureAssumption DEF ClosureInv
<1>2. UNCHANGED busy BY DEF CloserStep, Collect, LockProject, Archive, RollBack
<1>3. PICK d \in CloserStates : closer' = [closer EXCEPT ![c] = d]
    <2>1. ASSUME NEW s \in {"idle", "collected", "locked", "closed", "ended"}, Leaves(c, s)
          PROVE  \E d \in CloserStates : closer' = [closer EXCEPT ![c] = d]
        <3>1. [closer[c] EXCEPT !.step = s] \in CloserStates BY <1>1 DEF CloserStates
        <3> QED BY <3>1, <2>1, <1>1 DEF Leaves
    <2>2. ASSUME LockProject(c)
          PROVE  \E d \in CloserStates : closer' = [closer EXCEPT ![c] = d]
        <3>1. [step |-> "locked", busy |-> ActiveElsewhere] \in CloserStates
            BY <1>1 DEF CloserStates, ActiveElsewhere
        <3> QED BY <2>1, <2>2, <3>1 DEF LockProject
    <2> QED BY <2>1, <2>2 DEF CloserStep, Collect, Archive, RollBack
<1>4. closer' \in [Closers -> CloserStates] BY <1>1, <1>3
<1>5. stage' # ClosureStageNo => closer'[Own].step = "idle"
    BY <1>1, <1>3 DEF ClosureInv
<1>6. ASSUME NEW b \in Closers, closer'[b].step = "locked"
      PROVE  lock' = b /\ (project' = "CLIENT_REVIEW" \/ b \in held')
    <2>1. CASE b = c
        <3>1. ASSUME NEW s \in {"collected", "closed", "ended"}, Leaves(c, s) PROVE FALSE
            BY <3>1, <1>1, <1>6, <2>1 DEF Leaves, CloserStates
        <3>2. ~Collect(c) BY <3>1 DEF Collect
        <3>3. ~Archive(c) /\ ~RollBack(c) BY <3>1 DEF Archive, RollBack
        <3>4. LockProject(c) BY <3>2, <3>3 DEF CloserStep
        <3>5. ~Leaves(c, "ended") BY <3>1
        <3> QED BY <2>1, <3>4, <3>5 DEF LockProject, StatusSeen
    <2>2. CASE b # c
        <3>1. closer[b].step = "locked" BY <1>1, <1>3, <1>6, <2>2
        <3>2. lock = b /\ (project = "CLIENT_REVIEW" \/ b \in held)
            BY <3>1 DEF ClosureInv
        <3>3. closer[c].step # "locked" /\ lock # Nil BY <2>2, <3>2, <1>1 DEF ClosureInv
        <3>4. Collect(c) \/ LockProject(c) BY <3>3 DEF CloserStep, Archive, RollBack
        <3>5. /\ UNCHANGED <<project, lock>> /\ (b \in held => b \in held')
            BY <3>3, <3>4 DEF Collect, LockProject
        <3> QED BY <3>2, <3>5
    <2> QED BY <2>1, <2>2
<1> QED BY <1>1, <1>2, <1>4, <1>5, <1>6 DEF ClosureInv, CloserStates

\* No step of the flow breaks the closure invariant.
LEMMA ClosureNext ==
    ASSUME stage \in Stages, ClosureInv, [Next]_vars
    PROVE  ClosureInv'
<1>1. StageOrder[ClosureStageNo] = "CLOSURE" BY OrderFacts DEF ClosureStageNo
<1>2. ASSUME UNCHANGED closureVars, stage' = stage PROVE ClosureInv'
    BY <1>2 DEF ClosureInv, closureVars, CloserStates
<1>3. CASE ClosureStage
    <2>1. stage = ClosureStageNo /\ stage' = stage
        BY <1>3, OrderFacts DEF ClosureStage, engineeringVars
    <2>2. CASE \E c \in Closers : CloserStep(c) BY <2>1, <2>2, CloserKeeps
    <2>3. CASE \E a \in Team : AgentMoves(a)
        <3>1. PICK a \in Team : AgentMoves(a) BY <2>3
        <3>2. busy' \subseteq Team BY <3>1 DEF AgentMoves, ClosureInv
        <3>3. UNCHANGED <<project, lock, closer, held>> BY <3>1 DEF AgentMoves
        <3> QED BY <2>1, <3>2, <3>3 DEF ClosureInv, CloserStates
    <2> QED BY <1>3, <2>2, <2>3, ClosureAssumption DEF ClosureStage
<1>4. CASE Interrupted
    <2>1. stage' = stage BY <1>4 DEF Interrupted, EndsWith, AuditFails
    <2>2. CASE stage = ClosureStageNo
        <3>1. ClosureInterrupted BY <1>1, <1>4, <2>2 DEF Interrupted
        <3>2. /\ closer \in [Closers -> CloserStates] /\ Own \in Closers
            BY ClosureAssumption DEF ClosureInv
        <3>3. [closer[Own] EXCEPT !.step = "ended"] \in CloserStates BY <3>2 DEF CloserStates
        <3>4. closer' = [closer EXCEPT ![Own] = [closer[Own] EXCEPT !.step = "ended"]]
            BY <3>1, <3>2 DEF ClosureInterrupted, Leaves
        <3>5. closer' \in [Closers -> CloserStates] BY <3>2, <3>3, <3>4
        <3>6. closer'[Own].step = "ended" BY <3>2, <3>4 DEF CloserStates
        <3>7. UNCHANGED <<project, busy, lock, held>> BY <3>1 DEF ClosureInterrupted
        <3>8. \A c \in Closers : closer'[c].step = "locked" => closer[c].step = "locked"
            BY <3>2, <3>4, <3>6
        <3> QED BY <2>1, <2>2, <3>5, <3>7, <3>8 DEF ClosureInv, CloserStates
    <2>3. CASE stage # ClosureStageNo
        BY <1>2, <1>4, <2>1, <2>3, OrderFacts DEF Interrupted
    <2> QED BY <2>2, <2>3
<1>5. CASE StagePassed
    <2>1. UNCHANGED closureVars BY <1>5 DEF StagePassed
    <2>2. stage # ClosureStageNo \/ stage' = stage
        BY <1>5, OrderFacts DEF StagePassed, AuditFails, ClosureStageNo
    <2> QED BY <2>1, <2>2 DEF ClosureInv, closureVars, CloserStates
<1>6. CASE PlanningStage \/ StaffingStage \/ DeveloperStage \/ DeliveryStage \/ RoleStage
              \/ MergeStage \/ RemoteStep \/ OtherStage
    BY <1>2, <1>6 DEF PlanningStage, StaffingStage, DeveloperStage, DeliveryStage, RoleStage,
                      MergeStage, RemoteStep, OtherStage, engineeringVars
<1>7. CASE StageBlocked \/ StageRaised
    BY <1>2, <1>7 DEF StageBlocked, StageRaised, EndsWith, AuditFails
<1>8. CASE UNCHANGED vars BY <1>2, <1>8 DEF vars, engineeringVars
<1> QED BY <1>3, <1>4, <1>5, <1>6, <1>7, <1>8 DEF Next

\* A closure that had the lock and is now closed archived the project itself.
LEMMA ClosesOnceStep ==
    ASSUME ClosureInv, [Next]_vars, NEW c \in Closers,
           closer[c].step = "locked", closer'[c].step = "closed"
    PROVE  /\ project = "CLIENT_REVIEW" \/ c \in held
           /\ \A a \in Team : staff[a] = "WORKING" /\ staff'[a] = "AVAILABLE"
                                => a \notin busy \/ a \notin closer[c].busy
<1>1. closer \in [Closers -> CloserStates] /\ Own \in Closers
    BY ClosureAssumption DEF ClosureInv
<1>2. closer' # closer OBVIOUS
<1>3. ~ClosureInterrupted
    BY <1>1, SMT DEF ClosureInterrupted, Leaves, CloserStates
<1>4. ClosureStage
    BY <1>2, <1>3 DEF Next, vars, closureVars, engineeringVars, PlanningStage, StaffingStage,
           DeveloperStage, DeliveryStage, RoleStage, MergeStage, RemoteStep, OtherStage,
           StagePassed, StageBlocked, StageRaised, Interrupted
<1>5. PICK d \in Closers : CloserStep(d)
    BY <1>2, <1>4, ClosureAssumption DEF ClosureStage, AgentMoves
<1>6. d = c
    <2>1. \/ closer'[c] = closer[c]
          \/ d = c
        BY <1>1, <1>5 DEF CloserStep, Collect, LockProject, Archive, RollBack, Leaves
    <2> QED BY <2>1
<1>7. ~Collect(c) /\ ~LockProject(c) BY DEF Collect, LockProject
<1>8. ~RollBack(c) BY <1>1 DEF RollBack, Leaves, CloserStates
<1>9. Archive(c) BY <1>5, <1>6, <1>7, <1>8 DEF CloserStep
<1>10. project = "CLIENT_REVIEW" \/ c \in held BY DEF ClosureInv
<1>11. ASSUME NEW a \in Team, staff[a] = "WORKING", staff'[a] = "AVAILABLE"
       PROVE  a \notin busy \/ a \notin closer[c].busy
    BY <1>9, <1>11 DEF Archive
<1> QED BY <1>10, <1>11

-----------------------------------------------------------------------------
\* What appending does to a trail.
LEMMA AppendFacts ==
    ASSUME NEW t \in Seq(Entries), NEW a \in Entries
    PROVE  /\ Append(t, a) \in Seq(Entries) /\ Len(Append(t, a)) = Len(t) + 1
           /\ \A i \in 1..Len(t) : Append(t, a)[i] = t[i]
           /\ Append(t, a)[Len(t) + 1] = a
           /\ t \o <<a>> = Append(t, a) /\ t \o <<>> = t
           /\ \A b \in Entries : t \o <<a, b>> = Append(Append(t, a), b)
<1>1. t \o <<>> = t OBVIOUS
<1>2. t \o <<a>> = Append(t, a) OBVIOUS
<1>3. ASSUME NEW b \in Entries PROVE t \o <<a, b>> = Append(Append(t, a), b) OBVIOUS
<1> QED BY <1>1, <1>2, <1>3

\* One more record counts if it says PASSED.
LEMMA PassedGrows ==
    ASSUME NEW t \in Seq(Entries), NEW a \in Entries
    PROVE  LET n == Len(t)
           IN  /\ \A i \in 0..n : PassedOf(Append(t, a), i) = PassedOf(t, i)
               /\ Cardinality(PassedOf(Append(t, a), n + 1)) =
                     Cardinality(PassedOf(t, n)) + (IF a.status = "PASSED" THEN 1 ELSE 0)
<1> DEFINE n == Len(t)
           u == Append(t, a)
<1>1. n \in Nat /\ \A i \in 1..n : u[i] = t[i] OBVIOUS
<1>2. u[n + 1] = a OBVIOUS
<1>3. \A i \in 0..n : PassedOf(u, i) = PassedOf(t, i) BY <1>1 DEF PassedOf
<1>4. PassedOf(u, n + 1) = PassedOf(t, n) \union (IF a.status = "PASSED" THEN {n + 1} ELSE {})
    <2> HIDE DEF u, n
    <2>1. 1..(n + 1) = 1..n \union {n + 1} BY <1>1
    <2> QED BY <1>1, <1>2, <2>1 DEF PassedOf
<1>5. IsFiniteSet(PassedOf(t, n)) /\ n + 1 \notin PassedOf(t, n)
    <2>1. IsFiniteSet(1..n)
        <3>1. n \in Int /\ 1 \in Int BY <1>1
        <3> HIDE DEF n
        <3> QED BY <3>1, FS_Interval
    <2>2. PassedOf(t, n) \subseteq 1..n BY DEF PassedOf
    <2>3. IsFiniteSet(PassedOf(t, n)) BY <2>1, <2>2, FS_Subset
    <2>4. n + 1 \notin 1..n BY <1>1
    <2> QED BY <2>2, <2>3, <2>4
<1>6. Cardinality(PassedOf(t, n) \union {n + 1}) = Cardinality(PassedOf(t, n)) + 1
    BY <1>5, FS_AddElement
<1>7. Cardinality(PassedOf(t, n)) \in Nat BY <1>5, FS_CardinalityType
<1> HIDE DEF u, n
<1>8. Cardinality(PassedOf(u, n + 1)) =
         Cardinality(PassedOf(t, n)) + (IF a.status = "PASSED" THEN 1 ELSE 0)
    <2>1. CASE a.status = "PASSED" BY <1>4, <1>6, <2>1
    <2>2. CASE a.status # "PASSED"
        <3>1. PassedOf(u, n + 1) = PassedOf(t, n) BY <1>4, <2>2
        <3> QED BY <1>7, <2>2, <3>1
    <2> QED BY <2>1, <2>2
<1> QED BY <1>3, <1>8 DEF u, n

\* A trail keeps its shape when a record is appended that counts what passed
\* and follows the last one in the order of a stage.
LEMMA ShapeGrows ==
    ASSUME NEW t \in Seq(Entries), TrailShape(t), NEW a \in Entries,
           a.completed = (IF Len(t) = 0 THEN 0 ELSE t[Len(t)].completed)
                            + (IF a.status = "PASSED" THEN 1 ELSE 0),
           a.status = "STARTED" =>
              a.stage = a.completed + 1 /\ (Len(t) > 0 => t[Len(t)].status = "PASSED"),
           a.status # "STARTED" =>
              Len(t) > 0 /\ t[Len(t)].status = "STARTED" /\ a.stage = t[Len(t)].stage
    PROVE  TrailShape(Append(t, a))
<1> DEFINE n == Len(t)
           u == Append(t, a)
<1>1. n \in Nat /\ DOMAIN t = 1..n /\ DOMAIN u = 1..(n + 1) OBVIOUS
<1>2. (\A i \in 1..n : u[i] = t[i]) /\ u[n + 1] = a BY AppendFacts
<1>3. /\ \A i \in 0..n : PassedOf(u, i) = PassedOf(t, i)
      /\ Cardinality(PassedOf(u, n + 1)) =
            Cardinality(PassedOf(t, n)) + (IF a.status = "PASSED" THEN 1 ELSE 0)
    BY PassedGrows
<1>4. Cardinality(PassedOf(t, n)) = IF n = 0 THEN 0 ELSE t[n].completed
    <2>1. CASE n = 0
        <3>1. PassedOf(t, n) = {} BY <2>1 DEF PassedOf
        <3> QED BY <2>1, <3>1, FS_EmptySet
    <2>2. CASE n # 0
        <3>1. n \in DOMAIN t BY <1>1, <2>2
        <3> QED BY <2>2, <3>1 DEF TrailShape
    <2> QED BY <2>1, <2>2
<1>5. /\ a.completed = (IF n = 0 THEN 0 ELSE t[n].completed)
                            + (IF a.status = "PASSED" THEN 1 ELSE 0)
      /\ a.status = "STARTED" =>
              a.stage = a.completed + 1 /\ (n > 0 => t[n].status = "PASSED")
      /\ a.status # "STARTED" =>
              n > 0 /\ t[n].status = "STARTED" /\ a.stage = t[n].stage
    OBVIOUS
<1>6. TrailShape(u)
    <2> HIDE DEF n, u
    <2> SUFFICES ASSUME NEW i \in 1..(n + 1)
                 PROVE  /\ u[i].completed = Cardinality(PassedOf(u, i))
                        /\ u[i].status = "STARTED" =>
                              /\ u[i].stage = u[i].completed + 1
                              /\ i > 1 => u[i - 1].status = "PASSED"
                        /\ u[i].status # "STARTED" =>
                              /\ i > 1 /\ u[i - 1].status = "STARTED"
                              /\ u[i].stage = u[i - 1].stage
        BY <1>1 DEF TrailShape
    <2>1. CASE i = n + 1
        <3>1. u[i] = a /\ (i > 1 => i - 1 = n /\ u[i - 1] = t[n]) BY <1>1, <1>2, <2>1
        <3>2. u[i].completed = Cardinality(PassedOf(u, i)) BY <1>3, <1>4, <1>5, <2>1, <3>1
        <3> QED BY <1>1, <1>5, <2>1, <3>1, <3>2
    <2>2. CASE i # n + 1
        <3>1. /\ i \in 1..n /\ i \in 0..n /\ i \in DOMAIN t
              /\ i > 1 => i - 1 \in 1..n
            BY <1>1, <2>2
        <3>2. u[i] = t[i] /\ (i > 1 => u[i - 1] = t[i - 1]) BY <1>2, <3>1
        <3>3. PassedOf(u, i) = PassedOf(t, i) BY <1>3, <3>1
        <3> QED BY <3>1, <3>2, <3>3 DEF TrailShape
    <2> QED BY <2>1, <2>2
<1> QED BY <1>6 DEF u

\* Stages that passed stay passed, whatever is appended.
LEMMA PassedStay ==
    ASSUME NEW t \in Seq(Entries), NEW a \in Entries, NEW s \in Nat, PassedUpTo(t, s)
    PROVE  /\ PassedUpTo(Append(t, a), s)
           /\ a.stage = s + 1 /\ a.status = "PASSED" => PassedUpTo(Append(t, a), s + 1)
<1> DEFINE u == Append(t, a)
<1>1. /\ DOMAIN t \subseteq DOMAIN u /\ \A i \in DOMAIN t : u[i] = t[i]
      /\ Len(t) + 1 \in DOMAIN u /\ u[Len(t) + 1] = a
    OBVIOUS
<1> HIDE DEF u
<1>2. PassedUpTo(u, s) BY <1>1 DEF PassedUpTo
<1>3. ASSUME a.stage = s + 1, a.status = "PASSED" PROVE PassedUpTo(u, s + 1)
    <2>1. SUFFICES ASSUME NEW x \in 1..(s + 1)
                   PROVE  \E i \in DOMAIN u : u[i].stage = x /\ u[i].status = "PASSED"
        BY DEF PassedUpTo
    <2>2. x \in 1..s \/ x = s + 1 OBVIOUS
    <2> QED BY <1>1, <1>2, <1>3, <2>2 DEF PassedUpTo
<1> QED BY <1>2, <1>3 DEF u

\* While the run goes on the last record is the start of its stage.
LEMMA RunningFacts ==
    ASSUME TrailInv, outcome = "running"
    PROVE  /\ stage \in 1..17 /\ trail \in Seq(Entries) /\ TrailShape(trail)
           /\ Len(trail) \in Nat \ {0}
           /\ trail[Len(trail)] = Record(stage, "STARTED", stage - 1)
           /\ PassedUpTo(trail, stage - 1)
<1>1. trail # <<>> /\ stage \in 1..17 /\ trail \in Seq(Entries) BY OrderFacts DEF TrailInv
<1>2. LastRecord(trail, stage, outcome) BY <1>1 DEF TrailInv
<1>3. trail[Len(trail)] = Record(stage, "STARTED", stage - 1) BY <1>2 DEF LastRecord
<1> QED BY <1>1, <1>3 DEF TrailInv

\* The record of the end of a stage keeps the trail.
LEMMA RecordKeeps ==
    ASSUME TrailInv, outcome = "running",
           NEW status \in {"PASSED", "BLOCKED", "FAILED"}, NEW a,
           a = Record(stage, status, IF status = "PASSED" THEN stage ELSE stage - 1)
    PROVE  /\ a \in Entries /\ trail \o <<a>> = Append(trail, a)
           /\ Append(trail, a) \in Seq(Entries) /\ TrailShape(Append(trail, a))
           /\ Len(Append(trail, a)) = Len(trail) + 1
           /\ Append(trail, a)[Len(trail) + 1] = a
           /\ PassedUpTo(Append(trail, a), stage - 1)
           /\ status = "PASSED" => PassedUpTo(Append(trail, a), stage)
<1>1. /\ stage \in 1..17 /\ trail \in Seq(Entries) /\ TrailShape(trail)
      /\ Len(trail) \in Nat \ {0}
      /\ trail[Len(trail)] = Record(stage, "STARTED", stage - 1)
      /\ PassedUpTo(trail, stage - 1)
    BY RunningFacts
<1>2. /\ a.stage = stage /\ a.status = status
      /\ a.completed = stage - 1 + (IF a.status = "PASSED" THEN 1 ELSE 0)
    BY <1>1 DEF Record
<1>3. a \in Entries
    <2>1. PICK completed : completed = IF status = "PASSED" THEN stage ELSE stage - 1 OBVIOUS
    <2>2. stage \in Stages /\ completed \in 0..FinalStage BY <1>1, <2>1, OrderFacts
    <2>3. a = [stage |-> stage, status |-> status, completed |-> completed]
        BY <2>1 DEF Record
    <2> QED BY <2>2, <2>3 DEF Entries
<1>4. /\ trail[Len(trail)].completed = stage - 1 /\ trail[Len(trail)].status = "STARTED"
      /\ trail[Len(trail)].stage = stage
    BY <1>1 DEF Record
<1>5. TrailShape(Append(trail, a)) BY <1>1, <1>2, <1>3, <1>4, ShapeGrows
<1>6. PassedUpTo(Append(trail, a), stage - 1) BY <1>1, <1>3, PassedStay
<1>7. ASSUME status = "PASSED" PROVE PassedUpTo(Append(trail, a), stage)
    <2>1. stage - 1 \in Nat /\ a.stage = (stage - 1) + 1 /\ (stage - 1) + 1 = stage
        BY <1>1, <1>2
    <2>2. PassedUpTo(Append(trail, a), (stage - 1) + 1)
        BY <1>1, <1>2, <1>3, <1>7, <2>1, PassedStay
    <2> QED BY <2>1, <2>2
<1> QED BY <1>1, <1>3, <1>5, <1>6, <1>7, AppendFacts

\* A run that stops where it is, whatever record could not be written.
LEMMA StopsHere ==
    ASSUME TrailInv, outcome = "running", stage' = stage, trail' = trail,
           outcome' \in {"cancelled", "auditFailure"}
    PROVE  TrailInv'
<1>1. /\ stage \in 1..17 /\ trail \in Seq(Entries) /\ TrailShape(trail)
      /\ Len(trail) \in Nat \ {0}
      /\ trail[Len(trail)] = Record(stage, "STARTED", stage - 1)
      /\ PassedUpTo(trail, stage - 1)
    BY RunningFacts
<1>2. LastRecord(trail', stage', outcome') BY <1>1 DEF LastRecord
<1>3. TrailShape(trail') /\ PassedUpTo(trail', stage' - 1) BY <1>1
<1>4. trail # <<>> BY <1>1
<1> QED BY <1>1, <1>2, <1>3, <1>4, OrderFacts DEF TrailInv, Outcomes, Entries

\* A stage that did not pass ends the run, recorded or not.
LEMMA EndsStep ==
    ASSUME TrailInv, outcome = "running", NEW status, NEW how, EndsWith(status, how),
           \/ status = "BLOCKED" /\ how = "blocked"
           \/ status = "FAILED" /\ how \in {"failed", "timeout"}
    PROVE  TrailInv'
<1>1. stage' = stage /\ stage \in 1..17 /\ trail \in Seq(Entries) /\ Len(trail) \in Nat \ {0}
    BY RunningFacts DEF EndsWith, AuditFails
<1>2. CASE AuditFails(<<>>)
    <2>1. trail' = trail BY <1>1, <1>2 DEF AuditFails, Recording
    <2> QED BY <1>1, <1>2, <2>1, StopsHere DEF AuditFails
<1>3. CASE Recording(<<Record(stage, status, stage - 1)>>) /\ outcome' = how
    <2>1. PICK a : a = Record(stage, status, stage - 1) OBVIOUS
    <2>2. /\ trail \o <<a>> = Append(trail, a) /\ a \in Entries
          /\ Append(trail, a) \in Seq(Entries) /\ TrailShape(Append(trail, a))
          /\ Len(Append(trail, a)) = Len(trail) + 1
          /\ Append(trail, a)[Len(trail) + 1] = a
          /\ PassedUpTo(Append(trail, a), stage - 1)
        BY <2>1, RecordKeeps
    <2>3. trail' = Append(trail, a) BY <1>3, <2>1, <2>2 DEF Recording
    <2>4. trail' # <<>> /\ trail'[Len(trail')] = a BY <1>1, <2>2, <2>3
    <2>5. LastRecord(trail', stage', outcome') BY <1>1, <1>3, <2>1, <2>4 DEF LastRecord
    <2>6. TrailShape(trail') /\ PassedUpTo(trail', stage' - 1) BY <1>1, <2>2, <2>3
    <2>7. outcome' \in Outcomes BY <1>3 DEF Outcomes
    <2> QED BY <1>1, <2>2, <2>3, <2>4, <2>5, <2>6, <2>7, OrderFacts DEF TrailInv, Entries
<1> QED BY <1>2, <1>3 DEF EndsWith

\* A stage that passed: its record and the start of the next, the end of the
\* run, or a record that cannot be written.
LEMMA PassedStep ==
    ASSUME TrailInv, StagePassed
    PROVE  TrailInv'
<1>1. outcome = "running" BY DEF StagePassed
<1>2. /\ stage \in 1..17 /\ trail \in Seq(Entries) /\ Len(trail) \in Nat \ {0}
      /\ FinalStage = 17 /\ Stages = 1..17
    BY <1>1, RunningFacts, OrderFacts
<1>3. PICK a : a = Record(stage, "PASSED", stage) OBVIOUS
<1>4. PICK u : u = Append(trail, a) OBVIOUS
<1>5. /\ trail \o <<a>> = u /\ a \in Entries
      /\ u \in Seq(Entries) /\ TrailShape(u)
      /\ Len(u) = Len(trail) + 1 /\ u[Len(trail) + 1] = a
      /\ PassedUpTo(u, stage - 1) /\ PassedUpTo(u, stage)
    BY <1>1, <1>3, <1>4, RecordKeeps
<1>6. u # <<>> /\ u[Len(u)] = a BY <1>2, <1>5
<1>7. CASE /\ stage < FinalStage
           /\ Recording(<<a, Record(stage + 1, "STARTED", stage)>>)
           /\ stage' = stage + 1
           /\ UNCHANGED outcome
    <2>1. PICK b : b = Record(stage + 1, "STARTED", stage) OBVIOUS
    <2>2. b \in Entries /\ b.stage = stage + 1 /\ b.status = "STARTED" /\ b.completed = stage
        BY <1>2, <1>7, <2>1 DEF Record, Entries
    <2>3. trail' = Append(u, b)
        BY <1>2, <1>4, <1>5, <1>7, <2>1, <2>2, AppendFacts DEF Recording
    <2>4. a.completed = stage /\ a.status = "PASSED" BY <1>3 DEF Record
    <2>5. TrailShape(Append(u, b))
        <3>1. Len(u) > 0 /\ u[Len(u)].completed = stage /\ u[Len(u)].status = "PASSED"
            BY <1>2, <1>5, <1>6, <2>4
        <3>2. /\ b.completed = (IF Len(u) = 0 THEN 0 ELSE u[Len(u)].completed)
                                  + (IF b.status = "PASSED" THEN 1 ELSE 0)
              /\ b.stage = b.completed + 1
            BY <1>2, <2>2, <3>1
        <3> QED BY <1>5, <2>2, <3>1, <3>2, ShapeGrows
    <2>6. PassedUpTo(Append(u, b), stage) BY <1>2, <1>5, <2>2, PassedStay
    <2>7. Append(u, b) \in Seq(Entries) /\ Append(u, b)[Len(Append(u, b))] = b
          /\ Append(u, b) # <<>>
        BY <1>5, <2>2
    <2>8. LastRecord(trail', stage', outcome')
        BY <1>1, <1>2, <1>7, <2>1, <2>3, <2>7 DEF LastRecord
    <2>9. TrailShape(trail') /\ PassedUpTo(trail', stage' - 1) BY <1>2, <1>7, <2>3, <2>5, <2>6
    <2> QED BY <1>1, <1>2, <1>7, <2>3, <2>7, <2>8, <2>9 DEF TrailInv, Entries, Outcomes
<1>8. CASE stage = FinalStage /\ Recording(<<a>>) /\ outcome' = "completed" /\ UNCHANGED stage
    <2>1. trail' = u BY <1>5, <1>8 DEF Recording
    <2>2. LastRecord(trail', stage', outcome') BY <1>3, <1>6, <1>8, <2>1 DEF LastRecord
    <2>3. TrailShape(trail') /\ PassedUpTo(trail', stage' - 1) BY <1>5, <1>8, <2>1
    <2> QED BY <1>2, <1>5, <1>6, <1>8, <2>1, <2>2, <2>3 DEF TrailInv, Entries, Outcomes
<1>9. CASE AuditFails(<<>>)
    <2>1. trail' = trail BY <1>2, <1>9 DEF AuditFails, Recording
    <2> QED BY <1>1, <1>9, <2>1, StopsHere DEF AuditFails
<1>10. CASE stage < FinalStage /\ AuditFails(<<a>>)
    <2>1. trail' = u BY <1>5, <1>10 DEF Recording, AuditFails
    <2>2. outcome' = "auditFailure" /\ stage' = stage BY <1>10 DEF AuditFails
    <2>3. LastRecord(trail', stage', outcome') BY <1>3, <1>6, <1>10, <2>1, <2>2 DEF LastRecord
    <2>4. TrailShape(trail') /\ PassedUpTo(trail', stage' - 1) BY <1>5, <2>1, <2>2
    <2> QED BY <1>2, <1>5, <1>6, <2>1, <2>2, <2>3, <2>4 DEF TrailInv, Entries, Outcomes
<1> QED BY <1>3, <1>7, <1>8, <1>9, <1>10 DEF StagePassed

\* No step of the flow breaks the trail.
LEMMA TrailNext ==
    ASSUME TrailInv, [Next]_vars
    PROVE  TrailInv'
<1>1. ASSUME UNCHANGED engineeringVars PROVE TrailInv'
    <2>1. UNCHANGED <<stage, outcome, trail>> BY <1>1 DEF engineeringVars
    <2>2. TrailShape(trail') /\ PassedUpTo(trail', stage' - 1) BY <2>1 DEF TrailInv
    <2>3. trail' # <<>> => LastRecord(trail', stage', outcome') BY <2>1 DEF TrailInv
    <2> QED BY <2>1, <2>2, <2>3 DEF TrailInv, Entries
<1>2. CASE PlanningStage \/ StaffingStage \/ DeveloperStage \/ DeliveryStage \/ RoleStage
              \/ MergeStage \/ RemoteStep \/ ClosureStage \/ OtherStage
    BY <1>1, <1>2 DEF PlanningStage, StaffingStage, DeveloperStage, DeliveryStage, RoleStage,
                      MergeStage, RemoteStep, ClosureStage, OtherStage
<1>3. CASE StagePassed BY <1>3, PassedStep
<1>4. CASE StageBlocked BY <1>4, EndsStep DEF StageBlocked
<1>5. CASE StageRaised BY <1>5, EndsStep DEF StageRaised
<1>6. CASE Interrupted
    <2>1. outcome = "running" BY <1>6 DEF Interrupted
    <2>2. CASE EndsWith("FAILED", "timeout") BY <2>1, <2>2, EndsStep
    <2>3. CASE outcome' = "cancelled" /\ UNCHANGED <<stage, trail>>
        BY <2>1, <2>3, StopsHere
    <2> QED BY <1>6, <2>2, <2>3 DEF Interrupted
<1>7. CASE UNCHANGED vars BY <1>1, <1>7 DEF vars
<1> QED BY <1>2, <1>3, <1>4, <1>5, <1>6, <1>7 DEF Next

-----------------------------------------------------------------------------
\* The trail invariant, with the two others, says what the property says.
LEMMA IInvTellsTheRun == IInv => AuditTellsTheRun
<1> SUFFICES ASSUME IInv PROVE AuditTellsTheRun OBVIOUS
<1>1. /\ TrailInv /\ MergeInv /\ ClosureInv /\ stage \in 1..17 /\ outcome \in Outcomes
      /\ trail \in Seq(Entries) /\ TrailShape(trail) /\ Len(trail) \in Nat
      /\ DOMAIN trail = 1..Len(trail) /\ FinalStage = 17
      /\ PassedUpTo(trail, stage - 1)
    BY OrderFacts DEF IInv, TrailInv
<1>2. \A i \in DOMAIN trail :
          /\ trail[i].completed =
                Cardinality({j \in 1..i : trail[j].status = "PASSED"})
          /\ trail[i].status = "STARTED" =>
                trail[i].stage = trail[i].completed + 1 /\ (i > 1 => trail[i - 1].status = "PASSED")
          /\ trail[i].status # "STARTED" =>
                /\ i > 1 /\ trail[i - 1].status = "STARTED"
                /\ trail[i].stage = trail[i - 1].stage
    BY <1>1 DEF TrailShape, PassedOf
<1>3. /\ outcome = "blocked" => trail[Len(trail)].status = "BLOCKED"
      /\ outcome \in {"failed", "timeout"} => trail[Len(trail)].status = "FAILED"
    BY <1>1 DEF TrailInv, LastRecord, Record
<1>4. outcome = "completed" <=>
          Cardinality({i \in DOMAIN trail : trail[i].status = "PASSED"}) = FinalStage
    <2>1. CASE trail = <<>>
        <3>1. {i \in DOMAIN trail : trail[i].status = "PASSED"} = {} BY <2>1
        <3>2. outcome = "auditFailure" BY <1>1, <2>1 DEF TrailInv
        <3>3. Cardinality({i \in DOMAIN trail : trail[i].status = "PASSED"}) = 0
            BY <3>1, FS_EmptySet
        <3> QED BY <1>1, <3>2, <3>3
    <2>2. CASE trail # <<>>
        <3>1. Len(trail) \in DOMAIN trail BY <1>1, <2>2
        <3>2. Cardinality({i \in DOMAIN trail : trail[i].status = "PASSED"})
                 = trail[Len(trail)].completed
            BY <1>1, <3>1 DEF TrailShape, PassedOf
        <3>3. LastRecord(trail, stage, outcome) BY <1>1, <2>2 DEF TrailInv
        <3>4. outcome = "completed" <=> trail[Len(trail)].completed = 17
            <4> DEFINE l == trail[Len(trail)]
            <4>1. outcome = "completed" => l.completed = 17
                BY <1>1, <3>3 DEF LastRecord, Record
            <4>2. outcome \in {"running", "cancelled", "blocked", "failed", "timeout"}
                     => l.completed = stage - 1
                BY <1>1, <3>3 DEF LastRecord, Record
            <4>3. outcome = "auditFailure" => l.completed < 17
                BY <1>1, <3>3 DEF LastRecord, Record
            <4> HIDE DEF l
            <4> QED BY <1>1, <4>1, <4>2, <4>3 DEF Outcomes, l
        <3> QED BY <1>1, <3>2, <3>4
    <2> QED BY <2>1, <2>2
<1>5. mergeAudit # {} => Recorded("SECURITY", "PASSED")
    <2>1. SUFFICES ASSUME mergeAudit # {} PROVE Recorded("SECURITY", "PASSED") OBVIOUS
    <2>2. stage = 12 BY <1>1, <2>1 DEF MergeInv, MergeAwaited, MergeGate
    <2>3. \E i \in DOMAIN trail : trail[i].stage = 11 /\ trail[i].status = "PASSED"
        BY <1>1, <2>2 DEF PassedUpTo
    <2> QED BY <2>3, OrderFacts DEF Recorded
<1>6. closer[Own].step = "closed" => Recorded("MERGE_GATE", "PASSED")
    <2>1. SUFFICES ASSUME closer[Own].step = "closed" PROVE Recorded("MERGE_GATE", "PASSED")
        OBVIOUS
    <2>2. stage = 17 BY <1>1, <2>1 DEF ClosureInv, ClosureStageNo
    <2>3. \E i \in DOMAIN trail : trail[i].stage = 12 /\ trail[i].status = "PASSED"
        BY <1>1, <2>2 DEF PassedUpTo
    <2>4. StageOrder[12] = "MERGE_GATE" BY OrderFacts DEF MergeGate
    <2> QED BY <2>3, <2>4 DEF Recorded
<1> QED BY <1>2, <1>3, <1>4, <1>5, <1>6 DEF AuditTellsTheRun

-----------------------------------------------------------------------------
\* The run begins with the start of its first stage, or without its record.
LEMMA InitHolds == Init => IInv
<1> SUFFICES ASSUME Init PROVE IInv OBVIOUS
<1>1. Stages = 1..17 /\ FinalStage = 17 BY OrderFacts
<1>2. TrailInv
    <2>1. CASE outcome = "running" /\ trail = <<Record(1, "STARTED", 0)>>
        <3>1. PICK a : a = Record(1, "STARTED", 0) OBVIOUS
        <3>2. a \in Entries BY <1>1, <3>1 DEF Record, Entries
        <3>3. a.stage = 1 /\ a.status = "STARTED" /\ a.completed = 0 BY <3>1 DEF Record
        <3>4. trail = <<a>> /\ trail \in Seq(Entries) /\ trail # <<>> /\ DOMAIN trail = 1..1
              /\ trail[1] = a /\ Len(trail) = 1
            BY <2>1, <3>1, <3>2
        <3>5. PassedOf(trail, 1) = {} BY <3>3, <3>4 DEF PassedOf
        <3>6. TrailShape(trail) BY <3>3, <3>4, <3>5, FS_EmptySet DEF TrailShape
        <3>7. stage = 1 BY DEF Init
        <3>8. LastRecord(trail, stage, outcome) BY <2>1, <3>1, <3>4, <3>7 DEF LastRecord
        <3>9. PassedUpTo(trail, stage - 1) BY <3>7 DEF PassedUpTo
        <3> QED BY <1>1, <2>1, <3>4, <3>6, <3>7, <3>8, <3>9 DEF TrailInv, Outcomes
    <2>2. CASE outcome = "auditFailure" /\ trail = <<>>
        <3>1. stage = 1 BY DEF Init
        <3>2. trail \in Seq(Entries) /\ DOMAIN trail = {} BY <2>2
        <3>3. TrailShape(trail) BY <3>2 DEF TrailShape
        <3>4. PassedUpTo(trail, stage - 1) BY <3>1 DEF PassedUpTo
        <3> QED BY <1>1, <2>2, <3>1, <3>2, <3>3, <3>4 DEF TrailInv, Outcomes
    <2> QED BY <2>1, <2>2 DEF Init
<1>3. MergeInv
    <2>1. /\ validated = {OldHead} /\ remote = [head |-> OldHead, merged |-> Nil]
          /\ call = NoCall /\ mergeAudit = {}
        BY DEF Init, InitPullRequests, InitMerge
    <2>2. NoCall \in MergeCalls /\ NoCall.step = "none" BY DEF NoCall, MergeCalls
    <2>3. MergeTypeOK BY <2>1, <2>2 DEF MergeTypeOK, Heads, RemotePullRequests
    <2>4. MergeAwaited BY <2>1 DEF MergeAwaited
    <2>5. MergeCalled /\ Merged BY <2>1, <2>2 DEF MergeCalled, Merged, At
    <2> QED BY <2>3, <2>4, <2>5 DEF MergeInv
<1>4. ClosureInv
    <2>1. /\ busy = {} /\ closer = [c \in Closers |-> Idle] BY DEF Init, InitClosure
    <2>2. Idle \in CloserStates /\ Idle.step = "idle" BY DEF Idle, CloserStates
    <2> QED BY <2>1, <2>2, ClosureAssumption DEF ClosureInv
<1> QED BY <1>2, <1>3, <1>4 DEF IInv

\* IInv is an inductive invariant of the engineering flow.
THEOREM Invariance == Spec => []IInv
<1>1. Init => IInv BY InitHolds
<1>2. IInv /\ [Next]_vars => IInv'
    BY TrailNext, MergeNext, ClosureNext DEF IInv, TrailInv
<1> QED BY <1>1, <1>2, PTL DEF Spec

\* merge_pull_request: whatever the caller of the stages hands on and whoever
\* pushes, what GitHub merged in the call's own pull request had its review, its
\* approvals, its events and its tests; the merge was announced, and is recorded
\* as done only if it was.
THEOREM MergesAreApproved == Spec => []MergeWasApproved
<1>1. IInv => MergeWasApproved BY MergeInvImpliesApproved DEF IInv
<1> QED BY <1>1, Invariance, PTL

\* EngineeringV1Orchestrator: at every step of every run the append-only trail
\* is the story of the run, whichever stage ends it and whichever record fails.
THEOREM TrailTellsTheRun == Spec => []AuditTellsTheRun
<1>1. IInv => AuditTellsTheRun BY IInvTellsTheRun
<1> QED BY <1>1, Invariance, PTL

\* ProjectClosureService: a closure archives a project in review, and takes
\* nobody from another project who is active there then and was under the lock.
THEOREM ProjectClosesOnce == Spec => ClosesOnce
<1>1. IInv /\ [Next]_vars =>
        [\A c \in Closers :
          closer[c].step = "locked" /\ closer'[c].step = "closed" =>
             /\ project = "CLIENT_REVIEW" \/ c \in held
             /\ \A a \in Team : staff[a] = "WORKING" /\ staff'[a] = "AVAILABLE"
                                => a \notin busy \/ a \notin closer[c].busy]_closureVars
    BY ClosesOnceStep DEF IInv
<1> QED BY <1>1, Invariance, PTL DEF Spec, ClosesOnce
=============================================================================
