------------------------------- MODULE QAAgent -------------------------------
(***************************************************************************)
(* One independent QA run: preflight, every required test profile once     *)
(* through the tool executor, one provider call, and the gate.  core/qa.   *)
(***************************************************************************)
EXTENDS EngineeringStage

\* One acceptance criterion stands for all: each has to be PASSED and cite
\* tests that succeeded.
Criteria == [status : {"PASSED", "FAILED", "UNVERIFIED"}, cites : SUBSET Profiles]

QAProposals == [criterion : Criteria, opinion : {"pass", "fail", "unsure", "finding"}]

QARequests ==
    [required : (SUBSET Profiles) \ {{}}, existing : BOOLEAN, authorized : BOOLEAN]

\* PermissionedQATestRunner: a profile whose tool call is refused, or whose
\* result is not one of that profile, ends the run.
TestRuns(required) == [required -> {"passed", "failed", "truncated", "refused"}]

\* QA requires an approved Reviewer result, three identities and its authority
ValidQA(q) ==
    /\ work.REVIEWER = "APPROVED"
    /\ q.authorized

Succeeded(runs) == {t \in DOMAIN runs : runs[t] = "passed"}

\* The analysis may cite executed tests only, or it is no analysis
InScope(proposal, runs) == proposal.criterion.cites \subseteq DOMAIN runs

QABlocked(q, runs, proposal) ==
    \/ Succeeded(runs) # q.required
    \/ ~q.existing                       \* a check of the review's has failed
    \/ proposal.criterion.status # "PASSED"
    \/ proposal.criterion.cites = {}
    \/ ~(proposal.criterion.cites \subseteq Succeeded(runs))
    \/ proposal.opinion \in {"fail", "unsure"}

QAVerdict(q, runs, proposal) ==
    IF QABlocked(q, runs, proposal) \/ proposal.opinion = "finding"
    THEN "FAILED" ELSE "PASSED"

\* The event has profile and status of each test; those of a failed run
\* decide nothing any more.
QAEventTests(decision, runs) == IF decision = "PASSED" THEN Succeeded(runs) ELSE Nil

Assess(q, runs, proposal) ==
    LET decision == QAVerdict(q, runs, proposal)
    IN  /\ Judged("QA", decision, [runs |-> runs, cites |-> proposal.criterion.cites])
        /\ Complete("QA", decision, QAEventTests(decision, runs))

QARefuses == Raise /\ UNCHANGED <<work, events, lapses>>

QA ==
    /\ \/ \E q \in QARequests :
             /\ ValidQA(q)
             /\ \E runs \in TestRuns(q.required) :
                   \/ "refused" \in {runs[t] : t \in DOMAIN runs} /\ QARefuses
                   \/ /\ "refused" \notin {runs[t] : t \in DOMAIN runs}
                      /\ \/ \E p \in QAProposals : InScope(p, runs) /\ Assess(q, runs, p)
                         \/ QARefuses  \* ProviderFailures, and a proposal out of scope
       \/ (\E q \in QARequests : ~ValidQA(q)) /\ QARefuses
    /\ UNCHANGED prs
=============================================================================
