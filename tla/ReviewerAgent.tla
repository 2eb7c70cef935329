---------------------------- MODULE ReviewerAgent ----------------------------
(***************************************************************************)
(* One independent review: the handoff from the Developer, preflight, one  *)
(* provider call, and the gate that overrules the provider's proposal.     *)
(* core/workflows/handoff.py, core/reviewer.                               *)
(***************************************************************************)
EXTENDS DeveloperAgent

\* The caller builds the request; exact: it says what the task, the Developer's
\* report and its checks say.
ReviewRequests == [exact : BOOLEAN, independent : BOOLEAN, authorized : BOOLEAN]

\* _require_exact_handoff: the Developer's checks are the required ones, each
\* once and in their order
HandoffMatches(q) ==
    LET checks == development.checks
    IN  /\ q.exact
        /\ [i \in DOMAIN checks |-> checks[i].profile] = development.required

\* A proposal approves, requests changes, finds something severe, or is not
\* confident; severity and confidence are judged apart from the decision.
ReviewProposals == {"approve", "object", "severe", "unsure"}

\* Role, status, permissions and tools of the Reviewer, and nobody reviews
\* their own work
ValidReview(q) == q.independent /\ q.authorized

\* Something required is missing, inconsistent, cut or failed: a check that was
\* cut is not complete, whatever its exit code
ChecksBlock ==
    \E p \in ToSet(development.required) :
        LET runs == Of(development.checks, p)
        IN  Cardinality(runs) # 1 \/ \E i \in runs : development.checks[i].result # "passed"

ReviewBlocked(q, proposal) ==
    \/ ~q.independent
    \/ development.report # "SUCCEEDED"
    \/ ChecksBlock
    \/ proposal # "approve"

ReviewVerdict(q, proposal) ==
    IF ReviewBlocked(q, proposal) THEN "CHANGES_REQUESTED" ELSE "APPROVED"

Review ==
    /\ \E q \in ReviewRequests, reply \in ReviewProposals \union ProviderFailures :
          IF HandoffMatches(q) /\ ValidReview(q) /\ reply \notin ProviderFailures
          THEN /\ Judged("REVIEWER", ReviewVerdict(q, reply), q)
               /\ Complete("REVIEWER", ReviewVerdict(q, reply), Nil)
          ELSE Raise /\ UNCHANGED <<work, events, lapses>>
    /\ UNCHANGED <<prs, development>>
=============================================================================
