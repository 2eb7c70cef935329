---------------------------- MODULE PullRequests ----------------------------
(***************************************************************************)
(* Pull-request records and the merge gate over them.                      *)
(* core/pull_requests, infrastructure/pull_requests and the repositories.  *)
(* Rows are append-only; the caller's operation records a pull request,    *)
(* its review and its approvals one after the other.                       *)
(***************************************************************************)
EXTENDS EngineeringStage

VARIABLES
    validated,  \* heads with a PASS event of validate_merge_requirements
    rows        \* per head: the review row and the approval rows

pullRequestVars == <<validated, rows>>

RowKinds == {"REVIEW"} \union Kinds

\* The event a workflow leaves when it passes, and the decision in it
Passing == [REVIEWER |-> "APPROVED", QA |-> "PASSED", SECURITY |-> "PASS"]

PassingEvents(kind, h) ==
    {e \in events : e.kind = kind /\ e.head = h /\ e.decision = Passing[kind]}

\* A row: the decision, whose it is (the workflow's own agent or another of
\* its role), and the event it cites
Row(decision, by, event) == [decision |-> decision, by |-> by, event |-> event]

NoRows == [k \in RowKinds |-> Nil]

EarlierEvents ==
    {[kind |-> k, head |-> OldHead, decision |-> Passing[k],
      tests |-> IF k = "QA" THEN Profiles ELSE Nil] : k \in Kinds}

EarlierRows ==
    [k \in RowKinds |-> IF k = "REVIEW" THEN Row("APPROVED", "own", Nil)
                        ELSE Row("APPROVED", "own", CHOOSE e \in EarlierEvents : e.kind = k)]

\* What a pull request says of the tests it was opened with
TestEvidence == [names : (SUBSET Profiles) \ {{}}, outcome : {"passed", "failed", "stale"}]

EarlierTests == [names |-> Profiles, outcome |-> "passed"]

\* An earlier delivery of the task was approved
InitPullRequests ==
    /\ validated = {OldHead}
    /\ prs = [h \in Heads |-> IF h = OldHead THEN EarlierTests ELSE Nil]
    /\ events = EarlierEvents
    /\ rows = [h \in Heads |-> IF h = OldHead THEN EarlierRows ELSE NoRows]
    /\ lapses = 0

\* CODE_CHANGE: the delivery is prepared, and passes the Git checks or not
ValidateDelivery ==
    /\ \/ validated' = validated \union {NewHead} /\ Answer /\ UNCHANGED lapses
       \/ UNCHANGED validated /\ Answer /\ Lapse(returned' = "passed")
       \/ UNCHANGED <<validated, lapses>> /\ Raise
    /\ UNCHANGED <<rows, prs, work, events>>

\* TEST_EXECUTION: the caller runs tests and opens the pull request with what
\* came out; the repository takes failed and outdated evidence too.
OpenPullRequest ==
    /\ \/ \E tests \in TestEvidence :
             /\ prs' = [prs EXCEPT ![NewHead] = tests]
             /\ Lapse(tests.outcome # "passed")
             /\ Answer
       \/ UNCHANGED <<prs, lapses>> /\ (Answer \/ Raise)
    /\ UNCHANGED <<validated, rows, work, events>>

Cited == UNION {{rows[h][k].event : k \in {x \in RowKinds : rows[h][x] # Nil}} : h \in Heads}

RowsInOrder == <<"REVIEW", "REVIEWER", "QA", "SECURITY">>

\* The next row of the new pull request: nothing before it is still to come
Due(k) == \A n \in DOMAIN RowsInOrder :
             RowsInOrder[n] = k => \A m \in 1..(n - 1) : rows[NewHead][RowsInOrder[m]] # Nil

Proper(k, row) ==
    /\ row.decision = "APPROVED" /\ row.by = "own"
    /\ k \in Kinds => row.event \in PassingEvents(k, NewHead)

\* PullRequestReviewRepository.add and ApprovalRepository.add: role, author and
\* head are checked, decision and cited event are not; no event twice.
RecordRow(k) ==
    /\ prs[NewHead] # Nil /\ rows[NewHead][k] = Nil /\ Due(k)
    /\ \E decision \in {"APPROVED", "REJECTED"}, by \in {"own", "other"},
          event \in IF k = "REVIEW" THEN {Nil} ELSE events \ Cited :
          LET row == Row(decision, by, event)
          IN  /\ rows' = [rows EXCEPT ![NewHead][k] = row]
              /\ Lapse(~Proper(k, row))
    /\ UNCHANGED <<validated, returned, prs, work, events>>

\* A row the caller never records (bound: "none" stands for it in the order)
LeaveOut(k) ==
    /\ prs[NewHead] # Nil /\ rows[NewHead][k] = Nil /\ Due(k)
    /\ Lapse(TRUE)
    /\ rows' = [rows EXCEPT ![NewHead][k] = Row("none", "nobody", Nil)]
    /\ UNCHANGED <<validated, returned, prs, work, events>>

\* Mutant: any passing event of the kind will do.
ApprovalHoldsUnpinned(h, k) ==
    /\ rows[h][k] # Nil
    /\ rows[h][k].decision = "APPROVED"
    /\ rows[h][k].by = "own"
    /\ rows[h][k].event # Nil
    /\ rows[h][k].event.kind = k
    /\ rows[h][k].event.decision = Passing[k]

\* SQLAlchemyMergeGate: an approval counts with the passing event it cites, of
\* this pull request and by the agent who approves
ApprovalHolds(h, k) ==
    /\ rows[h][k] # Nil
    /\ rows[h][k].decision = "APPROVED"
    /\ rows[h][k].by = "own"
    /\ rows[h][k].event \in PassingEvents(k, h)

\* The pull request's tests are those the cited QA event vouches for
TestsMatchQA(h) ==
    /\ prs[h].outcome = "passed"
    /\ rows[h]["QA"] # Nil
    /\ rows[h]["QA"].event # Nil
    /\ rows[h]["QA"].event.tests = prs[h].names

\* MergeGate: one reviewer, who is not the author, reviewed and approved
ReviewHolds(h) ==
    /\ rows[h]["REVIEW"] # Nil
    /\ rows[h]["REVIEW"].decision = "APPROVED"
    /\ rows[h]["REVIEWER"] # Nil
    /\ rows[h]["REVIEWER"].by = rows[h]["REVIEW"].by

\* The cited Git event is a PASS of this very head
GitEventHolds(h, g) == g = h /\ g \in validated

\* PASS of the gate for the pull request of head h with the Git event of head g
GatePasses(h, g) ==
    /\ prs[h] # Nil
    /\ GitEventHolds(h, g)
    /\ ReviewHolds(h)
    /\ \A k \in Kinds : ApprovalHolds(h, k)
    /\ TestsMatchQA(h)
=============================================================================
