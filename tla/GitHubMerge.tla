----------------------------- MODULE GitHubMerge -----------------------------
(***************************************************************************)
(* GitHubProvider.merge_pull_request: audited start, read-back, internal   *)
(* gate, remote checks, merge request.  GitHub, the audit sink and whoever *)
(* else pushes to the branch act in between.                               *)
(***************************************************************************)
EXTENDS PullRequests

VARIABLES
    remote,     \* the head of the remote pull request, and what was merged
    call,       \* the merge call: its step, and what it asks for
    mergeAudit  \* outcomes recorded for it

mergeVars == <<remote, call, mergeAudit>>

RemotePullRequests == [head : Heads, merged : Heads \union {Nil}]

NoCall == [step |-> "none", pr |-> Nil, git |-> Nil, expected |-> Nil, answer |-> Nil]

InitMerge ==
    /\ remote = [head |-> OldHead, merged |-> Nil]
    /\ call = NoCall
    /\ mergeAudit = {}

At(step) == call.step = step
Becomes(step) == call' = [call EXCEPT !.step = step]

\* The outcome of the call is recorded, or cannot be
Audits(how) == mergeAudit' \in {mergeAudit, mergeAudit \union {how}}

\* A RemoteGitError ends the call: BLOCKED is recorded, or cannot be
Blocked ==
    /\ Becomes("ended") /\ Raise
    /\ Audits("BLOCKED")

\* A merge is asked for with a recorded pull request, a Git event, and the
\* head expected to be merged, none of which has to agree with the others
CallMerge ==
    /\ At("none")
    /\ \E pr \in {h \in Heads : prs[h] # Nil}, git \in validated, expected \in Heads :
          \/ /\ Lapse(~(pr = NewHead /\ git = pr /\ expected = pr))
             /\ call' = [step |-> "started", pr |-> pr, git |-> git,
                         expected |-> expected, answer |-> Nil]
             /\ mergeAudit' = {"STARTED"}
             /\ UNCHANGED returned
          \/ /\ call' = [NoCall EXCEPT !.step = "ended"]
             /\ Raise /\ UNCHANGED <<mergeAudit, lapses>>   \* AUDIT_FAILED
    /\ UNCHANGED <<remote, pullRequestVars, prs, work, events>>

\* GET of the remote pull request, then the gate without a pause
ReadBack ==
    /\ At("started")
    /\ \/ /\ remote.head = call.expected
          /\ GatePasses(call.pr, call.git)
          /\ Becomes("gated")
          /\ UNCHANGED <<returned, mergeAudit>>
       \/ /\ ~(remote.head = call.expected /\ GatePasses(call.pr, call.git))
          /\ Blocked
       \/ Blocked                                      \* the request failed
    /\ UNCHANGED <<remote, pullRequestVars, prs, work, events, lapses>>

\* GET of the checks of the expected head: all succeeded, and PUT; or not
ListChecks ==
    /\ At("gated")
    /\ \/ Becomes("sent") /\ UNCHANGED <<returned, mergeAudit>>
       \/ Blocked
    /\ UNCHANGED <<remote, pullRequestVars, prs, work, events, lapses>>

\* GitHub merges the sha it is asked to, if that is still the head
GitHubAnswers ==
    /\ call.step \in {"sent", "abandoned"}
    /\ IF remote.head = call.expected /\ remote.merged = Nil
       THEN /\ remote' = [remote EXCEPT !.merged = call.expected]
            /\ call' = [call EXCEPT !.answer = "merged",
                                    !.step = IF @ = "sent" THEN "answered" ELSE "ended"]
       ELSE /\ UNCHANGED remote
            /\ call' = [call EXCEPT !.answer = "refused",
                                    !.step = IF @ = "sent" THEN "answered" ELSE "ended"]
    /\ UNCHANGED <<mergeAudit, pullRequestVars, returned, prs, work, events, lapses>>

\* The deadline of the request passes while GitHub may still act on it
AnswerTooLate ==
    /\ At("sent")
    /\ Becomes("abandoned") /\ Raise
    /\ Audits("BLOCKED")
    /\ UNCHANGED <<remote, pullRequestVars, prs, work, events, lapses>>

\* SUCCEEDED is recorded, or recording it fails and is itself BLOCKED
MergeSucceeds ==
    /\ At("answered") /\ call.answer = "merged"
    /\ \/ /\ mergeAudit' = mergeAudit \union {"SUCCEEDED"}
          /\ Becomes("ended") /\ Answer
       \/ Blocked
    /\ UNCHANGED <<remote, pullRequestVars, prs, work, events, lapses>>

\* The answer is an error, does not arrive whole or cannot be read
MergeFails ==
    /\ At("answered")
    /\ \/ Blocked
       \/ /\ Becomes("ended") /\ Raise
          /\ Audits("FAILED")
    /\ UNCHANGED <<remote, pullRequestVars, prs, work, events, lapses>>

\* Someone pushes, and the pull request has another head
SomeonePushes ==
    /\ remote.merged = Nil
    /\ \E h \in Heads \ {remote.head} : remote' = [remote EXCEPT !.head = h]
    /\ UNCHANGED <<call, mergeAudit, pullRequestVars, returned, prs, work, events, lapses>>

\* The run is interrupted: no terminal event, and what was sent was sent
MergeInterrupted ==
    /\ UNCHANGED <<remote, mergeAudit>>
    /\ IF At("sent") THEN Becomes("abandoned") ELSE Becomes("ended")

MergeStep ==
    \/ CallMerge \/ ReadBack \/ ListChecks \/ AnswerTooLate \/ MergeSucceeds \/ MergeFails

-----------------------------------------------------------------------------
\* What was merged was reviewed, tested and found secure: the role workflows
\* of that very delivery passed, in a run that had nobody else's approval, the
\* tests it was opened with are those QA passed it on, and everyone approved.
\* The merge was announced in the audit, and SUCCEEDED is never recorded of a
\* merge that did not happen.  (A call may name one pull request and expect
\* the head of another; merge_pull_request does not compare them.  GitHub is taken
\* not to answer 200 with "merged": false, which would be recorded as SUCCEEDED.)
MergeWasApproved ==
    /\ remote.merged # Nil /\ call.pr = remote.merged =>
          LET h == remote.merged
          IN  /\ h \in validated
              /\ \A k \in Kinds : PassingEvents(k, h) # {}
              /\ \E e \in PassingEvents("QA", h) : e.tests = prs[h].names
              /\ prs[h].outcome = "passed"
              /\ \A k \in RowKinds : rows[h][k] # Nil /\ rows[h][k].decision = "APPROVED"
    /\ remote.merged # Nil => "STARTED" \in mergeAudit
    /\ "SUCCEEDED" \in mergeAudit => remote.merged # Nil
=============================================================================
