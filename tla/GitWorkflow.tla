---------------------------- MODULE GitWorkflow ----------------------------
(***************************************************************************)
(* The Git operations of agents on one workspace: GitWorkflow              *)
(* (src/core/git_workflow/workflow.py) over LocalGitProvider               *)
(* (src/infrastructure/git/local.py).  Each GitWorkflow object serializes  *)
(* its own operations under its own asyncio.Lock; two objects over one     *)
(* workspace, and whoever else works there, interleave between any two Git *)
(* processes.  One step is one Git process (or several reads of which any  *)
(* inconsistency fails the call) and the code after it up to the next.     *)
(***************************************************************************)
EXTENDS LocalGit

CONSTANTS
    Secrets,    \* contents the commit policy denies
    Grants,     \* what each instance's actor may do: subsets of {"read", "write"}
    Faults,     \* subset of {"interrupt", "audit", "crash"}
    BranchesOf, \* the task branches each instance is asked for
    CallsOf     \* bound: operations of each instance

ASSUME WorkflowAssumption ==
    /\ Secrets \subseteq Contents
    /\ Grants \in [Instances -> SUBSET {"read", "write"}]
    /\ Faults \subseteq {"interrupt", "audit", "crash"}
    /\ BranchesOf \in [Instances -> SUBSET TaskBranches]
    /\ CallsOf \in [Instances -> Nat]

VARIABLES
    call,        \* what each instance is doing
    calls,       \* operations each instance has left
    preps,       \* PullRequestPreparations returned to a caller
    passes,      \* those with a durable PASS of validate_merge_requirements
    claims,      \* commits returned to a caller
    raced,       \* history: instances under whose commit call HEAD was switched
    leftStaged   \* history: a call ended without its compensation

workflowVars == <<call, calls, preps, passes, claims, raced, leftStaged>>
vars == <<gitVars, workflowVars>>

Operations == {"read", "create", "commit", "prepare", "validate"}
Steps == {"idle", "look", "exists", "add", "inspect", "recheck", "act", "confirm",
          "ancestor", "base", "merges", "count", "compare", "restore"}

NoStatus == [branch |-> Base, head |-> 0, staged |-> FALSE, unstaged |-> FALSE, operation |-> FALSE]
NoPreparation == [branch |-> Base, head |-> 0, base |-> 0, count |-> 0, lines |-> 0]

\* prep: what a preparation has read so far, or what a validation is given
Idle == [op |-> "read", step |-> "idle", branch |-> Base, seen |-> NoStatus, prep |-> NoPreparation,
         count |-> 0, staged |-> FALSE, stale |-> FALSE, proven |-> FALSE]

WorkflowInit ==
    /\ call = [w \in Instances |-> Idle]
    /\ calls = CallsOf
    /\ preps = {}
    /\ passes = {}
    /\ claims = {}
    /\ raced = {}
    /\ leftStaged = FALSE

Preparations == [branch : Branches, head : 0..MaxCommits, base : 0..MaxCommits,
                 count : 0..MaxCommits, lines : Nat]

WorkflowTypeOK ==
    /\ \A w \in Instances :
          /\ call[w].op \in Operations /\ call[w].step \in Steps
          /\ call[w].branch \in Branches /\ call[w].prep \in Preparations
          /\ call[w].step = "idle" => call[w] = Idle
          /\ call[w].step = "restore" => call[w].staged
    /\ \A w \in Instances : calls[w] \in 0..CallsOf[w]
    /\ preps \subseteq Preparations /\ passes \subseteq preps
    /\ \A c \in claims : c.sha \in 1..Len(log) /\ c.by \in Instances
    /\ raced \subseteq Instances /\ leftStaged \in BOOLEAN

Fails(fault) == fault \in Faults
At(w, op, step) == call[w].op = op /\ call[w].step = step
GoTo(w, step) == call' = [call EXCEPT ![w].step = step]
Ends(w) == call' = [call EXCEPT ![w] = Idle]

-----------------------------------------------------------------------------
\* validate_read_authority and validate_write_authority, before anything else
May(w, op) ==
    IF op \in {"create", "commit", "prepare"} THEN "write" \in Grants[w] ELSE "read" \in Grants[w]

\* _evidence_reasons: the references of one request, each of one head
Evidence == [head : {"same", "other"}, reviewer : {"author", "other"}, passed : BOOLEAN]
Proves(e) == e.head = "same" /\ e.reviewer = "other" /\ e.passed

\* _execute takes the instance's lock and writes STARTED; without that record
\* nothing is run
Begin(w, op) ==
    /\ call[w].step = "idle" /\ calls[w] > 0 /\ May(w, op)
    /\ calls' = [calls EXCEPT ![w] = @ - 1]
    /\ raced' = raced \ {w}
    /\ UNCHANGED <<gitVars, preps, passes, claims, leftStaged>>

BeginOn(w, op, b) ==
    /\ Begin(w, op)
    /\ call' = [call EXCEPT ![w] = [Idle EXCEPT !.op = op, !.step = "look", !.branch = b]]

BeginValidation(w, p, e) ==
    /\ Begin(w, "validate")
    /\ call' = [call EXCEPT ![w] = [Idle EXCEPT !.op = "validate", !.step = "look", !.branch = p.branch,
                                                !.prep = p, !.proven = Proves(e)]]

StartUnaudited(w) ==
    /\ Fails("audit")
    /\ \E op \in Operations : Begin(w, op)
    /\ UNCHANGED call

\* The terminal record is written, and the caller gets the result; or it is
\* not, and the caller gets AUDIT_FAILED whatever was done
Reports(w, done) ==
    /\ Ends(w)
    /\ done \/ Fails("audit")

Completes(w) ==
    /\ \E done \in BOOLEAN : Reports(w, done)
    /\ UNCHANGED <<calls, preps, passes, claims, raced, leftStaged>>

\* Slip: a refusal after add does not restore the index.
FailWithoutRestore(w) == Completes(w)

\* An error: what was staged is unstaged before it is reported
Fail(w) ==
    IF call[w].staged
    THEN GoTo(w, "restore") /\ UNCHANGED <<calls, preps, passes, claims, raced, leftStaged>>
    ELSE Completes(w)

Continue(w, step) == GoTo(w, step) /\ UNCHANGED <<calls, preps, passes, claims, raced, leftStaged>>

-----------------------------------------------------------------------------
\* Slip: the commit HEAD is at does not matter.
OtherBranch(w) == Status.branch # call[w].prep.branch

\* A validation is given the preparation of another branch or commit
Outdated(w) == Status.branch # call[w].prep.branch \/ HeadSha # call[w].prep.head

\* Slip: the branch HEAD is on does not matter.
CommitLookAnyBranch(w) == ~Status.staged /\ ~Status.operation

\* What commit_changes wants of the first status
CommitLook(w) == Status.branch = call[w].branch /\ ~Status.staged /\ ~Status.operation

\* create_task_branch, and prepare_pull_request
CreateLook(w) == Clean(Status) /\ ~Status.operation /\ Status.branch = Base
PrepareLook(w) == Clean(Status) /\ ~Status.operation /\ Status.branch = call[w].branch

Remember(w, step) ==
    /\ LET prep == [call[w].prep EXCEPT !.branch = call[w].branch, !.head = HeadSha]
       IN  call' = [call EXCEPT ![w] = [call[w] EXCEPT !.step = step, !.seen = Status, !.prep = prep]]
    /\ UNCHANGED <<calls, preps, passes, claims, raced, leftStaged>>

Look(w) ==
    /\ call[w].step = "look"
    /\ CASE call[w].op = "read"    -> Completes(w)
         [] call[w].op = "create"  -> IF CreateLook(w) THEN Remember(w, "exists") ELSE Fail(w)
         [] call[w].op = "commit"  -> IF CommitLook(w) THEN Remember(w, "add") ELSE Fail(w)
         [] call[w].op = "prepare" -> IF PrepareLook(w) THEN Remember(w, "ancestor") ELSE Fail(w)
         [] OTHER -> \* validate_repository_state: dirty or merging is a BLOCK at once
              IF Clean(Status) /\ ~Status.operation
              THEN /\ call' = [call EXCEPT ![w].step = "base", ![w].seen = Status,
                                           ![w].stale = Outdated(w)]
                   /\ UNCHANGED <<calls, preps, passes, claims, raced, leftStaged>>
              ELSE Completes(w)
    /\ UNCHANGED gitVars

\* create_task_branch: check-ref-format and show-ref, the status again, switch -c
Exists(w) ==
    /\ At(w, "create", "exists")
    /\ IF refs[call[w].branch] # 0 THEN Fail(w) ELSE Continue(w, "recheck")
    /\ UNCHANGED gitVars

RecheckBranch(w) ==
    /\ At(w, "create", "recheck")
    /\ IF Status = call[w].seen THEN Continue(w, "act") ELSE Fail(w)
    /\ UNCHANGED gitVars

\* HEAD moves under whoever is committing
Switched(w, b) ==
    /\ SwitchToNew(b)
    /\ raced' = raced \cup {v \in Instances \ {w} : call[v].op = "commit" /\ call[v].step # "idle"}

SwitchBranch(w) ==
    /\ At(w, "create", "act")
    /\ IF refs[call[w].branch] = 0
       THEN /\ Switched(w, call[w].branch)
            /\ GoTo(w, "confirm")
            /\ UNCHANGED <<calls, preps, passes, claims, leftStaged>>
       ELSE Fail(w) /\ UNCHANGED gitVars

ConfirmBranch(w) ==
    /\ At(w, "create", "confirm")
    /\ Completes(w)  \* or STALE_STATE; the branch stays created
    /\ UNCHANGED gitVars

-----------------------------------------------------------------------------
\* Slip: that the paths are staged is not remembered.
AddUnremembered(w) ==
    /\ At(w, "commit", "add")
    /\ AddPaths
    /\ GoTo(w, "inspect")
    /\ UNCHANGED <<calls, preps, passes, claims, raced, leftStaged>>

\* commit_changes
Add(w) ==
    /\ At(w, "commit", "add")
    /\ AddPaths
    /\ call' = [call EXCEPT ![w].step = "inspect", ![w].staged = TRUE]
    /\ UNCHANGED <<calls, preps, passes, claims, raced, leftStaged>>

\* The staged diff: none, or one the policy denies
Inspect(w) ==
    /\ At(w, "commit", "inspect")
    /\ IF index # Tree(HeadSha) /\ index \notin Secrets THEN Continue(w, "recheck") ELSE Fail(w)
    /\ UNCHANGED gitVars

RecheckCommit(w) ==
    /\ At(w, "commit", "recheck")
    /\ IF Status.branch = call[w].seen.branch /\ HeadSha = call[w].seen.head
          /\ ~Status.operation /\ Status.staged
       THEN Continue(w, "act") ELSE Fail(w)
    /\ UNCHANGED gitVars

Commit(w) ==
    /\ At(w, "commit", "act")
    /\ \/ /\ CommitPaths(w)
          /\ call' = [call EXCEPT ![w].step = "confirm", ![w].staged = FALSE]
          /\ UNCHANGED <<calls, preps, passes, claims, raced, leftStaged>>
       \/ /\ ~MayCommitPaths
          /\ Fail(w)
          /\ UNCHANGED gitVars

\* Slip: HEAD is trusted to be the new commit.
ConfirmedBlindly(w) == TRUE

\* rev-parse, rev-list --parents and show, of HEAD: it must be a child of the
\* commit the call started from
Confirmed(w) == log[HeadSha].parents = {call[w].seen.head}

ConfirmCommit(w) ==
    /\ At(w, "commit", "confirm")
    /\ \/ /\ Confirmed(w)
          /\ Reports(w, TRUE)
          /\ claims' = claims \cup {[by |-> w, branch |-> call[w].branch, sha |-> HeadSha,
                                     raced |-> w \in raced]}
          /\ UNCHANGED <<calls, preps, passes, raced, leftStaged>>
       \/ /\ ~Confirmed(w) \/ Fails("audit")
          /\ Completes(w)
    /\ UNCHANGED gitVars

\* _restore_index
Restore(w) ==
    /\ call[w].step = "restore"
    /\ ResetPaths
    /\ Completes(w)

-----------------------------------------------------------------------------
\* prepare_pull_request reads the base, the commits and the comparison with
\* processes of their own, each of HEAD as it is by then
Ancestor(w) ==
    /\ call[w].step = "ancestor"
    /\ CASE call[w].op = "prepare" -> IF BaseIsAncestor THEN Continue(w, "base") ELSE Fail(w)
         [] OTHER -> /\ call' = [call EXCEPT ![w].step = "merges", ![w].stale = @ \/ ~BaseIsAncestor]
                     /\ UNCHANGED <<calls, preps, passes, claims, raced, leftStaged>>
    /\ UNCHANGED gitVars

ReadBase(w) ==
    /\ call[w].step = "base"
    /\ call' = IF call[w].op = "prepare"
               THEN [call EXCEPT ![w] = [call[w] EXCEPT !.step = "count",
                                           !.prep = [call[w].prep EXCEPT !.base = BaseSha]]]
               ELSE [call EXCEPT ![w].step = "ancestor", ![w].stale = @ \/ BaseSha # call[w].prep.base]
    /\ UNCHANGED <<calls, preps, passes, claims, raced, leftStaged, gitVars>>

\* validate_repository_state returns what it has before it compares anything
Merges(w) ==
    /\ At(w, "validate", "merges")
    /\ IF call[w].stale \/ MergePresent THEN Completes(w) ELSE Continue(w, "count")
    /\ UNCHANGED gitVars

\* commit_count, merge commits and history must agree
Count(w) ==
    /\ call[w].step = "count"
    /\ IF call[w].op = "prepare" /\ (Ahead = {} \/ MergePresent)
       THEN Fail(w)
       ELSE /\ call' = [call EXCEPT ![w].step = "compare", ![w].count = Cardinality(Ahead)]
            /\ UNCHANGED <<calls, preps, passes, claims, raced, leftStaged>>
    /\ UNCHANGED gitVars

\* The changed paths and numstat give the preparation its last fields
Prepare(w) ==
    /\ At(w, "prepare", "compare")
    /\ LET p == [call[w].prep EXCEPT !.count = call[w].count, !.lines = Change(BaseSha, HeadSha)]
       IN  \/ /\ p.lines # 0
              /\ Reports(w, TRUE)
              /\ preps' = preps \cup {p}
              /\ UNCHANGED <<calls, passes, claims, raced, leftStaged>>
           \/ /\ p.lines = 0 \/ Fails("audit")
              /\ Completes(w)
    /\ UNCHANGED gitVars

\* The preparation computed again has the checksum of the one given
Unchanged(w) == call[w].count = call[w].prep.count /\ Change(BaseSha, HeadSha) = call[w].prep.lines

Decide(w) ==
    /\ At(w, "validate", "compare")
    /\ \/ /\ Unchanged(w) /\ call[w].proven
          /\ Reports(w, TRUE)
          /\ passes' = passes \cup {call[w].prep}
          /\ UNCHANGED <<calls, preps, claims, raced, leftStaged>>
       \/ /\ ~Unchanged(w) \/ ~call[w].proven \/ Fails("audit")
          /\ Completes(w)
    /\ UNCHANGED gitVars

-----------------------------------------------------------------------------
\* The deadline of the operation or of a process passes, or the caller is
\* cancelled: the process is stopped, before or after it did its work
Interrupted(w) ==
    /\ Fails("interrupt")
    /\ call[w].step \notin {"idle", "add", "act", "restore"}
    /\ Fail(w)
    /\ UNCHANGED gitVars

\* git add was stopped: staged is still False, so nothing is restored
AddInterrupted(w) ==
    /\ Fails("interrupt")
    /\ At(w, "commit", "add")
    /\ AddPaths \/ UNCHANGED gitVars
    /\ Ends(w)
    /\ leftStaged' = (leftStaged \/ index' # index)
    /\ UNCHANGED <<calls, preps, passes, claims, raced>>

\* git switch was stopped
SwitchInterrupted(w) ==
    /\ Fails("interrupt")
    /\ At(w, "create", "act")
    /\ \/ refs[call[w].branch] = 0 /\ Switched(w, call[w].branch)
       \/ UNCHANGED <<gitVars, raced>>
    /\ Ends(w)
    /\ UNCHANGED <<calls, preps, passes, claims, leftStaged>>

\* git commit was stopped: committed is still False, so the index is restored
CommitInterrupted(w) ==
    /\ Fails("interrupt")
    /\ At(w, "commit", "act")
    /\ CommitPaths(w) \/ UNCHANGED gitVars
    /\ GoTo(w, "restore")
    /\ UNCHANGED <<calls, preps, passes, claims, raced, leftStaged>>

\* git reset failed or was stopped: COMPENSATION_FAILED
RestoreInterrupted(w) ==
    /\ Fails("interrupt")
    /\ call[w].step = "restore"
    /\ ResetPaths \/ UNCHANGED gitVars
    /\ Ends(w)
    /\ leftStaged' = (leftStaged \/ index' # Tree(HeadSha))
    /\ UNCHANGED <<calls, preps, passes, claims, raced>>

\* The process of the instance dies; the repository stays as it is
Dies(w) ==
    /\ Fails("crash")
    /\ call[w].step # "idle"
    /\ Ends(w)
    /\ leftStaged' = (leftStaged \/ call[w].staged)
    /\ UNCHANGED <<gitVars, calls, preps, passes, claims, raced>>

-----------------------------------------------------------------------------
Init == GitInit /\ WorkflowInit

Request(w) ==
    \/ BeginOn(w, "read", Base)
    \/ \E op \in {"create", "commit", "prepare"}, b \in BranchesOf[w] : BeginOn(w, op, b)
    \/ \E p \in preps, e \in Evidence : BeginValidation(w, p, e)
    \/ StartUnaudited(w)

Step(w) ==
    \/ Look(w) \/ Exists(w) \/ RecheckBranch(w) \/ SwitchBranch(w) \/ ConfirmBranch(w)
    \/ Add(w) \/ Inspect(w) \/ RecheckCommit(w) \/ Commit(w) \/ ConfirmCommit(w) \/ Restore(w)
    \/ Ancestor(w) \/ ReadBase(w) \/ Merges(w) \/ Count(w) \/ Prepare(w) \/ Decide(w)

Fault(w) ==
    \/ Interrupted(w) \/ AddInterrupted(w) \/ SwitchInterrupted(w)
    \/ CommitInterrupted(w) \/ RestoreInterrupted(w) \/ Dies(w)

Next ==
    \/ \E w \in Instances : Request(w) \/ Step(w) \/ Fault(w)
    \/ OutsiderStep /\ UNCHANGED workflowVars

Spec == Init /\ [][Next]_vars

-----------------------------------------------------------------------------
TypeOK == GitTypeOK /\ WorkflowTypeOK

\* A commit returned to a caller is the caller's own, and the only step from
\* the commit the call started at: two instances that commit at once cannot be
\* told each other's commit (the checks after git commit).
ReportedCommitIsOwn == \A c \in claims : log[c.sha].by = c.by

\* "Commits are allowed only on the exact branch derived from the active task"
\* (docs/git-workflow.md): no commit of an agent reaches the base, and one that
\* was returned is on the branch named, unless another instance created a
\* branch, and so moved HEAD, during the call.
CommitsLandOnTheirBranch ==
    /\ \A c \in Reach(BaseSha) : log[c].by = Outsider
    /\ \A c \in claims : ~c.raced => c.sha \in Reach(refs[c.branch])

\* "Failure after staging compensates the selected index entries": once every
\* call has ended, refused, interrupted or raced, nothing is left staged, unless
\* git add was stopped, the process died or the compensation itself failed.
IndexSettles ==
    (\A w \in Instances : call[w].step = "idle") /\ ~leftStaged /\ ~merging => index = Tree(HeadSha)

\* "An unchanged, clean task branch and protected base" (docs/git-workflow.md):
\* what got a PASS describes its head commit, the commits since its base and
\* what they change, however much was committed between the reads of its
\* preparation, and between those of the validation.
PassDescribesItsHead ==
    \A p \in passes :
        /\ p.count = Cardinality(RangeOf(p.base, p.head))
        /\ p.lines = Change(p.base, p.head)

=============================================================================
