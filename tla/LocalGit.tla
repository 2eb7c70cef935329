------------------------------ MODULE LocalGit ------------------------------
(***************************************************************************)
(* The repository of one managed workspace as the processes of             *)
(* LocalGitProvider (src/infrastructure/git/local.py) see and change it:   *)
(* branches, index, worktree and commits.  One content stands for the      *)
(* paths a commit selects.  Git itself is external; what is modelled of it *)
(* is what the provider's fixed argument vectors do.  Branches other than  *)
(* the checked-out one are only ever created: nothing under src/ checks    *)
(* out an existing branch.                                                 *)
(***************************************************************************)
EXTENDS Naturals, Sequences, FiniteSets

CONSTANTS
    Instances,     \* GitWorkflow objects composed over this workspace
    TaskBranches,  \* the branches derived from the tasks
    Base,          \* the protected branch
    Contents,      \* what the selected paths may hold
    Pristine,      \* what they hold in the first commit
    Numstat,       \* how many lines differ between two contents, as --numstat
                   \* counts them: contents that differ alike look alike
    Outsider,      \* who commits beside SynapseOS
    MaxCommits,    \* bound: commits in the repository
    MaxMeddling    \* bound: steps of the outsider

ASSUME GitAssumption ==
    /\ Base \notin TaskBranches
    /\ Pristine \in Contents
    /\ Numstat \in [Contents \X Contents -> Nat]
    /\ \A x, y \in Contents : Numstat[<<x, y>>] = 0 <=> x = y
    /\ Outsider \notin Instances
    /\ MaxCommits \in Nat \ {0}
    /\ MaxMeddling \in Nat

Branches == TaskBranches \cup {Base}
Shas == 1..MaxCommits

VARIABLES
    branch,    \* the branch HEAD names
    refs,      \* the commit of each branch, 0 while it does not exist
    log,       \* commits, each [parents, tree, by]
    index,     \* content of the selected paths in the index
    worktree,  \* and in the worktree
    merging,   \* MERGE_HEAD exists
    meddling   \* steps the outsider has left

gitVars == <<branch, refs, log, index, worktree, merging, meddling>>

GitInit ==
    /\ branch = Base
    /\ refs = [b \in Branches |-> IF b = Base THEN 1 ELSE 0]
    /\ log = <<[parents |-> {}, tree |-> Pristine, by |-> Outsider]>>
    /\ index = Pristine
    /\ worktree = Pristine
    /\ merging = FALSE
    /\ meddling = MaxMeddling

Commits == [parents : SUBSET Shas, tree : Contents, by : Instances \cup {Outsider}]

GitTypeOK ==
    /\ branch \in Branches
    /\ refs \in [Branches -> 0..Len(log)]
    /\ log \in Seq(Commits) /\ Len(log) <= MaxCommits
    /\ {index, worktree} \subseteq Contents
    /\ merging \in BOOLEAN
    /\ meddling \in 0..MaxMeddling

HeadSha == refs[branch]
Tree(c) == log[c].tree

\* c and its ancestors: what is in every set with c that is closed under parents
AncestorClosed(S) == \A c \in S : log[c].parents \subseteq S
Reach(c) ==
    {d \in 1..Len(log) :
        \A S \in SUBSET (1..Len(log)) : c \in S /\ AncestorClosed(S) => d \in S}

\* status --porcelain=v2 --branch, and the markers of an operation in progress
Status ==
    [branch |-> branch, head |-> HeadSha,
     staged |-> index # Tree(HeadSha), unstaged |-> worktree # index,
     operation |-> merging]

Clean(s) == ~s.staged /\ ~s.unstaged

\* rev-parse Base, and merge-base --is-ancestor Base HEAD
BaseSha == refs[Base]
BaseIsAncestor == BaseSha \in Reach(HeadSha)

\* base..head
RangeOf(base, head) == Reach(head) \ Reach(base)
Ahead == RangeOf(BaseSha, HeadSha)

\* rev-list --merges Base..HEAD
MergePresent == \E c \in Ahead : Cardinality(log[c].parents) > 1

\* The lines changed by base...head: from their best common ancestor to head
MergeBase(base, head) ==
    LET common == Reach(head) \cap Reach(base)
    IN  CHOOSE c \in common : \A d \in common : d <= c

Change(base, head) == Numstat[<<Tree(MergeBase(base, head)), Tree(head)>>]

\* switch -c b
SwitchToNew(b) ==
    /\ branch' = b
    /\ refs' = [refs EXCEPT ![b] = HeadSha]
    /\ UNCHANGED <<log, index, worktree, merging, meddling>>

\* add --all -- paths
AddPaths ==
    /\ index' = worktree
    /\ UNCHANGED <<branch, refs, log, worktree, merging, meddling>>

\* reset --quiet HEAD -- paths
ResetPaths ==
    /\ index' = Tree(HeadSha)
    /\ UNCHANGED <<branch, refs, log, worktree, merging, meddling>>

AppendCommit(parents, tree, by) ==
    /\ Len(log) < MaxCommits
    /\ log' = Append(log, [parents |-> parents, tree |-> tree, by |-> by])

\* Git refuses a partial commit during a merge, and one that changes nothing
MayCommitPaths == ~merging /\ worktree # Tree(HeadSha)

\* commit --only -- paths: what the worktree holds now, whatever was staged
CommitPaths(w) ==
    /\ MayCommitPaths
    /\ AppendCommit({HeadSha}, worktree, w)
    /\ refs' = [refs EXCEPT ![branch] = Len(log) + 1]
    /\ index' = worktree
    /\ UNCHANGED <<branch, worktree, merging, meddling>>

-----------------------------------------------------------------------------
\* What goes on beside the Git workflow, which no lock keeps out: the write
\* tools of an AgentRun edit, people advance the base and merge it.
Meddle == meddling > 0 /\ meddling' = meddling - 1

Edit(content) ==
    /\ Meddle
    /\ content # worktree
    /\ worktree' = content
    /\ UNCHANGED <<branch, refs, log, index, merging>>

AdvanceBase ==
    /\ Meddle
    /\ branch # Base
    /\ AppendCommit({BaseSha}, Tree(BaseSha), Outsider)
    /\ refs' = [refs EXCEPT ![Base] = Len(log) + 1]
    /\ UNCHANGED <<branch, index, worktree, merging>>

StartMerge ==
    /\ Meddle
    /\ ~BaseIsAncestor /\ ~merging /\ Clean(Status)
    /\ merging' = TRUE
    /\ UNCHANGED <<branch, refs, log, index, worktree>>

\* The merge commit takes the whole index, also what somebody staged since
FinishMerge ==
    /\ merging
    /\ AppendCommit({HeadSha, BaseSha}, index, Outsider)
    /\ refs' = [refs EXCEPT ![branch] = Len(log) + 1]
    /\ merging' = FALSE
    /\ UNCHANGED <<branch, index, worktree, meddling>>

OutsiderStep ==
    \/ \E content \in Contents : Edit(content)
    \/ AdvanceBase
    \/ StartMerge
    \/ FinishMerge

=============================================================================
