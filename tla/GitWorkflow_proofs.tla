------------------------- MODULE GitWorkflow_proofs -------------------------
(***************************************************************************)
(* Proofs about GitWorkflow, for every set of GitWorkflow objects over one *)
(* workspace, every content, and every mix of deadlines, failed audits and *)
(* deaths beside people who edit, commit and merge: a returned commit is   *)
(* the caller's own and on its branch, nothing stays staged, and what got  *)
(* a PASS describes one commit.                                            *)
(***************************************************************************)
EXTENDS GitWorkflow, FiniteSetTheorems, TLAPS

-----------------------------------------------------------------------------
\* The repository

\* A commit has parents that exist.
ParentsExist == \A c \in 1..Len(log) : log[c].parents \subseteq 1..Len(log)

\* All commits descend from the first.
RootIsReached == \A c \in 1..Len(log) : 1 \in Reach(c)

\* HEAD and the base name commits.
RefsExist == refs[branch] # 0 /\ refs[Base] # 0

\* Only a task branch is ever merged into.
MergesAreOffBase == merging => branch # Base

\* No agent's commit is on the base.
BaseIsForeign == \A c \in Reach(BaseSha) : log[c].by = Outsider

RepositoryOK ==
    /\ GitTypeOK
    /\ ParentsExist /\ RootIsReached /\ RefsExist /\ MergesAreOffBase /\ BaseIsForeign

-----------------------------------------------------------------------------
\* What a preparation says

\* A preparation describes its head: the commits and the change that belong
\* to it.
Describes(p) ==
    /\ p.count = Cardinality(RangeOf(p.base, p.head))
    /\ p.lines = Change(p.base, p.head)

\* It names commits that HEAD and the base have reached, and describes its head
\* as long as neither has moved on since.
PreparationOK(p) ==
    /\ p.head \in 1..HeadSha /\ p.base \in 1..BaseSha
    /\ p.head = HeadSha /\ p.base = BaseSha => Describes(p)

EvidenceOK ==
    /\ preps \subseteq Preparations /\ passes \subseteq preps
    /\ \A p \in preps : PreparationOK(p)
    /\ \A p \in passes : Describes(p)

-----------------------------------------------------------------------------
\* One call

Statuses == [branch : Branches, head : 0..MaxCommits, staged : BOOLEAN,
             unstaged : BOOLEAN, operation : BOOLEAN]

Calls == [op : Operations, step : Steps, branch : Branches, seen : Statuses,
          prep : Preparations, count : 0..MaxCommits, staged : BOOLEAN,
          stale : BOOLEAN, proven : BOOLEAN]

\* A call that is over has left nothing behind; one that changes the repository
\* is about a task branch; and a commit has its paths staged from git add to
\* git commit or to the compensation.
CallTypeOK(w) ==
    /\ call[w] \in Calls
    /\ call[w].step = "idle" => call[w] = Idle
    /\ call[w].step # "idle" /\ call[w].op \in {"create", "commit", "prepare"}
          => call[w].branch \in TaskBranches
    /\ call[w].staged <=> /\ call[w].op = "commit"
                          /\ call[w].step \in {"inspect", "recheck", "act", "restore"}
    /\ call[w].step = "restore" => call[w].op = "commit"

\* A commit knows where HEAD was, and HEAD only moves on: away from the branch
\* named only if another object created a branch meanwhile.  After git commit,
\* HEAD is past the commit the call started from; and a HEAD whose only parent
\* is that commit is the call's own.
CommittingOK(w) ==
    call[w].op = "commit" =>
        /\ call[w].step \in {"add", "inspect", "recheck", "act", "confirm"} =>
              /\ branch # Base
              /\ w \notin raced => branch = call[w].branch
              /\ call[w].seen.head <= HeadSha
        /\ call[w].step = "confirm" =>
              /\ call[w].seen.head < HeadSha
              /\ log[HeadSha].parents = {call[w].seen.head} => log[HeadSha].by = w

\* What a preparation under way has read so far
PreparingOK(w) ==
    call[w].op = "prepare" =>
        /\ call[w].step \in {"ancestor", "base", "count", "compare"}
              => call[w].prep.head \in 1..HeadSha
        /\ call[w].step \in {"count", "compare"} => call[w].prep.base \in 1..BaseSha
        /\ call[w].step = "compare" /\ call[w].prep.head = HeadSha /\ call[w].prep.base = BaseSha
              => call[w].count = Cardinality(Ahead)

\* What a validation that found nothing outdated so far may rely on
ValidatingOK(w) ==
    call[w].op = "validate" =>
        /\ call[w].prep \in preps
        /\ call[w].step = "base" /\ ~call[w].stale /\ call[w].prep.base = BaseSha
              => Describes(call[w].prep)
        /\ call[w].step \in {"ancestor", "merges"} /\ ~call[w].stale
              => Describes(call[w].prep)
        /\ call[w].step \in {"count", "compare"} => Describes(call[w].prep)

CallOK(w) == CallTypeOK(w) /\ CommittingOK(w) /\ PreparingOK(w) /\ ValidatingOK(w)

-----------------------------------------------------------------------------
\* All calls

\* What was returned to callers
ClaimsOK ==
    /\ claims \subseteq [by : Instances, branch : Branches, sha : 1..Len(log), raced : BOOLEAN]
    /\ \A c \in claims :
          /\ log[c.sha].by = c.by
          /\ ~c.raced => refs[c.branch] # 0 /\ c.sha \in Reach(refs[c.branch])

\* Why the index differs from HEAD, if it does
IndexExplained ==
    \/ index = Tree(HeadSha)
    \/ leftStaged \/ merging
    \/ \E w \in Instances : call[w].staged

CountersOK ==
    /\ calls \in [Instances -> Nat] /\ \A w \in Instances : calls[w] <= CallsOf[w]
    /\ raced \subseteq Instances /\ leftStaged \in BOOLEAN

CallsOK ==
    /\ call \in [Instances -> Calls]
    /\ \A w \in Instances : CallOK(w)

\* The inductive invariant
IInv == RepositoryOK /\ EvidenceOK /\ CallsOK /\ CountersOK /\ ClaimsOK /\ IndexExplained

-----------------------------------------------------------------------------
\* What the repository may do in one step, as the calls see it: commits and
\* their ancestors stay, branches only advance, HEAD moves on to children, and
\* does not return to the base.
GitMove ==
    /\ Len(log) <= Len(log')
    /\ \A c \in 1..Len(log) : log'[c] = log[c]
    /\ \A c \in 1..Len(log) : Reach(c)' = Reach(c)
    /\ \A b \in Branches : refs[b] # 0 => refs'[b] # 0 /\ Reach(refs[b]) \subseteq Reach(refs[b])'
    /\ HeadSha <= HeadSha' /\ BaseSha <= BaseSha'
    /\ HeadSha' # HeadSha => HeadSha \in log'[HeadSha'].parents
    /\ branch # Base => branch' # Base

-----------------------------------------------------------------------------
\* What is reachable

USE GitAssumption, WorkflowAssumption

\* A commit is its own ancestor, and its ancestors are commits.
LEMMA ReachHasSelf ==
    ASSUME NEW c \in 1..Len(log)
    PROVE  c \in Reach(c) /\ Reach(c) \subseteq 1..Len(log)
BY DEF Reach

\* A new commit adds to nobody else's ancestors; its own are itself and those
\* of its parents.
LEMMA ReachGrows ==
    ASSUME log \in Seq(Commits), ParentsExist, NEW e \in Commits,
           e.parents \subseteq 1..Len(log), log' = Append(log, e),
           NEW new, new = Len(log) + 1
    PROVE  /\ Len(log') = new /\ log'[new] = e
           /\ \A d \in 1..Len(log) : log'[d] = log[d]
           /\ \A c \in 1..Len(log) : Reach(c)' = Reach(c)
           /\ new \in Reach(new)'
           /\ \A p \in e.parents : Reach(p) \subseteq Reach(new)'
           /\ \A p : e.parents = {p} => Reach(new)' \subseteq Reach(p) \cup {new}
<1> DEFINE n == Len(log)
<1>1. /\ n \in Nat /\ new = n + 1
      /\ Len(log') = new /\ log'[new] = e
      /\ \A d \in 1..n : log'[d] = log[d]
    OBVIOUS
<1>2. 1..n \subseteq 1..new BY <1>1
<1>3. ASSUME NEW c \in 1..n, NEW d PROVE d \in Reach(c)' <=> d \in Reach(c)
    <2>1. ASSUME d \in Reach(c)' PROVE d \in Reach(c)
        <3>1. \A S \in SUBSET (1..Len(log')) :
                  c \in S /\ (\A x \in S : log'[x].parents \subseteq S) => d \in S
            BY <2>1 DEF Reach, AncestorClosed
        <3>2. \A x \in 1..n : log'[x].parents \subseteq 1..n BY <1>1 DEF ParentsExist
        <3>3. d \in 1..n BY <1>1, <1>2, <3>1, <3>2
        <3>4. ASSUME NEW S \in SUBSET (1..n), c \in S, \A x \in S : log[x].parents \subseteq S
              PROVE  d \in S
            <4>1. \A x \in S : log'[x].parents \subseteq S BY <1>1, <3>4
            <4> QED BY <1>1, <1>2, <3>1, <3>4, <4>1
        <3> QED BY <3>3, <3>4 DEF Reach, AncestorClosed
    <2>2. ASSUME d \in Reach(c) PROVE d \in Reach(c)'
        <3>1. /\ d \in 1..n
              /\ \A S \in SUBSET (1..n) :
                    c \in S /\ (\A x \in S : log[x].parents \subseteq S) => d \in S
            BY <2>2 DEF Reach, AncestorClosed
        <3>2. ASSUME NEW S \in SUBSET (1..Len(log')), c \in S,
                     \A x \in S : log'[x].parents \subseteq S
              PROVE  d \in S
            <4> DEFINE T == S \cap 1..n
            <4>1. \A x \in T : log[x].parents \subseteq T BY <1>1, <3>2 DEF ParentsExist
            <4>2. T \in SUBSET (1..n) /\ c \in T BY <3>2
            <4>3. d \in T BY <3>1, <4>1, <4>2
            <4> QED BY <4>3
        <3>3. d \in 1..Len(log') BY <1>1, <1>2, <3>1
        <3> QED BY <3>2, <3>3 DEF Reach, AncestorClosed
    <2> QED BY <2>1, <2>2
<1>4. ASSUME NEW c \in 1..n PROVE Reach(c)' = Reach(c)
    <2>1. \A d : d \in Reach(c)' <=> d \in Reach(c) BY <1>3
    <2>2. Reach(c)' \subseteq Reach(c) BY <2>1
    <2>3. Reach(c) \subseteq Reach(c)' BY <2>1
    <2> QED BY <2>2, <2>3
<1>5. new \in Reach(new)' BY <1>1 DEF Reach
<1>6. ASSUME NEW p \in e.parents, NEW d \in Reach(p) PROVE d \in Reach(new)'
    <2>1. p \in 1..n OBVIOUS
    <2>2. d \in Reach(p)' BY <1>3, <2>1
    <2>3. /\ d \in 1..Len(log')
          /\ \A S \in SUBSET (1..Len(log')) :
                p \in S /\ (\A x \in S : log'[x].parents \subseteq S) => d \in S
        BY <2>2 DEF Reach, AncestorClosed
    <2>4. ASSUME NEW S \in SUBSET (1..Len(log')), new \in S,
                 \A x \in S : log'[x].parents \subseteq S
          PROVE  d \in S
        <3>1. p \in S BY <1>1, <2>4
        <3> QED BY <2>3, <2>4, <3>1
    <2> QED BY <2>3, <2>4 DEF Reach, AncestorClosed
<1>7. ASSUME NEW p, e.parents = {p}, NEW d \in Reach(new)'
      PROVE  d \in Reach(p) \cup {new}
    <2>1. p \in 1..n BY <1>7
    <2> DEFINE S == Reach(p) \cup {new}
    <2>2. Reach(p) \subseteq 1..n /\ p \in Reach(p) BY <2>1, ReachHasSelf
    <2>3. S \in SUBSET (1..Len(log')) BY <1>1, <2>2
    <2>4. ASSUME NEW x \in Reach(p) PROVE log[x].parents \subseteq Reach(p)
        <3>1. x \in 1..n BY <2>2
        <3> SUFFICES ASSUME NEW y \in log[x].parents PROVE y \in Reach(p) OBVIOUS
        <3>2. y \in 1..n BY <3>1 DEF ParentsExist
        <3> QED BY <3>2 DEF Reach, AncestorClosed
    <2>5. \A x \in S : log'[x].parents \subseteq S BY <1>1, <1>7, <2>2, <2>4
    <2>6. \A T \in SUBSET (1..Len(log')) :
              new \in T /\ (\A x \in T : log'[x].parents \subseteq T) => d \in T
        BY <1>1, <1>7 DEF Reach, AncestorClosed
    <2> QED BY <2>3, <2>5, <2>6
<1> QED BY <1>1, <1>4, <1>5, <1>6, <1>7

\* HEAD and the base are commits.
LEMMA HeadsAreCommits ==
    ASSUME RepositoryOK
    PROVE  /\ Len(log) \in Nat /\ Len(log) <= MaxCommits
           /\ HeadSha \in 1..Len(log) /\ BaseSha \in 1..Len(log)
           /\ \A c \in 1..Len(log) : log[c] \in Commits /\ Tree(c) \in Contents
           /\ Tree(HeadSha) \in Contents
           /\ branch \in Branches /\ Base \in Branches
           /\ \A b \in Branches : refs[b] \in 0..Len(log)
<1>1. branch \in Branches /\ Base \in Branches BY DEF RepositoryOK, GitTypeOK, Branches
<1>2. log \in Seq(Commits) /\ Len(log) \in Nat /\ Len(log) <= MaxCommits
    BY DEF RepositoryOK, GitTypeOK
<1>3. \A b \in Branches : refs[b] \in 0..Len(log) BY DEF RepositoryOK, GitTypeOK
<1>4. HeadSha \in 1..Len(log) /\ BaseSha \in 1..Len(log)
    BY <1>1, <1>2, <1>3 DEF RepositoryOK, RefsExist, HeadSha, BaseSha
<1>5. \A c \in 1..Len(log) : log[c] \in Commits /\ Tree(c) \in Contents
    <2>1. \A c \in 1..Len(log) : log[c] \in Commits BY <1>2
    <2>2. \A e \in Commits : e.tree \in Contents BY DEF Commits
    <2> QED BY <2>1, <2>2 DEF Tree
<1> QED BY <1>1, <1>2, <1>3, <1>4, <1>5

\* So are they after a step.
LEMMA HeadsAreCommitsNext ==
    ASSUME RepositoryOK'
    PROVE  Len(log') \in Nat /\ HeadSha' \in 1..Len(log') /\ BaseSha' \in 1..Len(log')
<1>1. branch' \in Branches /\ Base \in Branches BY DEF RepositoryOK, GitTypeOK, Branches
<1>2. log' \in Seq(Commits) /\ Len(log') \in Nat BY DEF RepositoryOK, GitTypeOK
<1>3. \A b \in Branches : refs'[b] \in 0..Len(log') BY DEF RepositoryOK, GitTypeOK
<1> QED BY <1>1, <1>2, <1>3 DEF RepositoryOK, RefsExist, HeadSha, BaseSha

-----------------------------------------------------------------------------
\* What Git processes do to the repository

\* What moves no reference leaves the commits alone.
LEMMA SameRefsMove ==
    ASSUME RepositoryOK, UNCHANGED <<branch, refs, log>>,
           index' \in Contents, worktree' \in Contents, merging' \in BOOLEAN,
           merging' => branch # Base, meddling' \in 0..MaxMeddling
    PROVE  RepositoryOK' /\ GitMove
<1>1. Len(log) \in Nat /\ HeadSha \in Nat /\ BaseSha \in Nat BY HeadsAreCommits
<1>2. HeadSha' = HeadSha /\ BaseSha' = BaseSha BY DEF HeadSha, BaseSha
<1>3. \A c : Reach(c)' = Reach(c) BY DEF Reach, AncestorClosed
<1>4. \A b : Reach(refs[b])' = Reach(refs[b]) BY DEF Reach, AncestorClosed
<1>5. GitTypeOK' BY DEF RepositoryOK, GitTypeOK
<1>6. BaseIsForeign'
    <2>1. Reach(BaseSha)' = Reach(BaseSha) BY DEF Reach, AncestorClosed, BaseSha
    <2> QED BY <2>1 DEF RepositoryOK, BaseIsForeign
<1>7. ParentsExist' /\ RootIsReached' /\ RefsExist' /\ MergesAreOffBase'
    BY <1>3 DEF RepositoryOK, ParentsExist, RootIsReached, RefsExist, MergesAreOffBase
<1>8. RepositoryOK' BY <1>5, <1>6, <1>7 DEF RepositoryOK
<1>9. GitMove BY <1>1, <1>2, <1>3, <1>4 DEF GitMove
<1> QED BY <1>8, <1>9

\* A process that only reads.
LEMMA ReadMove ==
    ASSUME RepositoryOK, UNCHANGED gitVars
    PROVE  RepositoryOK' /\ GitMove
<1>1. /\ UNCHANGED <<branch, refs, log>>
      /\ index' \in Contents /\ worktree' \in Contents /\ merging' \in BOOLEAN
      /\ merging' => branch # Base
      /\ meddling' \in 0..MaxMeddling
    BY DEF gitVars, RepositoryOK, GitTypeOK, MergesAreOffBase
<1> QED BY <1>1, SameRefsMove

\* git add
LEMMA AddMove ==
    ASSUME RepositoryOK, AddPaths
    PROVE  RepositoryOK' /\ GitMove
<1>1. /\ UNCHANGED <<branch, refs, log>>
      /\ index' \in Contents /\ worktree' \in Contents /\ merging' \in BOOLEAN
      /\ merging' => branch # Base
      /\ meddling' \in 0..MaxMeddling
    BY DEF AddPaths, RepositoryOK, GitTypeOK, MergesAreOffBase
<1> QED BY <1>1, SameRefsMove

\* git reset of the selected paths
LEMMA ResetMove ==
    ASSUME RepositoryOK, ResetPaths
    PROVE  RepositoryOK' /\ GitMove
<1>1. index' \in Contents BY HeadsAreCommits DEF ResetPaths
<1>2. /\ UNCHANGED <<branch, refs, log>>
      /\ worktree' \in Contents /\ merging' \in BOOLEAN
      /\ merging' => branch # Base
      /\ meddling' \in 0..MaxMeddling
    BY DEF ResetPaths, RepositoryOK, GitTypeOK, MergesAreOffBase
<1> QED BY <1>1, <1>2, SameRefsMove

\* A new branch starts at HEAD.
LEMMA SwitchMove ==
    ASSUME RepositoryOK, NEW b \in TaskBranches, refs[b] = 0, SwitchToNew(b)
    PROVE  RepositoryOK' /\ GitMove /\ HeadSha' = HeadSha
<1>1. b \in Branches /\ b # Base BY DEF Branches
<1>2. refs' \in [Branches -> 0..Len(log)]
    BY <1>1, HeadsAreCommits DEF RepositoryOK, GitTypeOK, SwitchToNew
<1>3. \A c \in Branches : refs'[c] = IF c = b THEN HeadSha ELSE refs[c]
    BY DEF RepositoryOK, GitTypeOK, SwitchToNew
<1>4. HeadSha' = HeadSha /\ BaseSha' = BaseSha
    BY <1>1, <1>3, HeadsAreCommits DEF SwitchToNew, HeadSha, BaseSha
<1>5. \A c : Reach(c)' = Reach(c) BY DEF Reach, AncestorClosed, SwitchToNew
<1>6. \A c \in Branches : refs[c] # 0 => refs'[c] = refs[c] BY <1>3
<1>7. ASSUME NEW c \in Branches, refs[c] # 0 PROVE Reach(refs[c])' = Reach(refs[c])
    BY <1>6, <1>7 DEF Reach, AncestorClosed, SwitchToNew
<1>8. GitTypeOK' BY <1>1, <1>2 DEF RepositoryOK, GitTypeOK, SwitchToNew
<1>9. ParentsExist' /\ RootIsReached' /\ MergesAreOffBase'
    BY <1>1, <1>5 DEF RepositoryOK, ParentsExist, RootIsReached, MergesAreOffBase, SwitchToNew
<1>10. RefsExist'
    BY <1>1, <1>3, HeadsAreCommits DEF RepositoryOK, RefsExist, SwitchToNew
<1>11. BaseIsForeign'
    <2>1. Reach(BaseSha)' = Reach(BaseSha) BY <1>4 DEF Reach, AncestorClosed, SwitchToNew
    <2> QED BY <2>1 DEF RepositoryOK, BaseIsForeign, SwitchToNew
<1>12. RepositoryOK' BY <1>8, <1>9, <1>10, <1>11 DEF RepositoryOK
<1>13. GitMove
    <2>1. HeadSha \in Nat /\ BaseSha \in Nat /\ Len(log) \in Nat BY HeadsAreCommits
    <2>2. log' = log /\ branch' # Base BY <1>1 DEF SwitchToNew
    <2> QED BY <1>4, <1>5, <1>6, <1>7, <2>1, <2>2 DEF GitMove
<1> QED BY <1>4, <1>12, <1>13

\* A commit on the branch HEAD names, or one of a person on the base, advances
\* that branch to a child of where it was.
LEMMA CommitMove ==
    ASSUME RepositoryOK, NEW b \in Branches, NEW e \in Commits,
           Len(log) < MaxCommits, log' = Append(log, e),
           refs' = [refs EXCEPT ![b] = Len(log) + 1], branch' = branch,
           e.parents \subseteq 1..Len(log), refs[b] \in e.parents, refs[b] # 0,
           b = Base => e.by = Outsider /\ e.parents = {BaseSha},
           index' \in Contents, worktree' \in Contents, merging' \in BOOLEAN,
           merging' => branch # Base, meddling' \in 0..MaxMeddling
    PROVE  /\ RepositoryOK' /\ GitMove
           /\ Len(log') = Len(log) + 1 /\ log'[Len(log) + 1] = e
           /\ \A c \in Branches : refs'[c] = IF c = b THEN Len(log) + 1 ELSE refs[c]
<1> DEFINE new == Len(log) + 1
<1>0. PICK n : n = new OBVIOUS
<1>1. /\ Len(log) \in Nat /\ HeadSha \in 1..Len(log) /\ BaseSha \in 1..Len(log)
      /\ branch \in Branches /\ Base \in Branches
      /\ \A c \in Branches : refs[c] \in 0..Len(log)
    BY HeadsAreCommits
<1>2. log \in Seq(Commits) /\ ParentsExist BY DEF RepositoryOK, GitTypeOK
<1>3. /\ Len(log') = n /\ log'[n] = e
      /\ \A c \in 1..Len(log) : log'[c] = log[c]
      /\ \A c \in 1..Len(log) : Reach(c)' = Reach(c)
      /\ n \in Reach(n)'
      /\ \A p \in e.parents : Reach(p) \subseteq Reach(n)'
      /\ \A p : e.parents = {p} => Reach(n)' \subseteq Reach(p) \cup {n}
    BY <1>0, <1>2, ReachGrows
<1>4. \A c \in Branches : refs'[c] = IF c = b THEN n ELSE refs[c]
    BY <1>0 DEF RepositoryOK, GitTypeOK
<1>5. GitTypeOK'
    <2>1. log' \in Seq(Commits) /\ Len(log') <= MaxCommits BY <1>0, <1>1, <1>2, <1>3
    <2>2. refs' \in [Branches -> 0..Len(log')]
        <3>1. refs' \in [Branches -> 0..n] BY <1>0, <1>1 DEF RepositoryOK, GitTypeOK
        <3> QED BY <1>3, <3>1
    <2> QED BY <2>1, <2>2 DEF RepositoryOK, GitTypeOK
<1>6. ParentsExist'
    <2>1. \A c \in 1..n : c = n \/ c \in 1..Len(log) BY <1>0, <1>1
    <2>2. 1..Len(log) \subseteq 1..n BY <1>0, <1>1
    <2>3. \A c \in 1..n : log'[c].parents \subseteq 1..n
        BY <1>2, <1>3, <2>1, <2>2 DEF ParentsExist
    <2> QED BY <1>3, <2>3 DEF ParentsExist
<1>7. RefsExist' BY <1>0, <1>1, <1>4 DEF RepositoryOK, RefsExist
<1>8. MergesAreOffBase' BY DEF MergesAreOffBase
<1>9. BaseSha' = IF b = Base THEN n ELSE BaseSha BY <1>1, <1>4 DEF BaseSha
<1>10. HeadSha' = IF b = branch THEN n ELSE HeadSha BY <1>1, <1>4 DEF HeadSha
<1>11. ASSUME NEW c \in Branches, refs[c] # 0
       PROVE  Reach(refs[c]) \subseteq Reach(refs[c])'
    <2>1. refs[c] \in 1..Len(log) BY <1>1, <1>11
    <2>2. PICK r : r = refs'[c] OBVIOUS
    <2>3. Reach(refs[c])' = Reach(r)' BY <2>2 DEF Reach, AncestorClosed
    <2>4. CASE c = b BY <1>3, <1>4, <2>2, <2>3, <2>4
    <2>5. CASE c # b
        <3>1. r = refs[c] /\ r \in 1..Len(log) BY <1>4, <2>1, <2>2, <2>5
        <3> QED BY <1>3, <2>3, <3>1
    <2> QED BY <2>4, <2>5
<1>12. BaseIsForeign'
    <2>1. PICK r : r = BaseSha' OBVIOUS
    <2>2. PICK s : s = BaseSha OBVIOUS
    <2>3. Reach(BaseSha)' = Reach(r)' BY <2>1 DEF Reach, AncestorClosed, BaseSha
    <2>4. \A c \in Reach(s) : c \in 1..Len(log) /\ log[c].by = Outsider
        BY <1>1, <2>2, ReachHasSelf DEF RepositoryOK, BaseIsForeign
    <2>5. CASE b = Base
        <3>1. Reach(r)' \subseteq Reach(s) \cup {n} BY <1>3, <1>9, <2>1, <2>2, <2>5
        <3>2. \A c \in Reach(r)' : log'[c].by = Outsider BY <1>3, <2>4, <2>5, <3>1
        <3> QED BY <2>3, <3>2 DEF BaseIsForeign
    <2>6. CASE b # Base
        <3>1. r = s /\ s \in 1..Len(log) BY <1>1, <1>9, <2>1, <2>2, <2>6
        <3>2. Reach(r)' = Reach(s) BY <1>3, <3>1
        <3>3. \A c \in Reach(r)' : log'[c].by = Outsider BY <1>3, <2>4, <3>2
        <3> QED BY <2>3, <3>3 DEF BaseIsForeign
    <2> QED BY <2>5, <2>6
<1>13. RootIsReached'
    <2> SUFFICES ASSUME NEW c \in 1..n PROVE 1 \in Reach(c)'
        BY <1>3 DEF RootIsReached
    <2>1. \A d \in 1..Len(log) : 1 \in Reach(d) BY DEF RepositoryOK, RootIsReached
    <2>2. CASE c \in 1..Len(log)
        <3>1. Reach(c)' = Reach(c) BY <1>3, <2>2
        <3> QED BY <2>1, <2>2, <3>1
    <2>3. CASE c \notin 1..Len(log)
        <3>1. c = n BY <1>0, <1>1, <2>3
        <3>2. PICK p \in e.parents : TRUE OBVIOUS
        <3>3. p \in 1..Len(log) /\ Reach(p) \subseteq Reach(n)' BY <1>3
        <3> QED BY <2>1, <3>1, <3>3
    <2> QED BY <2>2, <2>3
<1>14. RepositoryOK' BY <1>5, <1>6, <1>7, <1>8, <1>12, <1>13 DEF RepositoryOK
<1>15. GitMove
    <2>1. \A c \in Branches : refs[c] # 0 => refs'[c] # 0 BY <1>0, <1>1, <1>4
    <2>2. HeadSha <= HeadSha' /\ BaseSha <= BaseSha' BY <1>0, <1>1, <1>9, <1>10
    <2>3. HeadSha' # HeadSha => HeadSha \in log'[HeadSha'].parents
        BY <1>3, <1>10 DEF HeadSha
    <2>4. Len(log) <= Len(log') BY <1>0, <1>1, <1>3
    <2> QED BY <1>3, <1>11, <2>1, <2>2, <2>3, <2>4 DEF GitMove
<1> QED BY <1>0, <1>3, <1>4, <1>14, <1>15

\* git commit --only, by agent w on a task branch: HEAD is now w's own commit,
\* and the index is what was committed.
LEMMA CommitPathsMove ==
    ASSUME RepositoryOK, branch # Base, NEW w \in Instances, CommitPaths(w)
    PROVE  /\ RepositoryOK' /\ GitMove
           /\ HeadSha < HeadSha'
           /\ log'[HeadSha'].by = w /\ log'[HeadSha'].parents = {HeadSha}
           /\ index' = Tree(HeadSha)'
<1> DEFINE e == [parents |-> {HeadSha}, tree |-> worktree, by |-> w]
<1>1. /\ Len(log) \in Nat /\ Len(log) <= MaxCommits
      /\ HeadSha \in 1..Len(log) /\ branch \in Branches
    BY HeadsAreCommits
<1>2. /\ Len(log) < MaxCommits /\ log' = Append(log, e)
      /\ refs' = [refs EXCEPT ![branch] = Len(log) + 1] /\ branch' = branch
      /\ index' = worktree /\ worktree' = worktree /\ merging' = merging
      /\ meddling' = meddling
    BY DEF CommitPaths, AppendCommit
<1>3. e \in Commits /\ e.parents \subseteq 1..Len(log) /\ HeadSha \in e.parents
    <2>1. HeadSha \in Shas /\ worktree \in Contents
        BY <1>1 DEF Shas, RepositoryOK, GitTypeOK
    <2> QED BY <1>1, <2>1 DEF Commits
<1>4. e.parents = {HeadSha} /\ e.tree = worktree /\ e.by = w OBVIOUS
<1> HIDE DEF e
<1>5. refs[branch] \in e.parents /\ refs[branch] # 0
    BY <1>3 DEF HeadSha, RepositoryOK, RefsExist
<1>6. /\ index' \in Contents /\ worktree' \in Contents /\ merging' \in BOOLEAN
      /\ merging' => branch # Base
      /\ meddling' \in 0..MaxMeddling
    BY <1>2 DEF RepositoryOK, GitTypeOK
<1>7. /\ RepositoryOK' /\ GitMove
      /\ Len(log') = Len(log) + 1 /\ log'[Len(log) + 1] = e
      /\ \A c \in Branches : refs'[c] = IF c = branch THEN Len(log) + 1 ELSE refs[c]
    BY <1>1, <1>2, <1>3, <1>5, <1>6, CommitMove
<1>8. HeadSha' = Len(log) + 1 BY <1>1, <1>2, <1>7 DEF HeadSha
<1>9. Tree(HeadSha)' = worktree BY <1>4, <1>7, <1>8 DEF Tree
<1> QED BY <1>1, <1>2, <1>4, <1>7, <1>8, <1>9

\* What people and write tools do beside the workflow: the index differs from
\* HEAD afterwards only if it did before, or a merge is under way.
LEMMA OutsiderMove ==
    ASSUME RepositoryOK, OutsiderStep
    PROVE  /\ RepositoryOK' /\ GitMove /\ branch' = branch
           /\ \/ merging' \/ index' = Tree(HeadSha)'
              \/ ~merging /\ index' = index /\ Tree(HeadSha)' = Tree(HeadSha)
<1> USE HeadsAreCommits
<1>1. ASSUME NEW content \in Contents, Edit(content)
      PROVE  /\ RepositoryOK' /\ GitMove /\ branch' = branch
             /\ merging' = merging /\ index' = index /\ Tree(HeadSha)' = Tree(HeadSha)
    <2>1. /\ UNCHANGED <<branch, refs, log>>
          /\ index' \in Contents /\ worktree' \in Contents /\ merging' \in BOOLEAN
          /\ merging' => branch # Base
          /\ meddling' \in 0..MaxMeddling
        BY <1>1 DEF Edit, Meddle, RepositoryOK, GitTypeOK, MergesAreOffBase
    <2> QED BY <1>1, <2>1, SameRefsMove DEF Edit, Tree, HeadSha
<1>2. CASE StartMerge
    <2>1. branch # Base
        BY <1>2, ReachHasSelf DEF StartMerge, BaseIsAncestor, BaseSha, HeadSha
    <2>2. /\ UNCHANGED <<branch, refs, log>>
          /\ index' \in Contents /\ worktree' \in Contents /\ merging' \in BOOLEAN
          /\ meddling' \in 0..MaxMeddling
        BY <1>2 DEF StartMerge, Meddle, RepositoryOK, GitTypeOK
    <2> QED BY <1>2, <2>1, <2>2, SameRefsMove DEF StartMerge
<1>3. CASE AdvanceBase
    <2> DEFINE e == [parents |-> {BaseSha}, tree |-> Tree(BaseSha), by |-> Outsider]
    <2>1. /\ branch # Base
          /\ Len(log) < MaxCommits /\ log' = Append(log, e)
          /\ refs' = [refs EXCEPT ![Base] = Len(log) + 1] /\ branch' = branch
          /\ index' = index /\ worktree' = worktree /\ merging' = merging
          /\ meddling' \in 0..MaxMeddling
        BY <1>3 DEF AdvanceBase, AppendCommit, Meddle, RepositoryOK, GitTypeOK
    <2>2. e \in Commits /\ e.parents \subseteq 1..Len(log)
        <3>1. BaseSha \in Shas /\ Tree(BaseSha) \in Contents BY DEF Shas
        <3> QED BY <3>1 DEF Commits
    <2>3. e.parents = {BaseSha} /\ e.by = Outsider OBVIOUS
    <2> HIDE DEF e
    <2>4. BaseSha = refs[Base] /\ refs[Base] # 0 BY DEF BaseSha, RepositoryOK, RefsExist
    <2>5. /\ index' \in Contents /\ worktree' \in Contents /\ merging' \in BOOLEAN
          /\ merging' => branch # Base
        BY <2>1 DEF RepositoryOK, GitTypeOK
    <2>6. /\ RepositoryOK' /\ GitMove
          /\ \A c \in Branches : refs'[c] = IF c = Base THEN Len(log) + 1 ELSE refs[c]
        BY <2>1, <2>2, <2>3, <2>4, <2>5, CommitMove
    <2>7. HeadSha' = HeadSha BY <2>1, <2>6 DEF HeadSha
    <2>8. Tree(HeadSha)' = Tree(HeadSha) BY <2>6, <2>7 DEF Tree, GitMove
    <2> QED BY <2>1, <2>6, <2>8
<1>4. CASE FinishMerge
    <2> DEFINE e == [parents |-> {HeadSha, BaseSha}, tree |-> index, by |-> Outsider]
    <2>1. /\ branch # Base
          /\ Len(log) < MaxCommits /\ log' = Append(log, e)
          /\ refs' = [refs EXCEPT ![branch] = Len(log) + 1] /\ branch' = branch
          /\ index' = index /\ worktree' = worktree /\ merging' = FALSE
          /\ meddling' = meddling
        BY <1>4 DEF FinishMerge, AppendCommit, RepositoryOK, MergesAreOffBase
    <2>2. e \in Commits /\ e.parents \subseteq 1..Len(log)
        <3>1. BaseSha \in Shas /\ HeadSha \in Shas /\ index \in Contents
            BY DEF Shas, RepositoryOK, GitTypeOK
        <3> QED BY <3>1 DEF Commits
    <2>3. HeadSha \in e.parents /\ e.tree = index OBVIOUS
    <2> HIDE DEF e
    <2>4. HeadSha = refs[branch] /\ refs[branch] # 0 BY DEF HeadSha, RepositoryOK, RefsExist
    <2>5. /\ index' \in Contents /\ worktree' \in Contents /\ merging' \in BOOLEAN
          /\ ~merging' /\ meddling' \in 0..MaxMeddling
        BY <2>1 DEF RepositoryOK, GitTypeOK
    <2>6. /\ RepositoryOK' /\ GitMove
          /\ Len(log') = Len(log) + 1 /\ log'[Len(log) + 1] = e
          /\ \A c \in Branches : refs'[c] = IF c = branch THEN Len(log) + 1 ELSE refs[c]
        BY <2>1, <2>2, <2>3, <2>4, <2>5, CommitMove
    <2>7. HeadSha' = Len(log) + 1 BY <2>1, <2>6 DEF HeadSha
    <2>8. Tree(HeadSha)' = index BY <2>3, <2>6, <2>7 DEF Tree
    <2> QED BY <2>1, <2>6, <2>8
<1> QED BY <1>1, <1>2, <1>3, <1>4 DEF OutsiderStep

-----------------------------------------------------------------------------
\* What a preparation says stays true

\* A finite set of numbers has a greatest.
LEMMA GreatestExists ==
    ASSUME NEW S \in SUBSET Nat, IsFiniteSet(S), S # {}
    PROVE  \E m \in S : \A d \in S : d <= m
<1> DEFINE R == StrictSubsetOrdering(Nat)
           T == {A \in FiniteSubsetsOf(Nat) : A # {} /\ ~\E m \in A : \A d \in A : d <= m}
<1> SUFFICES ASSUME T # {} PROVE FALSE
    BY DEF FiniteSubsetsOf
<1>1. IsWellFoundedOn(R, FiniteSubsetsOf(Nat)) BY FS_StrictSubsetOrderingWellFounded
<1>2. T \subseteq FiniteSubsetsOf(Nat) OBVIOUS
<1>3. PICK A \in T : \A B \in T : <<B, A>> \notin R
    <2> HIDE DEF R, T
    <2> QED BY <1>1, <1>2, WFMin
<1>4. /\ A \in SUBSET Nat /\ IsFiniteSet(A) /\ A # {}
      /\ ~\E m \in A : \A d \in A : d <= m
    BY DEF FiniteSubsetsOf
<1>5. PICK x \in A : TRUE BY <1>4
<1> DEFINE B == A \ {x}
<1>6. IsFiniteSet(B) /\ B \in SUBSET Nat
    <2> HIDE DEF R, T
    <2>1. B \subseteq A OBVIOUS
    <2> HIDE DEF B
    <2>2. B \in SUBSET A /\ IsFiniteSet(A) BY <1>4, <2>1
    <2>3. IsFiniteSet(B) BY <2>2, FS_Subset
    <2> QED BY <1>4, <2>1, <2>3
<1>7. <<B, A>> \in R
    <2>1. B \subseteq A /\ B # A BY <1>5
    <2> HIDE DEF T, B
    <2> QED BY <1>4, <1>6, <2>1 DEF StrictSubsetOrdering
<1>8. B \notin T BY <1>3, <1>7
<1>9. CASE B = {}
    <2>1. \A d \in A : d <= x BY <1>4, <1>5, <1>9
    <2> QED BY <1>4, <1>5, <2>1
<1>10. CASE B # {}
    <2>1. PICK m \in B : \A d \in B : d <= m BY <1>6, <1>8, <1>10 DEF FiniteSubsetsOf
    <2>2. m \in A /\ m \in Nat /\ x \in Nat BY <1>4, <1>5, <2>1
    <2>3. CASE x <= m
        <3>1. \A d \in A : d <= m BY <2>1, <2>3
        <3> QED BY <1>4, <2>2, <3>1
    <2>4. CASE ~(x <= m)
        <3>1. \A d \in A : d \in Nat BY <1>4
        <3>2. \A d \in A : d <= x BY <2>1, <2>2, <2>4, <3>1
        <3> QED BY <1>4, <1>5, <3>2
    <2> QED BY <2>3, <2>4
<1> QED BY <1>9, <1>10

\* The best common ancestor of two commits is a commit.
LEMMA MergeBaseIsCommit ==
    ASSUME RepositoryOK, NEW h \in 1..Len(log), NEW b \in 1..Len(log)
    PROVE  MergeBase(b, h) \in 1..Len(log)
<1> DEFINE common == Reach(h) \cap Reach(b)
<1>1. Len(log) \in Nat BY HeadsAreCommits
<1>2. common \subseteq 1..Len(log) BY ReachHasSelf
<1>3. common \in SUBSET Nat /\ IsFiniteSet(common)
    <2>1. IsFiniteSet(1..Len(log)) BY <1>1, FS_Interval
    <2>2. IsFiniteSet(common) BY <1>2, <2>1, FS_Subset
    <2> QED BY <1>2, <2>2
<1>4. common # {} BY DEF RepositoryOK, RootIsReached
<1>5. MergeBase(b, h) = CHOOSE c \in common : \A d \in common : d <= c BY DEF MergeBase
<1> HIDE DEF common
<1>6. \E c \in common : \A d \in common : d <= c BY <1>3, <1>4, GreatestExists
<1>7. MergeBase(b, h) \in common BY <1>5, <1>6
<1> QED BY <1>2, <1>7

\* However the repository moves, the commits between two commits and the change
\* from one to the other stay what they are.
LEMMA DescriptionStays ==
    ASSUME RepositoryOK, GitMove, NEW p, p.head \in 1..Len(log), p.base \in 1..Len(log)
    PROVE  Describes(p)' <=> Describes(p)
<1>0. PICK h \in 1..Len(log), b \in 1..Len(log) : h = p.head /\ b = p.base OBVIOUS
<1>1. Reach(h)' = Reach(h) /\ Reach(b)' = Reach(b) BY DEF GitMove
<1>2. RangeOf(b, h)' = RangeOf(b, h) BY <1>1 DEF RangeOf
<1>3. MergeBase(b, h)' = MergeBase(b, h) BY <1>1 DEF MergeBase
<1>4. \A c \in 1..Len(log) : Tree(c)' = Tree(c) BY DEF GitMove, Tree
<1>5. Change(b, h)' = Change(b, h)
    <2>1. PICK f \in 1..Len(log) : f = MergeBase(b, h) BY MergeBaseIsCommit
    <2>2. Change(b, h) = Numstat[<<Tree(f), Tree(h)>>] BY <2>1 DEF Change
    <2>3. Change(b, h)' = Numstat[<<Tree(f)', Tree(h)'>>] BY <1>3, <2>1 DEF Change, Tree
    <2> QED BY <1>4, <2>2, <2>3
<1> QED BY <1>0, <1>2, <1>5 DEF Describes

\* How many commits HEAD is ahead of the base is a number within the bound.
LEMMA AheadIsCounted ==
    ASSUME RepositoryOK
    PROVE  /\ Cardinality(Ahead) \in 0..MaxCommits
           /\ Change(BaseSha, HeadSha) \in Nat
<1>1. /\ Len(log) \in Nat /\ Len(log) <= MaxCommits
      /\ HeadSha \in 1..Len(log) /\ BaseSha \in 1..Len(log)
      /\ \A c \in 1..Len(log) : Tree(c) \in Contents
    BY HeadsAreCommits
<1>2. IsFiniteSet(1..Len(log)) /\ Cardinality(1..Len(log)) = Len(log)
    <2>1. PICK n \in Nat : n = Len(log) BY <1>1
    <2>2. IsFiniteSet(1..n) /\ Cardinality(1..n) = IF 1 > n THEN 0 ELSE n - 1 + 1
        BY FS_Interval
    <2> QED BY <2>1, <2>2
<1>3. Ahead \subseteq 1..Len(log) BY <1>1, ReachHasSelf DEF Ahead, RangeOf
<1>4. Cardinality(Ahead) <= Len(log) /\ IsFiniteSet(Ahead)
    <2>1. PICK A : A = Ahead OBVIOUS
    <2>2. PICK S : S = 1..Len(log) OBVIOUS
    <2>3. IsFiniteSet(A) /\ Cardinality(A) <= Cardinality(S)
        <3>1. A \in SUBSET S /\ IsFiniteSet(S) BY <1>2, <1>3, <2>1, <2>2
        <3> QED BY <3>1, FS_Subset
    <2> QED BY <1>2, <2>1, <2>2, <2>3
<1>5. Cardinality(Ahead) \in Nat BY <1>4, FS_CardinalityType
<1>6. Cardinality(Ahead) \in 0..MaxCommits BY <1>1, <1>4, <1>5
<1>7. Change(BaseSha, HeadSha) \in Nat
    <2>0. PICK h \in 1..Len(log), b \in 1..Len(log) : h = HeadSha /\ b = BaseSha BY <1>1
    <2>1. MergeBase(b, h) \in 1..Len(log) BY MergeBaseIsCommit
    <2>2. Tree(MergeBase(b, h)) \in Contents /\ Tree(h) \in Contents BY <1>1, <2>1
    <2>3. Numstat[<<Tree(MergeBase(b, h)), Tree(h)>>] \in Nat BY <2>2
    <2> QED BY <2>0, <2>3 DEF Change
<1> QED BY <1>6, <1>7

\* While neither HEAD nor the base moves, HEAD is ahead by the same commits.
LEMMA AheadStays ==
    ASSUME RepositoryOK, GitMove, HeadSha' = HeadSha, BaseSha' = BaseSha
    PROVE  Ahead' = Ahead
<1>1. PICK h \in 1..Len(log), b \in 1..Len(log) : h = HeadSha /\ b = BaseSha
    BY HeadsAreCommits
<1>2. Reach(h)' = Reach(h) /\ Reach(b)' = Reach(b) BY DEF GitMove
<1>3. Reach(HeadSha)' = Reach(h)' BY <1>1 DEF Reach, AncestorClosed
<1>4. Reach(BaseSha)' = Reach(b)' BY <1>1 DEF Reach, AncestorClosed
<1> QED BY <1>1, <1>2, <1>3, <1>4 DEF Ahead, RangeOf

-----------------------------------------------------------------------------
\* What a step of one call leaves intact

\* Preparations stay right however the repository moves, and so do passes.
LEMMA EvidenceStays ==
    ASSUME RepositoryOK, RepositoryOK', GitMove, NEW p, p.base \in Nat, p.head \in Nat,
           PreparationOK(p)
    PROVE  PreparationOK(p)' /\ (Describes(p) => Describes(p)')
<1>1. /\ Len(log) \in Nat /\ HeadSha \in 1..Len(log) /\ BaseSha \in 1..Len(log)
      /\ HeadSha' \in Nat /\ BaseSha' \in Nat
      /\ HeadSha <= HeadSha' /\ BaseSha <= BaseSha'
    BY HeadsAreCommits, HeadsAreCommitsNext DEF GitMove
<1>2. p.head \in 1..Len(log) /\ p.base \in 1..Len(log) BY <1>1 DEF PreparationOK
<1>3. Describes(p) => Describes(p)' BY <1>2, DescriptionStays
<1>4. p.head = HeadSha' /\ p.base = BaseSha' => Describes(p)'
    BY <1>1, <1>3 DEF PreparationOK
<1>5. p.head \in 1..HeadSha' /\ p.base \in 1..BaseSha' BY <1>1 DEF PreparationOK
<1> QED BY <1>3, <1>4, <1>5 DEF PreparationOK

\* The same of all of them, as long as none is added.
LEMMA AllEvidenceStays ==
    ASSUME RepositoryOK, RepositoryOK', GitMove, EvidenceOK, UNCHANGED <<preps, passes>>
    PROVE  EvidenceOK'
<1>1. ASSUME NEW p \in preps PROVE PreparationOK(p)' /\ (Describes(p) => Describes(p)')
    <2>1. p.base \in Nat /\ p.head \in Nat BY DEF EvidenceOK, Preparations
    <2> QED BY <2>1, EvidenceStays DEF EvidenceOK
<1>2. ASSUME NEW p \in preps' PROVE PreparationOK(p)' BY <1>1
<1>3. ASSUME NEW p \in passes' PROVE Describes(p)' BY <1>1 DEF EvidenceOK
<1>4. preps' \subseteq Preparations /\ passes' \subseteq preps' BY DEF EvidenceOK
<1> QED BY <1>2, <1>3, <1>4 DEF EvidenceOK

\* Commits returned to callers stay where they are.
LEMMA ClaimsStay ==
    ASSUME RepositoryOK, RepositoryOK', GitMove, ClaimsOK, UNCHANGED claims
    PROVE  ClaimsOK'
<1>1. Len(log) \in Nat /\ Len(log') \in Nat /\ Len(log) <= Len(log')
    BY HeadsAreCommits, HeadsAreCommitsNext DEF GitMove
<1>2. ASSUME NEW c \in claims
      PROVE  /\ c \in [by : Instances, branch : Branches, sha : 1..Len(log'), raced : BOOLEAN]
             /\ log'[c.sha].by = c.by
             /\ ~c.raced => refs'[c.branch] # 0 /\ c.sha \in Reach(refs[c.branch])'
    <2>1. /\ c \in [by : Instances, branch : Branches, sha : 1..Len(log), raced : BOOLEAN]
          /\ log[c.sha].by = c.by
          /\ ~c.raced => refs[c.branch] # 0 /\ c.sha \in Reach(refs[c.branch])
        BY DEF ClaimsOK
    <2>2. c.sha \in 1..Len(log) /\ c.branch \in Branches BY <2>1
    <2>3. c \in [by : Instances, branch : Branches, sha : 1..Len(log'), raced : BOOLEAN]
        <3>1. \A n \in 1..Len(log) : n \in 1..Len(log') BY <1>1
        <3> QED BY <2>1, <3>1
    <2>4. log'[c.sha] = log[c.sha] BY <2>2 DEF GitMove
    <2>5. refs[c.branch] # 0 =>
              refs'[c.branch] # 0 /\ Reach(refs[c.branch]) \subseteq Reach(refs[c.branch])'
        BY <2>2 DEF GitMove
    <2> QED BY <2>1, <2>3, <2>4, <2>5
<1> QED BY <1>2 DEF ClaimsOK

\* The call of another object stays right: HEAD and the base have only moved
\* on, and HEAD to another branch only if this call knows.
LEMMA OthersStay ==
    ASSUME RepositoryOK, RepositoryOK', EvidenceOK, GitMove,
           NEW v \in Instances, CallOK(v), call'[v] = call[v],
           v \in raced => v \in raced',
           branch' = branch \/ (call[v].op = "commit" /\ call[v].step # "idle" => v \in raced'),
           preps \subseteq preps'
    PROVE  CallOK(v)'
<1>1. /\ Len(log) \in Nat /\ HeadSha \in 1..Len(log) /\ BaseSha \in 1..Len(log)
      /\ HeadSha' \in Nat /\ BaseSha' \in Nat
      /\ HeadSha <= HeadSha' /\ BaseSha <= BaseSha'
    BY HeadsAreCommits, HeadsAreCommitsNext DEF GitMove
<1>2. PICK c : c = call[v] /\ c = call'[v] OBVIOUS
<1>3. CallTypeOK(v)' BY DEF CallOK, CallTypeOK
<1>4. c \in Calls BY <1>2 DEF CallOK, CallTypeOK
<1>5. /\ c.seen.head \in Nat /\ c.prep \in Preparations
      /\ c.prep.head \in Nat /\ c.prep.base \in Nat
    BY <1>4 DEF Calls, Statuses, Preparations
<1>6. CommittingOK(v)'
    <2> SUFFICES ASSUME c.op = "commit"
                 PROVE  /\ c.step \in {"add", "inspect", "recheck", "act", "confirm"} =>
                              /\ branch' # Base
                              /\ v \notin raced' => branch' = c.branch
                              /\ c.seen.head <= HeadSha'
                        /\ c.step = "confirm" =>
                              /\ c.seen.head < HeadSha'
                              /\ log'[HeadSha'].parents = {c.seen.head} => log'[HeadSha'].by = v
        BY <1>2 DEF CommittingOK
    <2>1. /\ c.step \in {"add", "inspect", "recheck", "act", "confirm"} =>
                /\ branch # Base
                /\ v \notin raced => branch = c.branch
                /\ c.seen.head <= HeadSha
          /\ c.step = "confirm" =>
                /\ c.seen.head < HeadSha
                /\ log[HeadSha].parents = {c.seen.head} => log[HeadSha].by = v
        BY <1>2 DEF CallOK, CommittingOK
    <2>2. branch # Base => branch' # Base BY DEF GitMove
    <2>3. c.step # "idle" => branch' = branch \/ v \in raced' BY <1>2
    <2>4. HeadSha' = HeadSha => log'[HeadSha'] = log[HeadSha] BY <1>1 DEF GitMove
    <2>5. HeadSha' # HeadSha => HeadSha \in log'[HeadSha'].parents BY DEF GitMove
    <2>6. ASSUME c.step = "confirm", log'[HeadSha'].parents = {c.seen.head}
          PROVE  log'[HeadSha'].by = v
        <3>1. HeadSha' = HeadSha BY <1>1, <1>5, <2>1, <2>5, <2>6
        <3> QED BY <2>1, <2>4, <2>6, <3>1
    <2> QED BY <1>1, <1>5, <2>1, <2>2, <2>3, <2>6
<1>7. PreparingOK(v)'
    <2> SUFFICES ASSUME c.op = "prepare"
                 PROVE  /\ c.step \in {"ancestor", "base", "count", "compare"}
                              => c.prep.head \in 1..HeadSha'
                        /\ c.step \in {"count", "compare"} => c.prep.base \in 1..BaseSha'
                        /\ c.step = "compare" /\ c.prep.head = HeadSha' /\ c.prep.base = BaseSha'
                              => c.count = Cardinality(Ahead')
        BY <1>2 DEF PreparingOK
    <2>1. /\ c.step \in {"ancestor", "base", "count", "compare"} => c.prep.head \in 1..HeadSha
          /\ c.step \in {"count", "compare"} => c.prep.base \in 1..BaseSha
          /\ c.step = "compare" /\ c.prep.head = HeadSha /\ c.prep.base = BaseSha
                => c.count = Cardinality(Ahead)
        BY <1>2 DEF CallOK, PreparingOK
    <2>2. ASSUME c.step = "compare", c.prep.head = HeadSha', c.prep.base = BaseSha'
          PROVE  c.count = Cardinality(Ahead')
        <3>1. HeadSha' = HeadSha /\ BaseSha' = BaseSha BY <1>1, <1>5, <2>1, <2>2
        <3>2. Ahead' = Ahead BY <3>1, AheadStays
        <3> QED BY <2>1, <2>2, <3>1, <3>2
    <2> QED BY <1>1, <1>5, <2>1, <2>2
<1>8. ValidatingOK(v)'
    <2> SUFFICES ASSUME c.op = "validate" PROVE ValidatingOK(v)'
        BY <1>2 DEF ValidatingOK
    <2>1. PICK p : p = c.prep OBVIOUS
    <2>2. p \in preps /\ PreparationOK(p) BY <1>2, <2>1 DEF CallOK, ValidatingOK, EvidenceOK
    <2>3. Describes(p) => Describes(p)' BY <1>5, <2>1, <2>2, EvidenceStays
    <2>4. p.base = BaseSha' => p.base = BaseSha BY <1>1, <1>5, <2>1, <2>2 DEF PreparationOK
    <2>5. Describes(call[v].prep) <=> Describes(p) BY <1>2, <2>1
    <2>6. Describes(call[v].prep)' <=> Describes(p)'
        BY <1>2, <2>1 DEF Describes, RangeOf, Change, MergeBase, Reach, AncestorClosed, Tree
    <2>7. /\ c.step = "base" /\ ~c.stale /\ p.base = BaseSha => Describes(p)
          /\ c.step \in {"ancestor", "merges"} /\ ~c.stale => Describes(p)
          /\ c.step \in {"count", "compare"} => Describes(p)
        BY <1>2, <2>1, <2>5 DEF CallOK, ValidatingOK
    <2> QED BY <1>2, <2>1, <2>2, <2>3, <2>4, <2>6, <2>7 DEF ValidatingOK
<1> QED BY <1>3, <1>6, <1>7, <1>8 DEF CallOK

\* A call that is over is in order.
LEMMA IdleIsOK ==
    /\ Idle \in Calls
    /\ \A w \in Instances : call'[w] = Idle => CallOK(w)'
<1>1. Idle \in Calls
    <2>1. NoStatus \in Statuses BY DEF NoStatus, Statuses, Branches
    <2>2. NoPreparation \in Preparations BY DEF NoPreparation, Preparations, Branches
    <2> QED BY <2>1, <2>2 DEF Idle, Calls, Operations, Steps, Branches
<1>2. ASSUME NEW w \in Instances, call'[w] = Idle PROVE CallOK(w)'
    <2>1. CallTypeOK(w)' BY <1>1, <1>2 DEF CallTypeOK, Idle
    <2>2. CommittingOK(w)' /\ PreparingOK(w)' /\ ValidatingOK(w)'
        BY <1>2 DEF CommittingOK, PreparingOK, ValidatingOK, Idle
    <2> QED BY <2>1, <2>2 DEF CallOK
<1> QED BY <1>1, <1>2

\* A step of one call keeps the calls in order if it keeps its own.
LEMMA CallsStay ==
    ASSUME IInv, RepositoryOK', GitMove, NEW w \in Instances,
           call' = [call EXCEPT ![w] = call'[w]], CallOK(w)', preps \subseteq preps',
           \A v \in Instances \ {w} : v \in raced => v \in raced',
           \/ branch' = branch
           \/ \A v \in Instances \ {w} :
                 call[v].op = "commit" /\ call[v].step # "idle" => v \in raced'
    PROVE  CallsOK'
<1>1. \A v \in Instances \ {w} : call'[v] = call[v] BY DEF IInv, CallsOK
<1>2. ASSUME NEW v \in Instances PROVE CallOK(v)'
    <2>1. CASE v = w BY <2>1
    <2>2. CASE v # w
        <3>1. call'[v] = call[v] BY <1>1, <2>2
        <3>2. RepositoryOK /\ EvidenceOK /\ CallOK(v) BY DEF IInv, CallsOK
        <3>3. v \in raced => v \in raced' BY <2>2
        <3>4. branch' = branch \/ (call[v].op = "commit" /\ call[v].step # "idle" => v \in raced')
            BY <2>2
        <3> QED BY <3>1, <3>2, <3>3, <3>4, OthersStay
    <2> QED BY <2>1, <2>2
<1>3. call'[w] \in Calls BY DEF CallOK, CallTypeOK
<1>4. call' \in [Instances -> Calls] BY <1>3 DEF IInv, CallsOK
<1> QED BY <1>2, <1>4 DEF CallsOK

\* So it keeps everything else in order that it does not touch.
LEMMA QuietStep ==
    ASSUME IInv, UNCHANGED <<gitVars, calls, preps, passes, claims, raced, leftStaged>>,
           NEW w \in Instances, call' = [call EXCEPT ![w] = call'[w]], CallOK(w)',
           call'[w].staged = call[w].staged
    PROVE  IInv'
<1>1. RepositoryOK' /\ GitMove BY ReadMove DEF IInv
<1>2. CallsOK' BY <1>1, CallsStay DEF gitVars
<1>3. EvidenceOK' BY <1>1, AllEvidenceStays DEF IInv
<1>4. ClaimsOK' BY <1>1, ClaimsStay DEF IInv
<1>5. CountersOK' BY DEF IInv, CountersOK
<1>6. IndexExplained'
    <2>1. UNCHANGED <<index, merging, leftStaged>> /\ Tree(HeadSha)' = Tree(HeadSha)
        BY DEF gitVars, Tree, HeadSha
    <2>2. \A v \in Instances : call'[v].staged = call[v].staged BY DEF IInv, CallsOK
    <2> QED BY <2>1, <2>2 DEF IInv, IndexExplained
<1> QED BY <1>1, <1>2, <1>3, <1>4, <1>5, <1>6 DEF IInv

\* The call ends with nothing staged.
LEMMA EndStep ==
    ASSUME IInv, UNCHANGED <<gitVars, calls, preps, passes, claims, raced, leftStaged>>,
           NEW w \in Instances, Ends(w), ~call[w].staged
    PROVE  IInv'
<1>1. call'[w] = Idle /\ call' = [call EXCEPT ![w] = call'[w]] BY DEF Ends, IInv, CallsOK
<1>2. CallOK(w)' BY <1>1, IdleIsOK
<1>3. call'[w].staged = FALSE BY <1>1 DEF Idle
<1>4. call[w].staged \in BOOLEAN BY DEF IInv, CallsOK, Calls
<1> QED BY <1>1, <1>2, <1>3, <1>4, QuietStep

\* The call fails: what it has staged is to be restored.
LEMMA FailStep ==
    ASSUME IInv, UNCHANGED gitVars, NEW w \in Instances, Fail(w)
    PROVE  IInv'
<1>1. CASE call[w].staged
    <2>1. /\ UNCHANGED <<gitVars, calls, preps, passes, claims, raced, leftStaged>>
          /\ call' = [call EXCEPT ![w].step = "restore"]
        BY <1>1 DEF Fail, GoTo
    <2>2. call[w] \in Calls /\ CallTypeOK(w) BY DEF IInv, CallsOK, CallOK
    <2>3. call'[w] = [call[w] EXCEPT !.step = "restore"]
          /\ call' = [call EXCEPT ![w] = call'[w]]
        BY <2>1 DEF IInv, CallsOK
    <2>4. call[w].op = "commit" /\ call[w].step # "idle" BY <1>1, <2>2 DEF CallTypeOK
    <2>5. /\ call'[w] \in Calls
          /\ call'[w].op = "commit" /\ call'[w].step = "restore"
          /\ call'[w].branch = call[w].branch /\ call'[w].staged = call[w].staged
        BY <2>2, <2>3, <2>4 DEF Calls, Steps
    <2>6. CallTypeOK(w)' BY <1>1, <2>2, <2>4, <2>5 DEF CallTypeOK
    <2>7. CallOK(w)' BY <2>5, <2>6 DEF CallOK, CommittingOK, PreparingOK, ValidatingOK
    <2> QED BY <2>1, <2>3, <2>5, <2>7, QuietStep
<1>2. CASE ~call[w].staged
    <2>1. /\ UNCHANGED <<gitVars, calls, preps, passes, claims, raced, leftStaged>>
          /\ Ends(w)
        BY <1>2 DEF Fail, Completes, Reports
    <2> QED BY <1>2, <2>1, EndStep
<1>3. call[w].staged \in BOOLEAN BY DEF IInv, CallsOK, Calls
<1> QED BY <1>1, <1>2, <1>3

\* So does one that is reported without anything staged.
LEMMA CompletesStep ==
    ASSUME IInv, UNCHANGED gitVars, NEW w \in Instances, Completes(w), ~call[w].staged
    PROVE  IInv'
<1>1. /\ UNCHANGED <<gitVars, calls, preps, passes, claims, raced, leftStaged>>
      /\ Ends(w)
    BY DEF Completes, Reports
<1> QED BY <1>1, EndStep

-----------------------------------------------------------------------------
\* Requests

\* A call begins with nothing staged.
LEMMA BeginStep ==
    ASSUME IInv, NEW w \in Instances, NEW op, Begin(w, op),
           call' = [call EXCEPT ![w] = call'[w]], CallOK(w)', ~call'[w].staged
    PROVE  IInv'
<1>1. /\ call[w].step = "idle" /\ calls[w] > 0
      /\ calls' = [calls EXCEPT ![w] = @ - 1] /\ raced' = raced \ {w}
      /\ UNCHANGED <<gitVars, preps, passes, claims, leftStaged>>
    BY DEF Begin
<1>2. RepositoryOK' /\ GitMove BY <1>1, ReadMove DEF IInv
<1>3. CallsOK' BY <1>1, <1>2, CallsStay DEF gitVars
<1>4. EvidenceOK' BY <1>1, <1>2, AllEvidenceStays DEF IInv
<1>5. ClaimsOK' BY <1>1, <1>2, ClaimsStay DEF IInv
<1>6. CountersOK'
    <2>1. /\ calls \in [Instances -> Nat] /\ \A v \in Instances : calls[v] <= CallsOf[v]
          /\ raced \subseteq Instances /\ leftStaged \in BOOLEAN
        BY DEF IInv, CountersOK
    <2>2. calls[w] - 1 \in Nat /\ calls[w] - 1 <= CallsOf[w] BY <1>1, <2>1
    <2> QED BY <1>1, <2>1, <2>2 DEF CountersOK
<1>7. IndexExplained'
    <2>1. UNCHANGED <<index, merging, leftStaged>> /\ Tree(HeadSha)' = Tree(HeadSha)
        BY <1>1 DEF gitVars, Tree, HeadSha
    <2>2. ~call[w].staged BY <1>1 DEF IInv, CallsOK, CallOK, CallTypeOK
    <2>3. \A v \in Instances : call[v].staged => call'[v].staged
        BY <2>2 DEF IInv, CallsOK
    <2> QED BY <2>1, <2>3 DEF IInv, IndexExplained
<1> QED BY <1>2, <1>3, <1>4, <1>5, <1>6, <1>7 DEF IInv

\* A call begins on the branch named: a task's, if it changes anything.
LEMMA BeginOnStep ==
    ASSUME IInv, NEW w \in Instances, NEW op \in Operations \ {"validate"}, NEW b \in Branches,
           op # "read" => b \in TaskBranches, BeginOn(w, op, b)
    PROVE  IInv'
<1>1. call' = [call EXCEPT ![w] = call'[w]]
      /\ call'[w] = [Idle EXCEPT !.op = op, !.step = "look", !.branch = b]
    BY DEF BeginOn, IInv, CallsOK
<1>2. Idle \in Calls BY IdleIsOK
<1>3. /\ call'[w] \in Calls /\ call'[w].op = op /\ call'[w].step = "look"
      /\ call'[w].branch = b /\ call'[w].staged = FALSE
    <2>1. call'[w] = [op |-> op, step |-> "look", branch |-> b, seen |-> NoStatus,
                      prep |-> NoPreparation, count |-> 0, staged |-> FALSE,
                      stale |-> FALSE, proven |-> FALSE]
        BY <1>1 DEF Idle
    <2>2. NoStatus \in Statuses /\ NoPreparation \in Preparations
        BY <1>2 DEF Calls, Idle
    <2> QED BY <2>1, <2>2 DEF Calls, Steps
<1>4. CallTypeOK(w)' BY <1>3 DEF CallTypeOK
<1>5. CallOK(w)' BY <1>3, <1>4 DEF CallOK, CommittingOK, PreparingOK, ValidatingOK
<1> QED BY <1>1, <1>3, <1>5, BeginStep DEF BeginOn

\* A validation begins with a preparation that was returned.
LEMMA BeginValidationStep ==
    ASSUME IInv, NEW w \in Instances, NEW p \in preps, NEW e \in Evidence,
           BeginValidation(w, p, e)
    PROVE  IInv'
<1>1. call' = [call EXCEPT ![w] = call'[w]]
      /\ call'[w] = [Idle EXCEPT !.op = "validate", !.step = "look", !.branch = p.branch,
                                 !.prep = p, !.proven = Proves(e)]
    BY DEF BeginValidation, IInv, CallsOK
<1>2. Idle \in Calls BY IdleIsOK
<1>3. p \in Preparations /\ p.branch \in Branches BY DEF IInv, EvidenceOK, Preparations
<1>4. Proves(e) \in BOOLEAN BY DEF Proves, Evidence
<1>5. /\ call'[w] \in Calls /\ call'[w].op = "validate" /\ call'[w].step = "look"
      /\ call'[w].prep = p /\ call'[w].staged = FALSE
    <2> DEFINE begun == [Idle EXCEPT !.op = "validate", !.step = "look",
                                     !.branch = p.branch, !.prep = p]
    <2>1. "validate" \in Operations /\ "look" \in Steps BY DEF Operations, Steps
    <2>2. begun \in Calls BY <1>2, <1>3, <2>1 DEF Calls
    <2>3. /\ begun.op = "validate" /\ begun.step = "look"
          /\ begun.prep = p /\ begun.staged = FALSE
        BY <1>2 DEF Calls, Idle
    <2>4. call'[w] = [begun EXCEPT !.proven = Proves(e)] BY <1>1, <1>2 DEF Calls
    <2> HIDE DEF begun
    <2>5. call'[w] \in Calls BY <1>4, <2>2, <2>4 DEF Calls
    <2> QED BY <2>2, <2>3, <2>4, <2>5 DEF Calls
<1>6. CallTypeOK(w)' BY <1>5 DEF CallTypeOK
<1>7. p \in preps' BY DEF BeginValidation, Begin
<1>8. CallOK(w)' BY <1>5, <1>6, <1>7 DEF CallOK, CommittingOK, PreparingOK, ValidatingOK
<1> QED BY <1>1, <1>5, <1>8, BeginStep DEF BeginValidation

\* A call whose beginning is not recorded does not begin.
LEMMA StartUnauditedStep ==
    ASSUME IInv, NEW w \in Instances, StartUnaudited(w)
    PROVE  IInv'
<1>1. PICK op \in Operations : Begin(w, op) BY DEF StartUnaudited
<1>2. call' = [call EXCEPT ![w] = call'[w]] BY DEF StartUnaudited, IInv, CallsOK
<1>3. call'[w] = Idle
    BY <1>1 DEF StartUnaudited, Begin, IInv, CallsOK, CallOK, CallTypeOK
<1>4. CallOK(w)' BY <1>3, IdleIsOK
<1>5. call'[w].staged = FALSE BY <1>3 DEF Idle
<1> QED BY <1>1, <1>2, <1>4, <1>5, BeginStep

\* Any request.
LEMMA RequestStep ==
    ASSUME IInv, NEW w \in Instances, Request(w)
    PROVE  IInv'
<1>1. CASE BeginOn(w, "read", Base) BY <1>1, BeginOnStep DEF Operations, Branches
<1>2. ASSUME NEW op \in {"create", "commit", "prepare"}, NEW b \in BranchesOf[w],
             BeginOn(w, op, b)
      PROVE  IInv'
    <2>1. b \in TaskBranches /\ b \in Branches BY DEF Branches
    <2> QED BY <1>2, <2>1, BeginOnStep DEF Operations
<1> QED BY <1>1, <1>2, BeginValidationStep, StartUnauditedStep DEF Request

-----------------------------------------------------------------------------
\* Steps that only read

\* A status is one of the statuses.
LEMMA StatusIsOne ==
    ASSUME IInv
    PROVE  /\ Status \in Statuses /\ Status.branch = branch /\ Status.head = HeadSha
           /\ HeadSha \in 1..HeadSha /\ HeadSha \in 0..MaxCommits
           /\ BaseSha \in 1..BaseSha /\ BaseSha \in 0..MaxCommits
<1>1. RepositoryOK BY DEF IInv
<1>2. /\ Len(log) \in Nat /\ Len(log) <= MaxCommits
      /\ HeadSha \in 1..Len(log) /\ BaseSha \in 1..Len(log)
      /\ branch \in Branches
    BY <1>1, HeadsAreCommits
<1>3. merging \in BOOLEAN BY <1>1 DEF RepositoryOK, GitTypeOK
<1>4. HeadSha \in 0..MaxCommits /\ BaseSha \in 0..MaxCommits BY <1>2
<1>5. Status \in Statuses BY <1>2, <1>3, <1>4 DEF Status, Statuses
<1> QED BY <1>2, <1>4, <1>5 DEF Status

\* What is known of a call.
LEMMA CallFacts ==
    ASSUME IInv, NEW w \in Instances
    PROVE  /\ call[w] \in Calls /\ call \in [Instances -> Calls]
           /\ CallTypeOK(w) /\ CommittingOK(w) /\ PreparingOK(w) /\ ValidatingOK(w)
           /\ \A f : call' = [call EXCEPT ![w] = f] => call'[w] = f
           /\ call[w].staged \in BOOLEAN /\ call[w].prep \in Preparations
           /\ call[w].prep.head \in Nat /\ call[w].prep.base \in Nat
<1>1. /\ call[w] \in Calls /\ call \in [Instances -> Calls]
      /\ CallTypeOK(w) /\ CommittingOK(w) /\ PreparingOK(w) /\ ValidatingOK(w)
    BY DEF IInv, CallsOK, CallOK
<1>2. call[w].staged \in BOOLEAN /\ call[w].prep \in Preparations BY <1>1 DEF Calls
<1>3. call[w].prep.head \in Nat /\ call[w].prep.base \in Nat BY <1>2 DEF Preparations
<1> QED BY <1>1, <1>2, <1>3

\* A call that is set is what it was set to.
LEMMA UpdatedCall ==
    ASSUME IInv, NEW w \in Instances, NEW d, call' = [call EXCEPT ![w] = d]
    PROVE  call'[w] = d /\ call' = [call EXCEPT ![w] = call'[w]]
<1>1. call'[w] = d BY CallFacts
<1> QED BY <1>1

\* What a preparation says is the same after a step that only reads.
LEMMA DescribesTheSame ==
    ASSUME UNCHANGED gitVars, NEW w \in Instances, NEW p, call'[w].prep = p
    PROVE  Describes(call[w].prep)' <=> Describes(p)
BY DEF gitVars, Describes, RangeOf, Change, MergeBase, Reach, AncestorClosed, Tree

\* A call that creates, commits or prepares remembers where HEAD is.
LEMMA RememberStep ==
    ASSUME IInv, UNCHANGED gitVars, NEW w \in Instances, call[w].step = "look", NEW step,
           Remember(w, step),
           \/ call[w].op = "create" /\ step = "exists"
           \/ call[w].op = "commit" /\ step = "add" /\ CommitLook(w)
           \/ call[w].op = "prepare" /\ step = "ancestor"
    PROVE  IInv'
<1> DEFINE c == call[w]
           d == [c EXCEPT !.step = step, !.seen = Status,
                          !.prep = [c.prep EXCEPT !.branch = c.branch, !.head = HeadSha]]
<1>1. /\ c \in Calls /\ CallTypeOK(w) BY CallFacts
<1>2. /\ UNCHANGED <<calls, preps, passes, claims, raced, leftStaged>>
      /\ call' = [call EXCEPT ![w] = d]
    BY DEF Remember
<1> HIDE DEF d
<1>3. call'[w] = d /\ call' = [call EXCEPT ![w] = call'[w]] BY <1>2, UpdatedCall
<1>4. c.staged = FALSE /\ c.branch \in TaskBranches /\ c.branch \in Branches
    BY <1>1, CallFacts DEF CallTypeOK, Branches
<1>5. [c.prep EXCEPT !.branch = c.branch, !.head = HeadSha] \in Preparations
    BY <1>1, <1>4, StatusIsOne DEF Calls, Preparations
<1>6. d \in Calls BY <1>1, <1>5, StatusIsOne DEF d, Calls, Steps
<1>7. /\ d.op = c.op /\ d.step = step /\ d.branch = c.branch /\ d.staged = FALSE
      /\ d.seen.head = HeadSha /\ d.prep.head = HeadSha
    BY <1>1, <1>4, StatusIsOne DEF d, Calls, Preparations
<1>8. CallTypeOK(w)' BY <1>3, <1>4, <1>6, <1>7 DEF CallTypeOK
<1>9. CommittingOK(w)'
    <2>1. HeadSha' = HeadSha /\ branch' = branch BY DEF gitVars, HeadSha
    <2>2. c.op = "commit" => branch = c.branch /\ branch # Base
        BY <1>4 DEF CommitLook, Status
    <2>3. HeadSha <= HeadSha BY StatusIsOne
    <2> QED BY <1>3, <1>7, <2>1, <2>2, <2>3 DEF CommittingOK
<1>10. PreparingOK(w)'
    <2>1. HeadSha' = HeadSha BY DEF gitVars, HeadSha
    <2> QED BY <1>3, <1>7, <2>1, StatusIsOne DEF PreparingOK
<1>11. ValidatingOK(w)' BY <1>3, <1>7 DEF ValidatingOK
<1>12. CallOK(w)' BY <1>8, <1>9, <1>10, <1>11 DEF CallOK
<1> QED BY <1>2, <1>3, <1>4, <1>7, <1>12, QuietStep

\* The first status of a call.
LEMMA LookStep ==
    ASSUME IInv, NEW w \in Instances, Look(w)
    PROVE  IInv'
<1>1. call[w].step = "look" /\ UNCHANGED gitVars BY DEF Look
<1>2. ~call[w].staged BY <1>1, CallFacts DEF CallTypeOK
<1>3. call[w].op \in Operations BY CallFacts DEF Calls
<1>4. CASE call[w].op = "read" BY <1>1, <1>2, <1>4, CompletesStep DEF Look
<1>5. CASE call[w].op = "create"
    <2>1. Remember(w, "exists") \/ Fail(w) BY <1>5 DEF Look
    <2> QED BY <1>1, <1>5, <2>1, RememberStep, FailStep
<1>6. CASE call[w].op = "commit"
    <2>1. (CommitLook(w) /\ Remember(w, "add")) \/ Fail(w) BY <1>6 DEF Look
    <2> QED BY <1>1, <1>6, <2>1, RememberStep, FailStep
<1>7. CASE call[w].op = "prepare"
    <2>1. Remember(w, "ancestor") \/ Fail(w) BY <1>7 DEF Look
    <2> QED BY <1>1, <1>7, <2>1, RememberStep, FailStep
<1>8. CASE call[w].op = "validate"
    <2>1. CASE Completes(w) BY <1>1, <1>2, <2>1, CompletesStep
    <2>2. CASE /\ call' = [call EXCEPT ![w].step = "base", ![w].seen = Status,
                                       ![w].stale = Outdated(w)]
               /\ UNCHANGED <<calls, preps, passes, claims, raced, leftStaged>>
        <3>0. Outdated(w) \in BOOLEAN BY DEF Outdated
        <3>1. PICK o \in BOOLEAN : o = Outdated(w) BY <3>0
        <3> DEFINE c == call[w]
                   d == [c EXCEPT !.step = "base", !.seen = Status, !.stale = o]
        <3>2. call'[w] = d /\ call' = [call EXCEPT ![w] = call'[w]]
            <4>1. call \in [Instances -> Calls] BY CallFacts
            <4>2. call'[w] = d BY <2>2, <3>1, <4>1
            <4>3. call' = [call EXCEPT ![w] = call'[w]] BY <2>2, <4>1
            <4> QED BY <4>2, <4>3
        <3>4. /\ d \in Calls /\ d.op = "validate" /\ d.step = "base" /\ d.prep = c.prep
              /\ d.staged = c.staged /\ d.stale = o
            <4>1. c \in Calls /\ Status \in Statuses BY CallFacts, StatusIsOne
            <4>2. d \in Calls BY <4>1 DEF Calls, Steps
            <4>3. /\ d.op = "validate" /\ d.step = "base" /\ d.prep = c.prep
                  /\ d.staged = c.staged /\ d.stale = o
                BY <1>8, <4>1 DEF Calls
            <4> QED BY <4>2, <4>3
        <3> HIDE DEF d
        <3>5. CallTypeOK(w)' BY <1>2, <3>2, <3>4 DEF CallTypeOK
        <3>6. PICK p : p = c.prep OBVIOUS
        <3>7. p \in preps /\ PreparationOK(p)
            BY <1>8, <3>6, CallFacts DEF ValidatingOK, IInv, EvidenceOK
        <3>8. ~Outdated(w) /\ p.base = BaseSha => Describes(p)
            BY <3>6, <3>7 DEF Outdated, PreparationOK
        <3>9. Describes(call[w].prep)' <=> Describes(p)
            BY <1>1, <3>2, <3>4, <3>6, DescribesTheSame
        <3>10. BaseSha' = BaseSha /\ preps' = preps BY <1>1, <2>2 DEF gitVars, BaseSha
        <3>11. ValidatingOK(w)' BY <3>1, <3>2, <3>4, <3>6, <3>7, <3>8, <3>9, <3>10 DEF ValidatingOK
        <3>12. CallOK(w)' BY <3>2, <3>4, <3>5, <3>11 DEF CallOK, CommittingOK, PreparingOK
        <3> QED BY <1>1, <2>2, <3>2, <3>4, <3>12, QuietStep
    <2> QED BY <1>8, <2>1, <2>2 DEF Look
<1> QED BY <1>3, <1>4, <1>5, <1>6, <1>7, <1>8 DEF Operations

\* A call goes on to its next step with what it knows.
LEMMA ContinueStep ==
    ASSUME IInv, UNCHANGED gitVars, NEW w \in Instances, NEW step \in Steps, Continue(w, step),
           \/ call[w].op = "create" /\ call[w].step \in {"exists", "recheck"}
              /\ step \in {"recheck", "act"}
           \/ call[w].op = "commit" /\ call[w].step \in {"inspect", "recheck"}
              /\ step \in {"recheck", "act"}
           \/ call[w].op = "prepare" /\ call[w].step = "ancestor" /\ step = "base"
           \/ call[w].op = "validate" /\ call[w].step = "merges" /\ ~call[w].stale
              /\ step = "count"
    PROVE  IInv'
<1> DEFINE c == call[w]
           d == [c EXCEPT !.step = step]
<1>1. c \in Calls /\ CallTypeOK(w) BY CallFacts
<1>2. /\ UNCHANGED <<calls, preps, passes, claims, raced, leftStaged>>
      /\ call' = [call EXCEPT ![w] = d]
    BY DEF Continue, GoTo
<1>3. call'[w] = d /\ call' = [call EXCEPT ![w] = call'[w]] BY <1>2, UpdatedCall
<1>4. /\ d \in Calls /\ d.op = c.op /\ d.step = step /\ d.branch = c.branch
      /\ d.staged = c.staged /\ d.seen = c.seen /\ d.prep = c.prep
    BY <1>1 DEF Calls
<1> HIDE DEF d
<1>5. CallTypeOK(w)' BY <1>1, <1>3, <1>4 DEF CallTypeOK
<1>6. CommittingOK(w)'
    <2>1. /\ HeadSha' = HeadSha /\ branch' = branch /\ log' = log /\ raced' = raced
        BY <1>2 DEF gitVars, HeadSha
    <2>2. CommittingOK(w) BY CallFacts
    <2> QED BY <1>3, <1>4, <2>1, <2>2 DEF CommittingOK
<1>7. PreparingOK(w)'
    <2>1. HeadSha' = HeadSha BY DEF gitVars, HeadSha
    <2>2. PreparingOK(w) BY CallFacts
    <2> QED BY <1>3, <1>4, <2>1, <2>2 DEF PreparingOK
<1>8. ValidatingOK(w)'
    <2>1. PICK p : p = c.prep OBVIOUS
    <2>2. Describes(call[w].prep)' <=> Describes(p) BY <1>3, <1>4, <2>1, DescribesTheSame
    <2>3. ValidatingOK(w) BY CallFacts
    <2>4. c.op = "validate" => p \in preps' /\ Describes(p)
        BY <1>2, <2>1, <2>3 DEF ValidatingOK
    <2> QED BY <1>3, <1>4, <2>1, <2>2, <2>4 DEF ValidatingOK
<1>9. CallOK(w)' BY <1>5, <1>6, <1>7, <1>8 DEF CallOK
<1> QED BY <1>2, <1>3, <1>4, <1>9, QuietStep

\* create_task_branch and commit_changes: what is read between the changes
LEMMA ExistsStep ==
    ASSUME IInv, NEW w \in Instances, Exists(w)
    PROVE  IInv'
<1>1. /\ call[w].op = "create" /\ call[w].step = "exists" /\ UNCHANGED gitVars
      /\ Fail(w) \/ Continue(w, "recheck")
    BY DEF Exists, At
<1> QED BY <1>1, FailStep, ContinueStep DEF Steps

\* The status read again must be the one remembered.
LEMMA RecheckBranchStep ==
    ASSUME IInv, NEW w \in Instances, RecheckBranch(w)
    PROVE  IInv'
<1>1. /\ call[w].op = "create" /\ call[w].step = "recheck" /\ UNCHANGED gitVars
      /\ Fail(w) \/ Continue(w, "act")
    BY DEF RecheckBranch, At
<1> QED BY <1>1, FailStep, ContinueStep DEF Steps

\* The branch is there.
LEMMA ConfirmBranchStep ==
    ASSUME IInv, NEW w \in Instances, ConfirmBranch(w)
    PROVE  IInv'
<1>1. /\ call[w].op = "create" /\ Completes(w) /\ UNCHANGED gitVars
    BY DEF ConfirmBranch, At
<1>2. ~call[w].staged BY <1>1, CallFacts DEF CallTypeOK
<1> QED BY <1>1, <1>2, CompletesStep

\* The staged diff is inspected.
LEMMA InspectStep ==
    ASSUME IInv, NEW w \in Instances, Inspect(w)
    PROVE  IInv'
<1>1. /\ call[w].op = "commit" /\ call[w].step = "inspect" /\ UNCHANGED gitVars
      /\ Fail(w) \/ Continue(w, "recheck")
    BY DEF Inspect, At
<1> QED BY <1>1, FailStep, ContinueStep DEF Steps

\* The status is read once more before git commit.
LEMMA RecheckCommitStep ==
    ASSUME IInv, NEW w \in Instances, RecheckCommit(w)
    PROVE  IInv'
<1>1. /\ call[w].op = "commit" /\ call[w].step = "recheck" /\ UNCHANGED gitVars
      /\ Fail(w) \/ Continue(w, "act")
    BY DEF RecheckCommit, At
<1> QED BY <1>1, FailStep, ContinueStep DEF Steps

\* A validation stops at what is outdated.
LEMMA MergesStep ==
    ASSUME IInv, NEW w \in Instances, Merges(w)
    PROVE  IInv'
<1>1. /\ call[w].op = "validate" /\ call[w].step = "merges" /\ UNCHANGED gitVars
      /\ Completes(w) \/ (~call[w].stale /\ Continue(w, "count"))
    BY DEF Merges, At
<1>2. ~call[w].staged BY <1>1, CallFacts DEF CallTypeOK
<1> QED BY <1>1, <1>2, CompletesStep, ContinueStep DEF Steps

\* An interrupted read fails the call.
LEMMA InterruptedStep ==
    ASSUME IInv, NEW w \in Instances, Interrupted(w)
    PROVE  IInv'
<1>1. Fail(w) /\ UNCHANGED gitVars BY DEF Interrupted
<1> QED BY <1>1, FailStep

-----------------------------------------------------------------------------
\* Preparations and validations

\* A preparation or a validation reads on: what it knows then is right if it
\* has the evidence for its next step.
LEMMA ReadOn ==
    ASSUME IInv, NEW w \in Instances, NEW d \in Calls, call' = [call EXCEPT ![w] = d],
           UNCHANGED <<gitVars, calls, preps, passes, claims, raced, leftStaged>>,
           call[w].step \in {"ancestor", "base", "merges", "count"},
           d.step \in {"ancestor", "merges", "count", "compare"},
           d.op = call[w].op, d.branch = call[w].branch, d.staged = call[w].staged,
           d.op = "prepare" =>
               /\ call[w].step # "merges" /\ d.prep.head = call[w].prep.head
               /\ d.step \in {"count", "compare"} => d.prep.base \in 1..BaseSha
               /\ d.step = "compare" => d.count = Cardinality(Ahead),
           d.op = "validate" =>
               /\ d.prep = call[w].prep
               /\ d.step \in {"ancestor", "merges"} /\ ~d.stale => Describes(d.prep)
               /\ d.step \in {"count", "compare"} => Describes(d.prep)
    PROVE  IInv'
<1> DEFINE c == call[w]
<1>1. call'[w] = d /\ call' = [call EXCEPT ![w] = call'[w]] BY UpdatedCall
<1>2. CallTypeOK(w) BY CallFacts
<1>3. CallTypeOK(w)' BY <1>1, <1>2 DEF CallTypeOK
<1>4. CommittingOK(w)' BY <1>1 DEF CommittingOK
<1>5. PreparingOK(w)'
    <2>1. HeadSha' = HeadSha /\ BaseSha' = BaseSha BY DEF gitVars, HeadSha, BaseSha
    <2>2. Ahead' = Ahead
        BY DEF gitVars, Ahead, RangeOf, Reach, AncestorClosed, HeadSha, BaseSha
    <2>3. d.op = "prepare" => d.prep.head \in 1..HeadSha
        <3>1. PreparingOK(w) BY CallFacts
        <3> QED BY <3>1 DEF PreparingOK
    <2> QED BY <1>1, <2>1, <2>2, <2>3 DEF PreparingOK
<1>6. ValidatingOK(w)'
    <2>1. PICK p : p = d.prep OBVIOUS
    <2>2. Describes(call[w].prep)' <=> Describes(p) BY <1>1, <2>1, DescribesTheSame
    <2>3. d.op = "validate" => p \in preps'
        <3>1. ValidatingOK(w) BY CallFacts
        <3>2. preps' = preps OBVIOUS
        <3> QED BY <2>1, <3>1, <3>2 DEF ValidatingOK
    <2>4. /\ d.op = "validate" /\ d.step \in {"ancestor", "merges"} /\ ~d.stale => Describes(p)
          /\ d.op = "validate" /\ d.step \in {"count", "compare"} => Describes(p)
        BY <2>1
    <2> QED BY <1>1, <2>1, <2>2, <2>3, <2>4 DEF ValidatingOK
<1>7. CallOK(w)' BY <1>3, <1>4, <1>5, <1>6 DEF CallOK
<1> QED BY <1>1, <1>7, QuietStep

\* The base must be an ancestor of HEAD.
LEMMA AncestorStep ==
    ASSUME IInv, NEW w \in Instances, Ancestor(w)
    PROVE  IInv'
<1>1. call[w].step = "ancestor" /\ UNCHANGED gitVars BY DEF Ancestor
<1>2. CASE call[w].op = "prepare"
    <2>1. Continue(w, "base") \/ Fail(w) BY <1>2 DEF Ancestor
    <2> QED BY <1>1, <1>2, <2>1, ContinueStep, FailStep DEF Steps
<1>3. CASE call[w].op # "prepare"
    <2>1. PICK o \in BOOLEAN : o = (call[w].stale \/ ~BaseIsAncestor) OBVIOUS
    <2> DEFINE c == call[w]
               d == [c EXCEPT !.step = "merges", !.stale = o]
    <2>2. c \in Calls /\ ValidatingOK(w) BY CallFacts
    <2>3. d \in Calls BY <2>2 DEF Calls, Steps
    <2>4. /\ d.op = c.op /\ d.step = "merges" /\ d.branch = c.branch
          /\ d.staged = c.staged /\ d.prep = c.prep /\ d.stale = o
        BY <2>2 DEF Calls
    <2>5. call' = [call EXCEPT ![w] = d]
        <3>1. call' = [call EXCEPT ![w].step = "merges",
                                   ![w].stale = call[w].stale \/ ~BaseIsAncestor]
            BY <1>3 DEF Ancestor
        <3>2. call' = [call EXCEPT ![w].step = "merges", ![w].stale = o] BY <2>1, <3>1
        <3>3. call \in [Instances -> Calls] BY CallFacts
        <3> QED BY <3>2, <3>3
    <2>6. UNCHANGED <<calls, preps, passes, claims, raced, leftStaged>>
        BY <1>3 DEF Ancestor
    <2> HIDE DEF d
    <2>7. d.op = "validate" /\ ~o => Describes(c.prep)
        BY <1>1, <2>1, <2>2, <2>4 DEF ValidatingOK
    <2> QED BY <1>1, <1>3, <2>3, <2>4, <2>5, <2>6, <2>7, ReadOn
<1> QED BY <1>2, <1>3

\* The base is read, or must be the one of the preparation.
LEMMA ReadBaseStep ==
    ASSUME IInv, NEW w \in Instances, ReadBase(w)
    PROVE  IInv'
<1> DEFINE c == call[w]
<1>1. /\ c.step = "base" /\ c \in Calls /\ ValidatingOK(w)
      /\ UNCHANGED <<gitVars, calls, preps, passes, claims, raced, leftStaged>>
    BY CallFacts DEF ReadBase
<1>2. CASE c.op = "prepare"
    <2> DEFINE d == [c EXCEPT !.step = "count", !.prep = [c.prep EXCEPT !.base = BaseSha]]
    <2>1. [c.prep EXCEPT !.base = BaseSha] \in Preparations
        BY <1>1, StatusIsOne DEF Calls, Preparations
    <2>2. d \in Calls BY <1>1, <2>1 DEF Calls, Steps
    <2>3. /\ d.op = c.op /\ d.step = "count" /\ d.branch = c.branch /\ d.staged = c.staged
          /\ d.prep.head = c.prep.head /\ d.prep.base = BaseSha
        BY <1>1 DEF Calls, Preparations
    <2>4. call' = [call EXCEPT ![w] = d] BY <1>2 DEF ReadBase
    <2>5. BaseSha \in 1..BaseSha BY StatusIsOne
    <2> HIDE DEF d
    <2> QED BY <1>1, <1>2, <2>2, <2>3, <2>4, <2>5, ReadOn
<1>3. CASE c.op # "prepare"
    <2>1. PICK o \in BOOLEAN : o = (call[w].stale \/ BaseSha # call[w].prep.base) OBVIOUS
    <2> DEFINE d == [c EXCEPT !.step = "ancestor", !.stale = o]
    <2>3. d \in Calls BY <1>1 DEF Calls, Steps
    <2>4. /\ d.op = c.op /\ d.step = "ancestor" /\ d.branch = c.branch
          /\ d.staged = c.staged /\ d.prep = c.prep /\ d.stale = o
        BY <1>1 DEF Calls
    <2>5. call' = [call EXCEPT ![w] = d]
        <3>1. call' = [call EXCEPT ![w].step = "ancestor",
                                   ![w].stale = call[w].stale \/ BaseSha # call[w].prep.base]
            BY <1>3 DEF ReadBase
        <3>2. call' = [call EXCEPT ![w].step = "ancestor", ![w].stale = o] BY <2>1, <3>1
        <3>3. call \in [Instances -> Calls] BY CallFacts
        <3> QED BY <3>2, <3>3
    <2> HIDE DEF d
    <2>7. d.op = "validate" /\ ~o => Describes(c.prep)
        BY <1>1, <2>1, <2>4 DEF ValidatingOK
    <2> QED BY <1>1, <1>3, <2>3, <2>4, <2>5, <2>7, ReadOn
<1> QED BY <1>2, <1>3

\* The commits of the range are counted.
LEMMA CountStep ==
    ASSUME IInv, NEW w \in Instances, Count(w)
    PROVE  IInv'
<1> DEFINE c == call[w]
           d == [c EXCEPT !.step = "compare", !.count = Cardinality(Ahead)]
<1>1. /\ c.step = "count" /\ c \in Calls /\ ValidatingOK(w) /\ PreparingOK(w)
      /\ UNCHANGED gitVars
    BY CallFacts DEF Count
<1>2. CASE Fail(w) BY <1>1, <1>2, FailStep
<1>3. CASE /\ call' = [call EXCEPT ![w].step = "compare", ![w].count = Cardinality(Ahead)]
           /\ UNCHANGED <<calls, preps, passes, claims, raced, leftStaged>>
    <2>1. Cardinality(Ahead) \in 0..MaxCommits BY AheadIsCounted DEF IInv
    <2>2. d \in Calls BY <1>1, <2>1 DEF Calls, Steps
    <2>3. /\ d.op = c.op /\ d.step = "compare" /\ d.branch = c.branch
          /\ d.staged = c.staged /\ d.prep = c.prep /\ d.count = Cardinality(Ahead)
        BY <1>1 DEF Calls
    <2>4. call' = [call EXCEPT ![w] = d] BY <1>3, CallFacts
    <2> HIDE DEF d
    <2>5. d.op = "prepare" => d.prep.base \in 1..BaseSha BY <1>1, <2>3 DEF PreparingOK
    <2>6. d.op = "validate" => Describes(d.prep) BY <1>1, <2>3 DEF ValidatingOK
    <2>7. UNCHANGED <<gitVars, calls, preps, passes, claims, raced, leftStaged>>
        BY <1>1, <1>3
    <2> HIDE DEF c
    <2>8. /\ call[w].step \in {"ancestor", "base", "merges", "count"}
          /\ call[w].step # "merges"
        BY <1>1 DEF c
    <2>9. /\ d.op = call[w].op /\ d.branch = call[w].branch /\ d.staged = call[w].staged
          /\ d.prep = call[w].prep
        BY <2>3 DEF c
    <2> QED BY <2>2, <2>3, <2>4, <2>5, <2>6, <2>7, <2>8, <2>9, ReadOn
<1> QED BY <1>2, <1>3 DEF Count

\* A call ends with nothing staged and returns something that is in order.
LEMMA ReportStep ==
    ASSUME IInv, UNCHANGED <<gitVars, calls, raced, leftStaged>>, NEW w \in Instances,
           Ends(w), ~call[w].staged, preps \subseteq preps', EvidenceOK', ClaimsOK'
    PROVE  IInv'
<1>1. RepositoryOK' /\ GitMove BY ReadMove DEF IInv
<1>2. call'[w] = Idle /\ call' = [call EXCEPT ![w] = call'[w]] BY CallFacts DEF Ends
<1>3. CallOK(w)' BY <1>2, IdleIsOK
<1>4. CallsOK' BY <1>1, <1>2, <1>3, CallsStay DEF gitVars
<1>5. CountersOK' BY DEF IInv, CountersOK
<1>6. IndexExplained'
    <2>1. UNCHANGED <<index, merging, leftStaged>> /\ Tree(HeadSha)' = Tree(HeadSha)
        BY DEF gitVars, Tree, HeadSha
    <2>2. \A v \in Instances : call[v].staged => call'[v].staged
        BY <1>2, CallFacts
    <2> QED BY <2>1, <2>2 DEF IInv, IndexExplained
<1> QED BY <1>1, <1>4, <1>5, <1>6 DEF IInv

\* A preparation is returned: it describes its head unless HEAD or the base
\* moved on while it was put together.
LEMMA PrepareStep ==
    ASSUME IInv, NEW w \in Instances, Prepare(w)
    PROVE  IInv'
<1> DEFINE c == call[w]
           p == [c.prep EXCEPT !.count = c.count, !.lines = Change(BaseSha, HeadSha)]
<1>1. /\ c.op = "prepare" /\ c.step = "compare" /\ UNCHANGED gitVars
      /\ c \in Calls /\ CallTypeOK(w) /\ PreparingOK(w)
    BY CallFacts DEF Prepare, At
<1>2. ~c.staged BY <1>1 DEF CallTypeOK
<1>3. Completes(w) \/ /\ Reports(w, TRUE) /\ preps' = preps \cup {p}
                      /\ UNCHANGED <<calls, passes, claims, raced, leftStaged>>
    BY DEF Prepare
<1>4. CASE Completes(w) BY <1>1, <1>2, <1>4, CompletesStep
<1>5. CASE /\ Reports(w, TRUE) /\ preps' = preps \cup {p}
           /\ UNCHANGED <<calls, passes, claims, raced, leftStaged>>
    <2>1. RepositoryOK /\ RepositoryOK' /\ GitMove /\ EvidenceOK /\ ClaimsOK
        BY <1>1, ReadMove DEF IInv
    <2>2. Change(BaseSha, HeadSha) \in Nat BY <2>1, AheadIsCounted
    <2>3. c.prep \in Preparations /\ c.count \in 0..MaxCommits BY <1>1 DEF Calls
    <2>4. /\ p \in Preparations /\ p.head = c.prep.head /\ p.base = c.prep.base
          /\ p.count = c.count /\ p.lines = Change(BaseSha, HeadSha)
          /\ p.base \in Nat /\ p.head \in Nat
        <3>1. PICK l \in Nat : l = Change(BaseSha, HeadSha) BY <2>2
        <3>2. p = [c.prep EXCEPT !.count = c.count, !.lines = l] BY <3>1
        <3> HIDE DEF p
        <3>3. p \in Preparations BY <2>3, <3>2 DEF Preparations
        <3>4. /\ p.head = c.prep.head /\ p.base = c.prep.base /\ p.count = c.count /\ p.lines = l
            BY <2>3, <3>2 DEF Preparations
        <3> QED BY <2>3, <3>1, <3>3, <3>4, CallFacts
    <2>5. PICK q : q = p OBVIOUS
    <2> HIDE DEF p
    <2>6. q.head \in 1..HeadSha /\ q.base \in 1..BaseSha BY <1>1, <2>4, <2>5 DEF PreparingOK
    <2>7. q.head = HeadSha /\ q.base = BaseSha => Describes(q)
        <3>1. q.head = HeadSha /\ q.base = BaseSha => c.count = Cardinality(Ahead)
            BY <1>1, <2>4, <2>5 DEF PreparingOK
        <3> QED BY <2>4, <2>5, <3>1 DEF Describes, Ahead
    <2>8. PreparationOK(q) BY <2>6, <2>7 DEF PreparationOK
    <2>9. ASSUME NEW r \in preps' PROVE r \in Preparations /\ PreparationOK(r)'
        <3>1. r \in preps \/ r = q BY <1>5, <2>5
        <3>2. r \in Preparations /\ PreparationOK(r) BY <2>1, <2>4, <2>5, <2>8, <3>1 DEF EvidenceOK
        <3>3. r.base \in Nat /\ r.head \in Nat BY <3>2 DEF Preparations
        <3> QED BY <2>1, <3>2, <3>3, EvidenceStays
    <2>10. ASSUME NEW r \in passes' PROVE Describes(r)'
        <3>1. r \in Preparations /\ PreparationOK(r) /\ Describes(r)
            BY <1>5, <2>1 DEF EvidenceOK
        <3>2. r.base \in Nat /\ r.head \in Nat BY <3>1 DEF Preparations
        <3> QED BY <2>1, <3>1, <3>2, EvidenceStays
    <2>11. preps' \subseteq Preparations /\ passes' \subseteq preps'
        BY <1>5, <2>1, <2>9 DEF EvidenceOK
    <2>12. EvidenceOK' BY <2>9, <2>10, <2>11 DEF EvidenceOK
    <2>13. ClaimsOK' BY <1>5, <2>1, ClaimsStay
    <2> QED BY <1>1, <1>2, <1>5, <2>12, <2>13, ReportStep DEF Reports
<1> QED BY <1>3, <1>4, <1>5

\* A validation passes what describes its head.
LEMMA DecideStep ==
    ASSUME IInv, NEW w \in Instances, Decide(w)
    PROVE  IInv'
<1> DEFINE c == call[w]
<1>1. /\ c.op = "validate" /\ c.step = "compare" /\ UNCHANGED gitVars
      /\ c \in Calls /\ CallTypeOK(w) /\ ValidatingOK(w)
    BY CallFacts DEF Decide, At
<1>2. ~c.staged BY <1>1 DEF CallTypeOK
<1>3. Completes(w) \/ /\ Reports(w, TRUE) /\ passes' = passes \cup {c.prep}
                      /\ UNCHANGED <<calls, preps, claims, raced, leftStaged>>
    BY DEF Decide
<1>4. CASE Completes(w) BY <1>1, <1>2, <1>4, CompletesStep
<1>5. CASE /\ Reports(w, TRUE) /\ passes' = passes \cup {c.prep}
           /\ UNCHANGED <<calls, preps, claims, raced, leftStaged>>
    <2>1. RepositoryOK /\ RepositoryOK' /\ GitMove /\ EvidenceOK /\ ClaimsOK
        BY <1>1, ReadMove DEF IInv
    <2>2. PICK q : q = c.prep OBVIOUS
    <2>3. q \in preps /\ Describes(q) BY <1>1, <2>2 DEF ValidatingOK
    <2>4. ASSUME NEW r \in preps'
          PROVE  r \in Preparations /\ PreparationOK(r)' /\ (Describes(r) => Describes(r)')
        <3>1. r \in Preparations /\ PreparationOK(r) BY <1>5, <2>1 DEF EvidenceOK
        <3>2. r.base \in Nat /\ r.head \in Nat BY <3>1 DEF Preparations
        <3> QED BY <2>1, <3>1, <3>2, EvidenceStays
    <2>5. passes' \subseteq preps' BY <1>5, <2>1, <2>2, <2>3 DEF EvidenceOK
    <2>6. ASSUME NEW r \in passes' PROVE Describes(r)'
        <3>1. Describes(r) BY <1>5, <2>1, <2>2, <2>3 DEF EvidenceOK
        <3> QED BY <2>4, <2>5, <3>1
    <2>7. EvidenceOK' BY <2>4, <2>5, <2>6 DEF EvidenceOK
    <2>8. ClaimsOK' BY <1>5, <2>1, ClaimsStay
    <2> QED BY <1>1, <1>2, <1>5, <2>7, <2>8, ReportStep DEF Reports
<1> QED BY <1>3, <1>4, <1>5

-----------------------------------------------------------------------------
\* Steps that change the repository

\* A step that changes the repository keeps everything in order if the index
\* stays explained and the other calls learn of a branch switched under them.
LEMMA ChangingStep ==
    ASSUME IInv, RepositoryOK', GitMove, NEW w \in Instances,
           call' = [call EXCEPT ![w] = call'[w]], CallOK(w)',
           UNCHANGED <<calls, preps, passes, claims>>,
           raced \subseteq raced', raced' \subseteq Instances, leftStaged' \in BOOLEAN,
           \/ branch' = branch
           \/ \A v \in Instances \ {w} :
                 call[v].op = "commit" /\ call[v].step # "idle" => v \in raced',
           IndexExplained'
    PROVE  IInv'
<1>1. CallsOK' BY CallsStay
<1>2. EvidenceOK' BY AllEvidenceStays DEF IInv
<1>3. ClaimsOK' BY ClaimsStay DEF IInv
<1>4. CountersOK' BY DEF IInv, CountersOK
<1> QED BY <1>1, <1>2, <1>3, <1>4 DEF IInv

\* git switch -c
LEMMA Switching ==
    ASSUME IInv, NEW w \in Instances, call[w].op = "create", call[w].step = "act",
           refs[call[w].branch] = 0, Switched(w, call[w].branch),
           call' = [call EXCEPT ![w] = call'[w]], CallOK(w)',
           UNCHANGED <<calls, preps, passes, claims, leftStaged>>
    PROVE  IInv'
<1>1. PICK b \in TaskBranches : b = call[w].branch BY CallFacts DEF CallTypeOK
<1>2. refs[b] = 0 /\ SwitchToNew(b) BY <1>1 DEF Switched
<1>3. RepositoryOK' /\ GitMove /\ HeadSha' = HeadSha BY <1>2, SwitchMove DEF IInv
<1>4. raced' = raced \cup {v \in Instances \ {w} : call[v].op = "commit" /\ call[v].step # "idle"}
    BY DEF Switched
<1>5. raced \subseteq Instances /\ leftStaged \in BOOLEAN BY DEF IInv, CountersOK
<1>6. IndexExplained'
    <2>1. UNCHANGED <<index, merging, leftStaged>> /\ Tree(HeadSha)' = Tree(HeadSha)
        BY <1>2, <1>3 DEF SwitchToNew, Tree
    <2>2. ~call[w].staged BY CallFacts DEF CallTypeOK
    <2>3. \A v \in Instances : call[v].staged => call'[v].staged BY <2>2, CallFacts
    <2> QED BY <2>1, <2>3 DEF IInv, IndexExplained
<1> QED BY <1>3, <1>4, <1>5, <1>6, ChangingStep

\* create_task_branch switches to the new branch.
LEMMA SwitchBranchStep ==
    ASSUME IInv, NEW w \in Instances, SwitchBranch(w)
    PROVE  IInv'
<1> DEFINE c == call[w]
           d == [c EXCEPT !.step = "confirm"]
<1>1. c.op = "create" /\ c.step = "act" /\ c \in Calls /\ CallTypeOK(w)
    BY CallFacts DEF SwitchBranch, At
<1>2. CASE refs[c.branch] = 0
    <2>1. /\ Switched(w, c.branch) /\ call' = [call EXCEPT ![w] = d]
          /\ UNCHANGED <<calls, preps, passes, claims, leftStaged>>
        BY <1>2 DEF SwitchBranch, GoTo
    <2>2. call'[w] = d /\ call' = [call EXCEPT ![w] = call'[w]] BY <2>1, UpdatedCall
    <2>3. /\ d \in Calls /\ d.op = "create" /\ d.step = "confirm" /\ d.branch = c.branch
          /\ d.staged = c.staged
        BY <1>1 DEF Calls, Steps
    <2> HIDE DEF d
    <2>4. CallTypeOK(w)' BY <1>1, <2>2, <2>3 DEF CallTypeOK
    <2>5. CallOK(w)' BY <2>2, <2>3, <2>4 DEF CallOK, CommittingOK, PreparingOK, ValidatingOK
    <2> QED BY <1>1, <1>2, <2>1, <2>2, <2>5, Switching
<1>3. CASE refs[c.branch] # 0
    <2>1. Fail(w) /\ UNCHANGED gitVars BY <1>3 DEF SwitchBranch
    <2> QED BY <2>1, FailStep
<1> QED BY <1>2, <1>3

\* git switch is stopped before or after it did its work.
LEMMA SwitchInterruptedStep ==
    ASSUME IInv, NEW w \in Instances, SwitchInterrupted(w)
    PROVE  IInv'
<1>1. /\ call[w].op = "create" /\ call[w].step = "act" /\ Ends(w)
      /\ UNCHANGED <<calls, preps, passes, claims, leftStaged>>
    BY DEF SwitchInterrupted, At
<1>2. call'[w] = Idle /\ call' = [call EXCEPT ![w] = call'[w]] BY <1>1, CallFacts DEF Ends
<1>3. CallOK(w)' BY <1>2, IdleIsOK
<1>4. CASE refs[call[w].branch] = 0 /\ Switched(w, call[w].branch)
    BY <1>1, <1>2, <1>3, <1>4, Switching
<1>5. CASE UNCHANGED <<gitVars, raced>>
    <2>1. ~call[w].staged BY <1>1, CallFacts DEF CallTypeOK
    <2> QED BY <1>1, <1>5, <2>1, EndStep
<1> QED BY <1>4, <1>5 DEF SwitchInterrupted

\* git add: the call remembers that the paths are staged.
LEMMA AddStep ==
    ASSUME IInv, NEW w \in Instances, Add(w)
    PROVE  IInv'
<1> DEFINE c == call[w]
           d == [c EXCEPT !.step = "inspect", !.staged = TRUE]
<1>1. /\ c.op = "commit" /\ c.step = "add" /\ c \in Calls /\ CallTypeOK(w) /\ CommittingOK(w)
      /\ AddPaths /\ UNCHANGED <<calls, preps, passes, claims, raced, leftStaged>>
    BY CallFacts DEF Add, At
<1>2. call' = [call EXCEPT ![w] = d]
    <2>1. call' = [call EXCEPT ![w].step = "inspect", ![w].staged = TRUE] BY DEF Add
    <2> QED BY <2>1, CallFacts
<1>3. call'[w] = d /\ call' = [call EXCEPT ![w] = call'[w]] BY <1>2, UpdatedCall
<1>4. /\ d \in Calls /\ d.op = "commit" /\ d.step = "inspect" /\ d.branch = c.branch
      /\ d.staged = TRUE /\ d.seen = c.seen
    BY <1>1 DEF Calls, Steps
<1> HIDE DEF d
<1>5. RepositoryOK' /\ GitMove BY <1>1, AddMove DEF IInv
<1>6. CallTypeOK(w)' BY <1>1, <1>3, <1>4 DEF CallTypeOK
<1>7. CommittingOK(w)'
    <2>1. branch' = branch /\ HeadSha' = HeadSha /\ raced' = raced
        BY <1>1 DEF AddPaths, HeadSha
    <2> QED BY <1>1, <1>3, <1>4, <2>1 DEF CommittingOK
<1>8. CallOK(w)' BY <1>3, <1>4, <1>6, <1>7 DEF CallOK, PreparingOK, ValidatingOK
<1>9. IndexExplained' BY <1>3, <1>4 DEF IndexExplained
<1>10. branch' = branch BY <1>1 DEF AddPaths
<1>11. raced' \subseteq Instances /\ leftStaged' \in BOOLEAN BY <1>1 DEF IInv, CountersOK
<1> QED BY <1>1, <1>3, <1>5, <1>8, <1>9, <1>10, <1>11, ChangingStep

\* git add is stopped: what it staged stays, and that is recorded.
LEMMA AddInterruptedStep ==
    ASSUME IInv, NEW w \in Instances, AddInterrupted(w)
    PROVE  IInv'
<1>1. /\ call[w].op = "commit" /\ call[w].step = "add" /\ Ends(w)
      /\ AddPaths \/ UNCHANGED gitVars
      /\ leftStaged' = (leftStaged \/ index' # index)
      /\ UNCHANGED <<calls, preps, passes, claims, raced>>
    BY DEF AddInterrupted, At
<1>2. call'[w] = Idle /\ call' = [call EXCEPT ![w] = call'[w]] BY <1>1, CallFacts DEF Ends
<1>3. CallOK(w)' BY <1>2, IdleIsOK
<1>4. RepositoryOK' /\ GitMove BY <1>1, AddMove, ReadMove DEF IInv
<1>5. UNCHANGED <<branch, refs, log, merging>> BY <1>1 DEF AddPaths, gitVars
<1>6. IndexExplained'
    <2>1. Tree(HeadSha)' = Tree(HeadSha) BY <1>5 DEF Tree, HeadSha
    <2>2. ~call[w].staged BY <1>1, CallFacts DEF CallTypeOK
    <2>3. \A v \in Instances : call[v].staged => call'[v].staged BY <1>2, <2>2, CallFacts
    <2> QED BY <1>1, <1>5, <2>1, <2>3 DEF IInv, IndexExplained
<1>7. raced' \subseteq Instances /\ leftStaged' \in BOOLEAN BY <1>1 DEF IInv, CountersOK
<1> QED BY <1>1, <1>2, <1>3, <1>4, <1>5, <1>6, <1>7, ChangingStep

\* After git commit the call still knows HEAD as its own commit.
LEMMA Committed ==
    ASSUME IInv, NEW w \in Instances, call[w].op = "commit", call[w].step = "act", CommitPaths(w)
    PROVE  /\ RepositoryOK' /\ GitMove /\ branch' = branch /\ merging' = merging
           /\ call[w].seen.head < HeadSha' /\ log'[HeadSha'].by = w
           /\ branch' # Base /\ (w \notin raced => branch' = call[w].branch)
           /\ index' = Tree(HeadSha)'
<1>1. /\ branch # Base /\ (w \notin raced => branch = call[w].branch)
      /\ call[w].seen.head <= HeadSha
    BY CallFacts DEF CommittingOK
<1>2. branch' = branch /\ merging' = merging BY DEF CommitPaths
<1>3. /\ RepositoryOK' /\ GitMove /\ HeadSha < HeadSha'
      /\ log'[HeadSha'].by = w /\ index' = Tree(HeadSha)'
    BY <1>1, CommitPathsMove DEF IInv
<1>4. call[w].seen.head \in Nat /\ HeadSha \in Nat /\ HeadSha' \in Nat
    <2>1. RepositoryOK BY DEF IInv
    <2>2. HeadSha \in 1..Len(log) /\ HeadSha' \in 1..Len(log')
        BY <1>3, <2>1, HeadsAreCommits, HeadsAreCommitsNext
    <2>3. call[w] \in Calls BY CallFacts
    <2>4. call[w].seen.head \in Nat BY <2>3 DEF Calls, Statuses
    <2> QED BY <2>2, <2>4
<1> QED BY <1>1, <1>2, <1>3, <1>4

\* git commit
LEMMA CommitStep ==
    ASSUME IInv, NEW w \in Instances, Commit(w)
    PROVE  IInv'
<1> DEFINE c == call[w]
           d == [c EXCEPT !.step = "confirm", !.staged = FALSE]
<1>1. /\ c.op = "commit" /\ c.step = "act" /\ c \in Calls /\ CallTypeOK(w)
    BY CallFacts DEF Commit, At
<1>2. CASE /\ CommitPaths(w)
           /\ call' = [call EXCEPT ![w].step = "confirm", ![w].staged = FALSE]
           /\ UNCHANGED <<calls, preps, passes, claims, raced, leftStaged>>
    <2>1. call' = [call EXCEPT ![w] = d] BY <1>2, CallFacts
    <2>2. call'[w] = d /\ call' = [call EXCEPT ![w] = call'[w]] BY <2>1, UpdatedCall
    <2>3. /\ d \in Calls /\ d.op = "commit" /\ d.step = "confirm" /\ d.branch = c.branch
          /\ d.staged = FALSE /\ d.seen = c.seen
        BY <1>1 DEF Calls, Steps
    <2> HIDE DEF d
    <2>4. CallTypeOK(w)' BY <1>1, <2>2, <2>3 DEF CallTypeOK
    <2>5. /\ RepositoryOK' /\ GitMove /\ branch' = branch
          /\ c.seen.head < HeadSha' /\ log'[HeadSha'].by = w
          /\ branch' # Base /\ (w \notin raced => branch' = c.branch)
          /\ index' = Tree(HeadSha)'
        BY <1>1, <1>2, Committed
    <2>6. c.seen.head \in Nat /\ HeadSha' \in Nat
        <3>1. HeadSha' \in 1..Len(log') BY <2>5, HeadsAreCommitsNext
        <3> QED BY <1>1, <3>1 DEF Calls, Statuses
    <2>7. CommittingOK(w)' BY <1>2, <2>2, <2>3, <2>5, <2>6 DEF CommittingOK
    <2>8. CallOK(w)' BY <2>2, <2>3, <2>4, <2>7 DEF CallOK, PreparingOK, ValidatingOK
    <2>9. IndexExplained' BY <2>5 DEF IndexExplained
    <2>10. raced' \subseteq Instances /\ leftStaged' \in BOOLEAN BY <1>2 DEF IInv, CountersOK
    <2> QED BY <1>2, <2>2, <2>5, <2>8, <2>9, <2>10, ChangingStep
<1>3. CASE Fail(w) /\ UNCHANGED gitVars BY <1>3, FailStep
<1> QED BY <1>2, <1>3 DEF Commit

\* git commit is stopped before or after it did its work; the index is restored
\* in either case.
LEMMA CommitInterruptedStep ==
    ASSUME IInv, NEW w \in Instances, CommitInterrupted(w)
    PROVE  IInv'
<1> DEFINE c == call[w]
           d == [c EXCEPT !.step = "restore"]
<1>1. /\ c.op = "commit" /\ c.step = "act" /\ c \in Calls /\ CallTypeOK(w)
      /\ CommitPaths(w) \/ UNCHANGED gitVars
      /\ call' = [call EXCEPT ![w] = d]
      /\ UNCHANGED <<calls, preps, passes, claims, raced, leftStaged>>
    BY CallFacts DEF CommitInterrupted, At, GoTo
<1> HIDE DEF d
<1>2. call'[w] = d /\ call' = [call EXCEPT ![w] = call'[w]] BY <1>1, UpdatedCall
<1>3. /\ d \in Calls /\ d.op = "commit" /\ d.step = "restore" /\ d.branch = c.branch
      /\ d.staged = c.staged
    BY <1>1 DEF d, Calls, Steps
<1>4. c.staged BY <1>1 DEF CallTypeOK
<1>5. CallTypeOK(w)' BY <1>1, <1>2, <1>3, <1>4 DEF CallTypeOK
<1>6. CallOK(w)' BY <1>2, <1>3, <1>5 DEF CallOK, CommittingOK, PreparingOK, ValidatingOK
<1>7. RepositoryOK' /\ GitMove /\ branch' = branch
    BY <1>1, Committed, ReadMove DEF IInv, gitVars
<1>8. IndexExplained' BY <1>2, <1>3, <1>4 DEF IndexExplained
<1>9. raced' \subseteq Instances /\ leftStaged' \in BOOLEAN BY <1>1 DEF IInv, CountersOK
<1> QED BY <1>1, <1>2, <1>6, <1>7, <1>8, <1>9, ChangingStep

\* The commit is returned if HEAD's only parent is where the call started: then
\* it is the call's own, and on the branch named unless HEAD was switched.
LEMMA ConfirmCommitStep ==
    ASSUME IInv, NEW w \in Instances, ConfirmCommit(w)
    PROVE  IInv'
<1> DEFINE c == call[w]
           r == [by |-> w, branch |-> c.branch, sha |-> HeadSha, raced |-> w \in raced]
<1>1. /\ c.op = "commit" /\ c.step = "confirm" /\ UNCHANGED gitVars
      /\ c \in Calls /\ CallTypeOK(w) /\ CommittingOK(w)
    BY CallFacts DEF ConfirmCommit, At
<1>2. ~c.staged BY <1>1 DEF CallTypeOK
<1>3. CASE Completes(w) BY <1>1, <1>2, <1>3, CompletesStep
<1>4. CASE /\ Confirmed(w) /\ Reports(w, TRUE) /\ claims' = claims \cup {r}
           /\ UNCHANGED <<calls, preps, passes, raced, leftStaged>>
    <2>1. RepositoryOK /\ RepositoryOK' /\ GitMove /\ EvidenceOK /\ ClaimsOK
        BY <1>1, ReadMove DEF IInv
    <2>2. /\ log[HeadSha].by = w /\ (w \notin raced => branch = c.branch)
        BY <1>1, <1>4 DEF CommittingOK, Confirmed
    <2>3. HeadSha \in 1..Len(log) BY <2>1, HeadsAreCommits
    <2>4. HeadSha \in Reach(HeadSha) BY <2>3, ReachHasSelf
    <2>5. PICK z \in BOOLEAN : z <=> w \in raced OBVIOUS
    <2>6. r = [by |-> w, branch |-> c.branch, sha |-> HeadSha, raced |-> z] BY <2>5
    <2>7. PICK q : q = r OBVIOUS
    <2> HIDE DEF r
    <2>8. /\ q.by = w /\ q.branch = c.branch /\ q.sha = HeadSha /\ q.raced = z
          /\ q \in [by : Instances, branch : Branches, sha : 1..Len(log), raced : BOOLEAN]
        BY <1>1, <2>3, <2>6, <2>7 DEF Calls
    <2>9. ~q.raced => refs[q.branch] = HeadSha
        BY <2>2, <2>5, <2>8 DEF HeadSha
    <2>10. ~q.raced => refs[q.branch] # 0 /\ q.sha \in Reach(refs[q.branch])
        BY <2>3, <2>4, <2>8, <2>9
    <2>11. UNCHANGED <<refs, log>> BY <1>1 DEF gitVars
    <2>12. \A b : Reach(refs[b])' = Reach(refs[b]) BY <2>11 DEF Reach, AncestorClosed
    <2>13. ASSUME NEW k \in claims'
           PROVE  /\ k \in [by : Instances, branch : Branches, sha : 1..Len(log'), raced : BOOLEAN]
                  /\ log'[k.sha].by = k.by
                  /\ ~k.raced => refs'[k.branch] # 0 /\ k.sha \in Reach(refs[k.branch])'
        <3>1. CASE k \in claims
            <4>1. /\ k \in [by : Instances, branch : Branches, sha : 1..Len(log), raced : BOOLEAN]
                  /\ log[k.sha].by = k.by
                  /\ ~k.raced => refs[k.branch] # 0 /\ k.sha \in Reach(refs[k.branch])
                BY <2>1, <3>1 DEF ClaimsOK
            <4>2. Reach(refs[k.branch])' = Reach(refs[k.branch]) BY <2>11 DEF Reach, AncestorClosed
            <4> QED BY <2>11, <4>1, <4>2
        <3>2. CASE k = q
            <4>1. Reach(refs[k.branch])' = Reach(refs[k.branch]) BY <2>11 DEF Reach, AncestorClosed
            <4> QED BY <2>2, <2>8, <2>10, <2>11, <3>2, <4>1
        <3> QED BY <1>4, <2>7, <3>1, <3>2
    <2>14. ClaimsOK' BY <2>13 DEF ClaimsOK
    <2>15. EvidenceOK' BY <1>4, <2>1, AllEvidenceStays
    <2> QED BY <1>1, <1>2, <1>4, <2>14, <2>15, ReportStep DEF Reports
<1> QED BY <1>3, <1>4 DEF ConfirmCommit

\* _restore_index
LEMMA RestoreStep ==
    ASSUME IInv, NEW w \in Instances, Restore(w)
    PROVE  IInv'
<1>1. /\ ResetPaths /\ Ends(w)
      /\ UNCHANGED <<calls, preps, passes, claims, raced, leftStaged>>
    BY DEF Restore, Completes, Reports
<1>2. call'[w] = Idle /\ call' = [call EXCEPT ![w] = call'[w]] BY <1>1, CallFacts DEF Ends
<1>3. CallOK(w)' BY <1>2, IdleIsOK
<1>4. RepositoryOK' /\ GitMove BY <1>1, ResetMove DEF IInv
<1>5. IndexExplained' BY <1>1 DEF IndexExplained, ResetPaths, Tree, HeadSha
<1>6. raced' \subseteq Instances /\ leftStaged' \in BOOLEAN BY <1>1 DEF IInv, CountersOK
<1>7. branch' = branch BY <1>1 DEF ResetPaths
<1> QED BY <1>1, <1>2, <1>3, <1>4, <1>5, <1>6, <1>7, ChangingStep

\* git reset failed or was stopped: what it left staged is recorded.
LEMMA RestoreInterruptedStep ==
    ASSUME IInv, NEW w \in Instances, RestoreInterrupted(w)
    PROVE  IInv'
<1>1. /\ ResetPaths \/ UNCHANGED gitVars
      /\ Ends(w) /\ leftStaged' = (leftStaged \/ index' # Tree(HeadSha))
      /\ UNCHANGED <<calls, preps, passes, claims, raced>>
    BY DEF RestoreInterrupted
<1>2. call'[w] = Idle /\ call' = [call EXCEPT ![w] = call'[w]] BY <1>1, CallFacts DEF Ends
<1>3. CallOK(w)' BY <1>2, IdleIsOK
<1>4. RepositoryOK' /\ GitMove BY <1>1, ResetMove, ReadMove DEF IInv
<1>5. UNCHANGED <<branch, refs, log>> BY <1>1 DEF ResetPaths, gitVars
<1>6. IndexExplained' BY <1>1, <1>5 DEF IndexExplained, Tree, HeadSha
<1>7. raced' \subseteq Instances /\ leftStaged' \in BOOLEAN BY <1>1 DEF IInv, CountersOK
<1> QED BY <1>1, <1>2, <1>3, <1>4, <1>5, <1>6, <1>7, ChangingStep

\* The process dies: what it had staged is recorded.
LEMMA DiesStep ==
    ASSUME IInv, NEW w \in Instances, Dies(w)
    PROVE  IInv'
<1>1. /\ UNCHANGED gitVars /\ Ends(w)
      /\ leftStaged' = (leftStaged \/ call[w].staged)
      /\ UNCHANGED <<calls, preps, passes, claims, raced>>
    BY DEF Dies
<1>2. call'[w] = Idle /\ call' = [call EXCEPT ![w] = call'[w]] BY <1>1, CallFacts DEF Ends
<1>3. CallOK(w)' BY <1>2, IdleIsOK
<1>4. RepositoryOK' /\ GitMove BY <1>1, ReadMove DEF IInv
<1>5. UNCHANGED <<branch, refs, log, index, merging>> BY <1>1 DEF gitVars
<1>6. IndexExplained'
    <2>1. Tree(HeadSha)' = Tree(HeadSha) BY <1>5 DEF Tree, HeadSha
    <2>2. \A v \in Instances : call[v].staged => call'[v].staged \/ leftStaged'
        <3>1. \A v \in Instances : v = w \/ call'[v] = call[v] BY <1>2, CallFacts
        <3> QED BY <1>1, <3>1
    <2> QED BY <1>1, <1>5, <2>1, <2>2 DEF IInv, IndexExplained
<1>7. raced' \subseteq Instances /\ leftStaged' \in BOOLEAN
    BY <1>1, CallFacts DEF IInv, CountersOK
<1> QED BY <1>1, <1>2, <1>3, <1>4, <1>5, <1>6, <1>7, ChangingStep

-----------------------------------------------------------------------------
\* All steps

\* What goes on beside the workflow leaves its calls in order.
LEMMA BesideStep ==
    ASSUME IInv, RepositoryOK', GitMove, UNCHANGED workflowVars, branch' = branch, IndexExplained'
    PROVE  IInv'
<1>1. UNCHANGED <<call, calls, preps, passes, claims, raced, leftStaged>> BY DEF workflowVars
<1>2. ASSUME NEW v \in Instances PROVE CallOK(v)'
    BY <1>1, OthersStay DEF IInv, CallsOK
<1>3. CallsOK' BY <1>1, <1>2 DEF IInv, CallsOK
<1>4. EvidenceOK' BY <1>1, AllEvidenceStays DEF IInv
<1>5. ClaimsOK' BY <1>1, ClaimsStay DEF IInv
<1>6. CountersOK' BY <1>1 DEF IInv, CountersOK
<1> QED BY <1>3, <1>4, <1>5, <1>6 DEF IInv

\* People and write tools.
LEMMA OutsiderKeeps ==
    ASSUME IInv, OutsiderStep, UNCHANGED workflowVars
    PROVE  IInv'
<1>1. /\ RepositoryOK' /\ GitMove /\ branch' = branch
      /\ \/ merging' \/ index' = Tree(HeadSha)'
         \/ ~merging /\ index' = index /\ Tree(HeadSha)' = Tree(HeadSha)
    BY OutsiderMove DEF IInv
<1>2. IndexExplained'
    <2>1. UNCHANGED <<call, leftStaged>> BY DEF workflowVars
    <2> QED BY <1>1, <2>1 DEF IInv, IndexExplained
<1> QED BY <1>1, <1>2, BesideStep

\* Nothing happens.
LEMMA StutterKeeps ==
    ASSUME IInv, UNCHANGED vars
    PROVE  IInv'
<1>1. RepositoryOK' /\ GitMove BY ReadMove DEF IInv, vars
<1>2. IndexExplained' BY DEF IInv, IndexExplained, vars, gitVars, workflowVars, Tree, HeadSha
<1> QED BY <1>1, <1>2, BesideStep DEF vars, gitVars

\* Every step keeps the invariant.
LEMMA NextKeeps ==
    ASSUME IInv, [Next]_vars
    PROVE  IInv'
<1>1. ASSUME NEW w \in Instances, Step(w) PROVE IInv'
    BY <1>1, LookStep, ExistsStep, RecheckBranchStep, SwitchBranchStep, ConfirmBranchStep,
       AddStep, InspectStep, RecheckCommitStep, CommitStep, ConfirmCommitStep, RestoreStep,
       AncestorStep, ReadBaseStep, MergesStep, CountStep, PrepareStep, DecideStep
       DEF Step
<1>2. ASSUME NEW w \in Instances, Fault(w) PROVE IInv'
    BY <1>2, InterruptedStep, AddInterruptedStep, SwitchInterruptedStep,
       CommitInterruptedStep, RestoreInterruptedStep, DiesStep
       DEF Fault
<1> QED BY <1>1, <1>2, RequestStep, OutsiderKeeps, StutterKeeps DEF Next

\* A workspace with one commit and no calls is in order.
LEMMA InitIsOK ==
    ASSUME Init
    PROVE  IInv
<1> USE DEF Init, GitInit, WorkflowInit
<1>1. /\ Len(log) = 1 /\ log[1] = [parents |-> {}, tree |-> Pristine, by |-> Outsider]
      /\ log[1].parents = {} /\ log[1].by = Outsider /\ Tree(1) = Pristine
      /\ Base \in Branches /\ HeadSha = 1 /\ BaseSha = 1
    BY DEF Branches, HeadSha, BaseSha, Tree
<1>2. RepositoryOK
    <2>1. log \in Seq(Commits)
        <3>1. [parents |-> {}, tree |-> Pristine, by |-> Outsider] \in Commits BY DEF Commits
        <3> QED BY <3>1
    <2>2. GitTypeOK
        <3>1. refs \in [Branches -> 0..Len(log)] BY <1>1
        <3>2. Len(log) <= MaxCommits /\ {index, worktree} \subseteq Contents BY <1>1
        <3>3. branch \in Branches /\ merging \in BOOLEAN BY <1>1
        <3>4. meddling \in 0..MaxMeddling
            <4>1. meddling = MaxMeddling /\ MaxMeddling \in Nat OBVIOUS
            <4> QED BY <4>1
        <3> QED BY <2>1, <3>1, <3>2, <3>3, <3>4 DEF GitTypeOK
    <2>3. \A c \in 1..Len(log) : c = 1 BY <1>1
    <2>4. ParentsExist BY <1>1, <2>3 DEF ParentsExist
    <2>5. RootIsReached
        <3>1. \A c \in 1..Len(log) : c \in Reach(c) BY ReachHasSelf
        <3> QED BY <2>3, <3>1 DEF RootIsReached
    <2>6. BaseIsForeign
        <3>1. Reach(BaseSha) \subseteq 1..Len(log) BY DEF Reach
        <3> QED BY <1>1, <2>3, <3>1 DEF BaseIsForeign
    <2>7. RefsExist /\ MergesAreOffBase BY <1>1 DEF RefsExist, MergesAreOffBase
    <2> QED BY <2>2, <2>4, <2>5, <2>6, <2>7 DEF RepositoryOK
<1>3. EvidenceOK BY DEF EvidenceOK
<1>4. Idle \in Calls BY IdleIsOK
<1>5. ASSUME NEW w \in Instances PROVE CallOK(w)
    <2>1. call[w] = Idle OBVIOUS
    <2>2. CallTypeOK(w) BY <1>4, <2>1 DEF CallTypeOK, Idle
    <2>3. CommittingOK(w) /\ PreparingOK(w) /\ ValidatingOK(w)
        BY <2>1 DEF CommittingOK, PreparingOK, ValidatingOK, Idle
    <2> QED BY <2>2, <2>3 DEF CallOK
<1>6. CallsOK BY <1>4, <1>5 DEF CallsOK
<1>7. CountersOK
    <2>1. \A w \in Instances : CallsOf[w] \in Nat /\ CallsOf[w] <= CallsOf[w] OBVIOUS
    <2> QED BY <2>1 DEF CountersOK
<1>8. ClaimsOK BY DEF ClaimsOK
<1>9. IndexExplained BY <1>1 DEF IndexExplained
<1> QED BY <1>2, <1>3, <1>6, <1>7, <1>8, <1>9 DEF IInv

-----------------------------------------------------------------------------
\* Theorems

\* The invariant holds throughout: whatever the calls of several GitWorkflow
\* objects interleave with, and however they end.
THEOREM Invariance == Spec => []IInv
<1>1. Init => IInv BY InitIsOK
<1>2. IInv /\ [Next]_vars => IInv' BY NextKeeps
<1> QED BY <1>1, <1>2, PTL DEF Spec

\* Every variable keeps its type, and only staged paths are ever restored.
THEOREM TypeCorrect == Spec => []TypeOK
<1>1. IInv => TypeOK
    <2> SUFFICES ASSUME IInv PROVE TypeOK OBVIOUS
    <2>1. GitTypeOK BY DEF IInv, RepositoryOK
    <2>2. ASSUME NEW w \in Instances
          PROVE  /\ call[w].op \in Operations /\ call[w].step \in Steps
                 /\ call[w].branch \in Branches /\ call[w].prep \in Preparations
                 /\ call[w].step = "idle" => call[w] = Idle
                 /\ call[w].step = "restore" => call[w].staged
                 /\ calls[w] \in 0..CallsOf[w]
        <3>1. call[w] \in Calls /\ CallTypeOK(w) BY CallFacts
        <3>2. calls[w] \in 0..CallsOf[w] BY DEF IInv, CountersOK
        <3> QED BY <3>1, <3>2 DEF Calls, CallTypeOK
    <2>3. \A c \in claims : c.sha \in 1..Len(log) /\ c.by \in Instances
        BY DEF IInv, ClaimsOK
    <2>4. /\ preps \subseteq Preparations /\ passes \subseteq preps
          /\ raced \subseteq Instances /\ leftStaged \in BOOLEAN
        BY DEF IInv, EvidenceOK, CountersOK
    <2> QED BY <2>1, <2>2, <2>3, <2>4 DEF TypeOK, WorkflowTypeOK
<1> QED BY <1>1, Invariance, PTL

\* A commit that commit_changes returns is the caller's own, however many
\* objects commit at once: the checks of HEAD after git commit suffice.
THEOREM CommitsAreOwn == Spec => []ReportedCommitIsOwn
<1>1. IInv => ReportedCommitIsOwn BY DEF IInv, ClaimsOK, ReportedCommitIsOwn
<1> QED BY <1>1, Invariance, PTL

\* No agent's commit reaches the base, and one that was returned stays on the
\* branch named, unless HEAD was switched under the call.
THEOREM CommitsAreOnBranch == Spec => []CommitsLandOnTheirBranch
<1>1. IInv => CommitsLandOnTheirBranch
    BY DEF IInv, RepositoryOK, BaseIsForeign, ClaimsOK, CommitsLandOnTheirBranch
<1> QED BY <1>1, Invariance, PTL

\* Once every call has ended nothing is left staged, unless git add was
\* stopped, the process died or the compensation failed.
THEOREM NothingStaysStaged == Spec => []IndexSettles
<1>1. IInv => IndexSettles
    <2> SUFFICES ASSUME IInv, \A w \in Instances : call[w].step = "idle", ~leftStaged, ~merging
                 PROVE  index = Tree(HeadSha)
        BY DEF IndexSettles
    <2>1. ASSUME NEW w \in Instances PROVE ~call[w].staged BY CallFacts DEF CallTypeOK
    <2> QED BY <2>1 DEF IInv, IndexExplained
<1> QED BY <1>1, Invariance, PTL

\* A PASS describes the head commit it names: whatever was committed between
\* the reads of the preparation, or between those of the validation, a
\* preparation put together from two states of the repository never passes.
THEOREM PassesDescribe == Spec => []PassDescribesItsHead
<1>1. IInv => PassDescribesItsHead BY DEF IInv, EvidenceOK, Describes, PassDescribesItsHead
<1> QED BY <1>1, Invariance, PTL
=============================================================================
