-------------------------- MODULE ProjectWorkspace --------------------------
(***************************************************************************)
(* The managed workspace of one project: the lock directory every          *)
(* operation takes (it is created, never waited for), the root under       *)
(* projects/, the staging, trash and transaction directories, the Git      *)
(* metadata that is kept outside the worktree, and the manager that        *)
(* provisions and removes all of it                                        *)
(* (src/infrastructure/workspaces/{filesystem,local,git,audit,paths}.py).  *)
(* The worktree is one file.                                               *)
(***************************************************************************)
EXTENDS Naturals, FiniteSets

CONSTANTS
    AgentRuns,      \* AgentRuns, whose tools work in the workspace
    Managers,       \* callers of LocalWorkspaceManager
    Faults          \* the faults a behaviour may contain

Actors == AgentRuns \cup Managers

\* "disk": a rename, a removal or a write of the operating system fails;
\* "audit": an audit row cannot be written; "overgrown": the tree outgrew the
\* limits it was imported under; "cancel": a task is cancelled; "crash": the
\* process dies; "stray": a command's process survives the command.
FaultKinds == {"disk", "audit", "overgrown", "cancel", "crash", "stray"}

ASSUME WorkspaceAssumption ==
    /\ AgentRuns \cap Managers = {}
    /\ Faults \subseteq FaultKinds

VARIABLES
    locked,     \* .locks/<project> exists
    holds,      \* actors that created it and have not removed it
    disk,       \* [root, file, repo]
    staging,    \* managers with a directory under .staging
    trash,      \* something is left under .trash
    areas,      \* runs with a directory under .transactions
    mgr,        \* step of each manager
    recorded,   \* history: root exists, by the last SUCCEEDED lifecycle event
    broken      \* history: what a step that failed and said so left behind

workspaceVars == <<locked, holds, disk, staging, trash, areas, mgr, recorded, broken>>

\* "base" was imported, "generated" was written by a command, a run's own name
\* stands for what it wrote last.
Content == {"absent", "base", "generated"} \cup AgentRuns

\* "inside": .git is a directory of the worktree; "moved": the metadata is
\* outside and the pointer is not written yet; "separated": both are in place;
\* "lost": a pointer to metadata that is gone.
Repository == {"none", "inside", "moved", "separated", "lost"}

NoWorkspace == [root |-> FALSE, file |-> "absent", repo |-> "none"]

WorkspaceInit ==
    /\ locked = FALSE
    /\ holds = {}
    /\ disk \in {NoWorkspace, [root |-> TRUE, file |-> "base", repo |-> "inside"]}
    /\ staging = {}
    /\ trash = FALSE
    /\ areas = {}
    /\ recorded = disk.root
    /\ broken = {}

Fails(fault) == fault \in Faults

\* acquire_lock: mkdir, which fails at once when the directory is there
AcquireLock(a) ==
    /\ ~locked
    /\ locked' = TRUE
    /\ holds' = holds \cup {a}

\* Slip: the lock is removed without knowing whether it was acquired.
ReleaseAnyway(a) ==
    /\ locked' = FALSE
    /\ holds' = holds \ {a}

\* release_lock in a "finally: if acquired"
ReleaseLock(a) ==
    /\ holds' = holds \ {a}
    /\ locked' = (IF a \in holds THEN FALSE ELSE locked)

At(m, step) == mgr[m] = step

Becomes(m, step) == mgr' = [mgr EXCEPT ![m] = step]

-----------------------------------------------------------------------------
\* validate_remote_url and validate_local_source refuse the request, or the
\* lock is taken: OPERATION_IN_PROGRESS.  Only a failure event is written.
ManagerRefused(m) ==
    /\ At(m, "idle")
    /\ ReleaseLock(m)
    /\ Becomes(m, "done")
    /\ UNCHANGED <<disk, staging, trash, areas, recorded, broken>>

\* create_staging: a directory of the operation's own
CreateStaging(m) == staging' = staging \cup {m}

\* _provision up to its await: create_workspace needs none, the other two
\* operations clone into the staging directory
StartProvision(m, populate) ==
    /\ At(m, "idle")
    /\ AcquireLock(m)
    /\ CreateStaging(m)
    /\ Becomes(m, populate)
    /\ UNCHANGED <<disk, trash, areas, recorded, broken>>

CreateWorkspace(m) == StartProvision(m, "create")

AttachOrClone(m) == StartProvision(m, "import")

\* _compensate with a staging directory: discarded, unless the disk fails
DiscardStaging(m) ==
    \/ staging' = staging \ {m}
    \/ Fails("disk") /\ UNCHANGED staging

Populating(m) == At(m, "create") \/ At(m, "import")

\* promote: the staged tree becomes the root
Promoted(m) == IF At(m, "import")
               THEN [root |-> TRUE, file |-> "base", repo |-> "inside"]
               ELSE [NoWorkspace EXCEPT !.root = TRUE]

\* scan_usage, promote and the SUCCEEDED event
Provisioned(m) ==
    /\ Populating(m) /\ ~disk.root
    /\ disk' = Promoted(m)
    /\ staging' = staging \ {m}
    /\ recorded' = TRUE
    /\ ReleaseLock(m)
    /\ Becomes(m, "done")
    /\ UNCHANGED <<trash, areas, broken>>

\* Slip: a root whose event could not be written is left in place.
ProvisionUncompensated(m) ==
    /\ Populating(m) /\ ~disk.root /\ Fails("audit")
    /\ disk' = Promoted(m)
    /\ staging' = staging \ {m}
    /\ ReleaseLock(m)
    /\ Becomes(m, "done")
    /\ UNCHANGED <<trash, areas, recorded, broken>>

\* The event of a promoted root cannot be written: the root goes to the trash
\* and is removed, and a compensation that fails is only reported as cleaned=False
ProvisionUnrecorded(m) ==
    /\ Populating(m) /\ ~disk.root /\ Fails("audit")
    /\ staging' = staging \ {m}
    /\ \/ UNCHANGED <<disk, trash, broken>>
       \/ /\ Fails("disk")
          /\ trash' = TRUE
          /\ broken' = broken \cup {"trash"}
          /\ UNCHANGED disk
       \/ /\ Fails("disk")
          /\ disk' = Promoted(m)
          /\ broken' = broken \cup {"record"}
          /\ UNCHANGED trash
    /\ ReleaseLock(m)
    /\ Becomes(m, "done")
    /\ UNCHANGED <<areas, recorded>>

\* scan_usage of the staged tree: more than a workspace may hold
TooLarge(m) == At(m, "import") /\ Fails("overgrown")

\* The clone fails or is cancelled, the staged tree is too large, or the root
\* exists: the staging directory is discarded and the failure recorded
ProvisionFails(m) ==
    /\ Populating(m)
    /\ \/ disk.root \/ Fails("disk")
       \/ At(m, "import") /\ Fails("cancel")
       \/ TooLarge(m)
    /\ DiscardStaging(m)
    /\ ReleaseLock(m)
    /\ Becomes(m, "done")
    /\ UNCHANGED <<disk, trash, areas, recorded, broken>>

-----------------------------------------------------------------------------
\* cleanup_workspace, first step: load_workspace finds no root
CleanupFindsNothing(m) ==
    /\ At(m, "idle")
    /\ ~locked /\ ~disk.root
    /\ Becomes(m, "done")
    /\ UNCHANGED <<locked, holds, disk, staging, trash, areas, recorded, broken>>

\* remove_managed_git_directory: the metadata goes before the worktree does
StartCleanup(m) ==
    /\ At(m, "idle")
    /\ disk.root
    /\ AcquireLock(m)
    /\ disk' = [disk EXCEPT !.repo = IF @ \in {"separated", "moved"} THEN "lost" ELSE @]
    /\ Becomes(m, "trash")
    /\ UNCHANGED <<staging, trash, areas, recorded, broken>>

\* move_to_trash
MoveToTrash(m) ==
    /\ At(m, "trash")
    /\ disk' = NoWorkspace
    /\ trash' = TRUE
    /\ Becomes(m, "remove")
    /\ UNCHANGED <<locked, holds, staging, areas, recorded, broken>>

\* The rename fails: the worktree stays, without its metadata
MoveToTrashFails(m) ==
    /\ At(m, "trash")
    /\ Fails("disk")
    /\ broken' = IF disk.repo = "lost" THEN broken \cup {"repo"} ELSE broken
    /\ ReleaseLock(m)
    /\ Becomes(m, "done")
    /\ UNCHANGED <<disk, staging, trash, areas, recorded>>

\* The SUCCEEDED event of a cleanup, or none at all: the root is gone already
RecordCleanup ==
    \/ recorded' = FALSE /\ UNCHANGED broken
    \/ /\ Fails("audit")
       /\ broken' = broken \cup {"record"}
       /\ UNCHANGED recorded

\* remove_owned_tree and the event; a tree that outgrew the import limits, or
\* that the disk does not remove, stays in the trash
RemoveTrash(m) ==
    /\ At(m, "remove")
    /\ \/ /\ trash' = (Cardinality({w \in Managers : At(w, "remove")}) > 1 \/ "trash" \in broken)
          /\ RecordCleanup
       \/ /\ Fails("overgrown") \/ Fails("disk")
          /\ broken' = broken \cup {"trash", "record"}
          /\ UNCHANGED <<trash, recorded>>
    /\ ReleaseLock(m)
    /\ Becomes(m, "done")
    /\ UNCHANGED <<disk, staging, areas>>

ManagerStep(m) ==
    \/ CreateWorkspace(m) \/ AttachOrClone(m)
    \/ Provisioned(m) \/ ProvisionUnrecorded(m) \/ ProvisionFails(m)
    \/ StartCleanup(m) \/ MoveToTrash(m) \/ MoveToTrashFails(m) \/ RemoveTrash(m)

-----------------------------------------------------------------------------
\* ensure_managed_git_directory, which a Git command profile calls under the
\* lock; "moved" is what a process that died between the rename and the
\* pointer left, and is repaired
SeparateGit ==
    /\ disk.repo \in {"inside", "moved", "separated"}
    /\ disk' = [disk EXCEPT !.repo = "separated"]

\* The pointer cannot be written: the metadata goes back where it was
SeparateGitFails ==
    /\ Fails("disk") \/ disk.repo \in {"none", "lost"}
    /\ UNCHANGED disk

WorkspaceTypeOK ==
    /\ locked \in BOOLEAN
    /\ holds \subseteq Actors
    /\ disk \in [root : BOOLEAN, file : Content, repo : Repository]
    /\ staging \subseteq Managers
    /\ trash \in BOOLEAN
    /\ areas \subseteq AgentRuns
    /\ mgr \in [Managers -> {"absent", "idle", "create", "import", "trash", "remove", "done", "dead"}]
    /\ recorded \in BOOLEAN
    /\ broken \subseteq {"trash", "repo", "record", "file"}

=============================================================================
