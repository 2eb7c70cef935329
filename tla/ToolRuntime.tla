---------------------------- MODULE ToolRuntime ----------------------------
(***************************************************************************)
(* AgentRuns whose tools share one project workspace with each other and   *)
(* with the workspace manager.  AgentRuns live in one worker process; a    *)
(* manager call has a process of its own.                                  *)
(***************************************************************************)
EXTENDS AgentRuntime

CONSTANTS
    Casts,              \* which actors take part, one alternative per behaviour
    Nobody, Orphaned

ASSUME CastAssumption == Casts \subseteq SUBSET Actors

Init ==
    /\ WorkspaceInit
    /\ ToolInit
    /\ \E cast \in Casts :
          /\ RuntimeInit(cast \cap AgentRuns)
          /\ mgr = [m \in Managers |-> IF m \in cast THEN "idle" ELSE "absent"]

Running(r) == pc[r] \in Steps

\* Every task of the worker process is gone; its locks, files, rows and the
\* commands it spawned (in sessions of their own) are not
WorkerDies ==
    /\ Fails("crash")
    /\ \E r \in AgentRuns : Running(r)
    /\ pc' = [r \in AgentRuns |-> IF Running(r) THEN "dead" ELSE pc[r]]
    /\ call' = [r \in AgentRuns |-> NoCall]
    /\ loop' = [r \in AgentRuns |-> Fresh]
    /\ holds' = holds \ AgentRuns
    /\ UNCHANGED <<locked, disk, staging, trash, areas, mgr, recorded, broken,
                   posture, backup, processes, openRows, excused, stopAsked,
                   ending, terminals>>

\* So is the process of a manager, at any step of its operation
ManagerDies(m) ==
    /\ Fails("crash")
    /\ mgr[m] \in {"create", "import", "trash", "remove"}
    /\ Becomes(m, "dead")
    /\ holds' = holds \ {m}
    /\ UNCHANGED <<locked, disk, staging, trash, areas, recorded, broken>>

RunStep(r) ==
    \/ LoopStep(r)
    \/ CallStep(r) /\ UNCHANGED runtimeVars

\* What the environment may do to a run, or not
RunEvent(r) ==
    \/ /\ Running(r)
       /\ \/ /\ pc[r] = "decide"   \* bound: it matters to the next call only
             /\ \E p \in {"revoked", "unscoped", "demoted"} : ChangePosture(r, p)
          \/ CallUnaudited(r)
          \/ \E cause \in {"profile", "tool", "timeout", "cancel"} : CommandInterrupted(r, cause)
          \/ \E cause \in {"timeout", "cancel"} : InterruptPending(r, cause)
       /\ UNCHANGED runtimeVars
    \/ \E cause \in {"timeout", "cancel"} : Interrupted(r, cause)
    \/ StepUnaudited(r)
    \/ CommandWrites(r) /\ UNCHANGED runtimeVars

ManagerEvent(m) == ManagerRefused(m) \/ CleanupFindsNothing(m) \/ ManagerDies(m)

Next ==
    \/ \E r \in AgentRuns : RunStep(r) \/ RunEvent(r)
    \/ \E m \in Managers :
          (ManagerStep(m) \/ ManagerEvent(m)) /\ UNCHANGED <<toolVars, runtimeVars>>
    \/ WorkerDies

Spec == Init /\ [][Next]_vars

-----------------------------------------------------------------------------
TypeOK == WorkspaceTypeOK /\ ToolTypeOK /\ RuntimeTypeOK

Ended(r) == pc[r] \in Ends

\* The lock has one holder at most, while it has one it exists, its holder is
\* at work (nobody ends without giving it back), and whoever has an effect
\* pending or a command running that is not a stray has it.
LockProtects ==
    /\ Cardinality(holds) <= 1
    /\ holds # {} => locked
    /\ \A r \in holds \cap AgentRuns : pc[r] = "act"
    /\ \A m \in holds \cap Managers : mgr[m] \in {"create", "import", "trash", "remove"}
    /\ \A r \in AgentRuns : Running(r) /\ HasTransaction(r) => r \in holds
    /\ "file" \notin broken => \A r \in processes : r \in holds \/ pc[r] = "dead"

\* What can be relied on in the worktree: what was there before the pending
\* mutation.
Settled == IF \E r \in AgentRuns : HasTransaction(r)
           THEN LET r == CHOOSE x \in AgentRuns : HasTransaction(x)
                IN  [disk EXCEPT !.file = backup[r]]
           ELSE disk

Writer == IF ~locked THEN Nobody
          ELSE IF holds = {} THEN Orphaned
          ELSE CHOOSE a \in Actors : a \in holds

Worktree == INSTANCE ExclusiveWriter WITH
    Writers <- Actors, content <- Settled, writer <- Writer, torn <- "file" \in broken

\* The worktree has one writer at a time, across tools, commands, the
\* workspace manager, interruptions and dead processes.
WorkspaceHasOneWriter == Worktree!Spec

\* "Output validation failure, audit failure, or cancellation restores the
\* original state first" (docs/write-tools.md): a mutation stays only if its
\* call was audited as SUCCEEDED, unless the compensation itself failed.
EffectsAreAudited ==
    [][\A r \in AgentRuns :
          HasTransaction(r) /\ backup'[r] = NoBackup /\ "file" \notin broken'
              => IF InStage(r, "audited") THEN disk'.file = disk.file
                 ELSE disk'.file = backup[r]]_vars

\* A run that ended leaves no row of its calls at RUNNING, and wrote exactly
\* one terminal event, unless an audit write or a compensation failed.
EndedRunsAreAccounted ==
    \A r \in AgentRuns : Ended(r) /\ r \notin excused => openRows[r] = 0 /\ terminals[r] = 1

\* While nobody works in it, the workspace exists exactly if the last lifecycle
\* event that SUCCEEDED says so; a step that failed said so.
RecordedRootIsThere ==
    ~locked /\ broken \cap {"record"} = {} => disk.root = recorded

\* A cancelled run ends as cancelled, and calls no tool on the way, unless an
\* audit write that failed took the place of the cancellation.
CancellationWins ==
    \A r \in stopAsked \ excused :
        pc[r] \in {"cancelled", "dead"} \/ (pc[r] = "act" /\ call[r].stage \in {"stopping", "replied"})

\* No step of a run starts with its token budget used up, its failures at the
\* limit (the limit 0 allows none to happen) or a call above the limit.
WithinLimits ==
    \A r \in AgentRuns : pc[r] \in Steps \ {"report"} =>
        /\ loop[r].tokens < LimitsOf[r].tokens
        /\ loop[r].failures < LimitsOf[r].failures \/ loop[r].failures = 0
        /\ loop[r].calls <= LimitsOf[r].calls
        /\ loop[r].streak < LimitsOf[r].window

\* A run that lost what it needs in the policy's eyes gets no tool authorized:
\* the rows are read at every call, not once per run.
RevokedRunsAreRefused ==
    [][\A r \in AgentRuns :
          InStage(r, "begin") /\ posture[r] \in {"revoked", "unscoped"}
              => call'[r].stage # "run"]_vars

=============================================================================
