------------------------------ MODULE ToolCall ------------------------------
(***************************************************************************)
(* One tool call of an AgentRun, from ToolExecutor.execute                 *)
(* (src/core/tools/executor.py) down to the tools: reads, file mutations   *)
(* that stay reversible until the executor has audited them                *)
(* (src/infrastructure/tools/{write,mutations}.py) and command profiles    *)
(* that hold the project lock while their process lives                    *)
(* (src/infrastructure/tools/command.py, src/infrastructure/commands).     *)
(* Everything between two awaits is one step.                              *)
(***************************************************************************)
EXTENDS ProjectWorkspace, PermissionPolicy

CONSTANTS
    RoleOf,     \* "developer", "qa" or "security": the policy of a run
    ToolsOf,    \* the tools a run's context declares
    AutonomyOf, \* autonomy level of a run's agent
    NoBackup

Mutations == {"write", "create", "patch", "delete"}
Commands  == {"command", "gitcommand"}
Reads     == {"read", "gitread"}
Tools     == Mutations \cup Commands \cup Reads

ASSUME ToolAssumption ==
    /\ RoleOf \in [AgentRuns -> {"developer", "qa", "security"}]
    /\ ToolsOf \in [AgentRuns -> SUBSET Tools]
    /\ AutonomyOf \in [AgentRuns -> Nat]
    /\ NoBackup \notin Content

VARIABLES
    posture,    \* what the policy finds about a run's agent
    call,       \* [stage, tool, cause, reply] of each run's current call
    backup,     \* the content a pending mutation would restore
    processes,  \* runs whose command process group is alive
    openRows,   \* tool_calls rows of each run that say RUNNING
    excused,    \* history: runs that lost an audit write or a compensation
    stopAsked   \* history: runs whose task was cancelled

toolVars == <<posture, call, backup, processes, openRows, excused, stopAsked>>

\* "begin": the executor is called; "run": authorized; "process": a command is
\* running; "stopping": it is being terminated; "pending": the effect is there,
\* the executor is at its sleep(0); "audited": the row says SUCCEEDED
Stages == {"none", "begin", "run", "process", "stopping", "pending", "audited", "replied"}

\* Why a call is interrupted: the profile's or the tool's deadline, the
\* runtime's deadline, or a cancelled task
Causes == {"none", "profile", "tool", "timeout", "cancel"}

Replies == {"none", "succeeded", "failed", "denied", "approval",
            "auditFailed", "compensation", "interrupted"}

NoCall == [stage |-> "none", tool |-> "read", cause |-> "none", reply |-> "none"]

ToolInit ==
    /\ posture = [r \in AgentRuns |-> "granted"]
    /\ call = [r \in AgentRuns |-> NoCall]
    /\ backup = [r \in AgentRuns |-> NoBackup]
    /\ processes = {}
    /\ openRows = [r \in AgentRuns |-> 0]
    /\ excused = {}
    /\ stopAsked = {}

\* The task of r is cancelled, if that is the cause
AskedToStop(r, cause) ==
    /\ cause = "cancel" => Fails("cancel")
    /\ stopAsked' = IF cause = "cancel" THEN stopAsked \cup {r} ELSE stopAsked

InStage(r, stage) == call[r].stage = stage

Stage(r, stage) == call' = [call EXCEPT ![r].stage = stage]

Reply(r, reply) == call' = [call EXCEPT ![r].stage = "replied", ![r].reply = reply]

-----------------------------------------------------------------------------
\* Slip: the row is closed only when the tool succeeded.
FinishAuditOfSuccessOnly(r, reply) ==
    \/ /\ openRows' = [openRows EXCEPT ![r] = IF reply = "succeeded" THEN @ - 1 ELSE @]
       /\ Reply(r, reply)
       /\ UNCHANGED excused
    \/ /\ Fails("audit")
       /\ Reply(r, "auditFailed")
       /\ excused' = excused \cup {r}
       /\ UNCHANGED openRows

\* _failure_result, and the audit of a cancellation: the row is closed and the
\* reply goes to the runtime; if it cannot be written, ToolAuditError does, also
\* in place of a CancelledError
FinishAudit(r, reply) ==
    \/ /\ openRows' = [openRows EXCEPT ![r] = @ - 1]
       /\ Reply(r, reply)
       /\ UNCHANGED excused
    \/ /\ Fails("audit")
       /\ Reply(r, "auditFailed")
       /\ excused' = excused \cup {r}
       /\ UNCHANGED openRows

RequestOf(r) ==
    LET tool == call[r].tool
    IN  [tool |-> tool,
         risk |-> CASE tool \in Reads -> "LOW"
                    [] tool \in {"write", "create", "patch"} -> "MEDIUM"
                    [] OTHER -> "HIGH",
         required |-> CASE tool = "read" -> {"FILESYSTEM_READ"}
                        [] tool = "gitread" -> {"GIT_READ"}
                        [] tool \in Mutations -> {"FILESYSTEM_WRITE"}
                        [] OTHER -> {"SHELL_EXECUTE", "TESTS_EXECUTE"}]

\* The decision of the run's policy on the rows as they are now
DecisionFor(r) ==
    LET scoped == posture[r] # "unscoped"
        granted == IF posture[r] = "revoked" THEN {} ELSE RequestOf(r).required
        autonomy == IF posture[r] = "demoted" THEN 0 ELSE AutonomyOf[r]
    IN  CASE RoleOf[r] = "developer" -> DeveloperPolicy(RequestOf(r), scoped, granted, autonomy)
          [] RoleOf[r] = "qa"        -> QAPolicy(RequestOf(r), scoped, granted)
          [] OTHER                   -> SecurityPolicy(RequestOf(r), scoped, granted)

\* Somebody revokes a grant, reassigns the task or lowers the agent's autonomy
ChangePosture(r, p) ==
    /\ posture[r] = "granted"
    /\ posture' = [posture EXCEPT ![r] = p]
    /\ UNCHANGED <<workspaceVars, call, backup, processes, openRows, excused, stopAsked>>

\* begin cannot write its row, or does not find the run's scope
CallUnaudited(r) ==
    /\ InStage(r, "begin")
    /\ Fails("audit")
    /\ Reply(r, "auditFailed")
    /\ excused' = excused \cup {r}
    /\ UNCHANGED <<workspaceVars, posture, backup, processes, openRows, stopAsked>>

\* execute, up to the tool: registered and declared, permitted, valid input.
\* The row is opened first and closed by every refusal.
Refused(r, reply) ==
    /\ InStage(r, "begin")
    /\ \/ /\ openRows' = openRows
          /\ Reply(r, reply)
          /\ UNCHANGED excused
       \/ /\ Fails("audit")
          /\ openRows' = [openRows EXCEPT ![r] = @ + 1]
          /\ Reply(r, "auditFailed")
          /\ excused' = excused \cup {r}
    /\ UNCHANGED <<workspaceVars, posture, backup, processes, stopAsked>>

\* Slip: the RUNNING row is not written before the tool starts.
AuthorizedUnaudited(r) ==
    /\ InStage(r, "begin")
    /\ Stage(r, "run")
    /\ UNCHANGED <<workspaceVars, posture, backup, processes, openRows, excused, stopAsked>>

\* The tool may run: its row says RUNNING
Authorized(r) ==
    /\ InStage(r, "begin")
    /\ openRows' = [openRows EXCEPT ![r] = @ + 1]
    /\ Stage(r, "run")
    /\ UNCHANGED <<workspaceVars, posture, backup, processes, excused, stopAsked>>

\* Slip: a tool the run declares is not put to the policy.
AdmitDeclared(r) ==
    IF call[r].tool \in ToolsOf[r] THEN Authorized(r) ELSE Refused(r, "failed")

Admit(r) ==
    IF call[r].tool \notin ToolsOf[r] THEN Refused(r, "failed")
    ELSE \E answer \in Evaluate(RequestOf(r), DecisionFor(r)) :
            CASE answer = "ALLOW" -> Authorized(r) \/ Refused(r, "failed")
              [] answer = "ASK"   -> Refused(r, "approval")
              [] answer = "DENY"  -> Refused(r, "denied")
              [] OTHER            -> Fails("audit") /\ Refused(r, "failed")

-----------------------------------------------------------------------------
\* The content a mutation leaves; none when it refuses the file it finds.
\* _replace_unlocked, _create_unlocked, _patch_unlocked, _delete_unlocked
Mutated(r, tool) ==
    CASE tool = "write"  -> IF disk.file = "absent" THEN {} ELSE {r}
      [] tool = "create" -> IF disk.file = "absent" THEN {r} ELSE {}
      [] tool = "patch"  -> IF disk.file \in {"absent", r} THEN {} ELSE {r}
      [] OTHER           -> IF disk.file = "absent" THEN {} ELSE {"absent"}

\* _locked around one of the four: the lock is kept with the pending transaction
Mutate(r) ==
    /\ InStage(r, "run") /\ call[r].tool \in Mutations
    /\ AcquireLock(r)
    /\ disk.root
    /\ \E content \in Mutated(r, call[r].tool) : disk' = [disk EXCEPT !.file = content]
    /\ areas' = areas \cup {r}
    /\ backup' = [backup EXCEPT ![r] = disk.file]
    /\ Stage(r, "pending")
    /\ UNCHANGED <<staging, trash, mgr, recorded, broken, posture, processes, openRows, excused, stopAsked>>

\* The lock is taken, there is no root, the file is not what the tool needs, or
\* the disk fails (which leaves the transaction directory behind): no effect
MutateFails(r) ==
    /\ InStage(r, "run") /\ call[r].tool \in Mutations
    /\ FinishAudit(r, "failed")
    /\ areas' \in {areas} \cup (IF Fails("disk") /\ ~locked THEN {areas \cup {r}} ELSE {})
    /\ UNCHANGED <<locked, holds, disk, staging, trash, mgr, recorded, broken,
                   posture, backup, processes, stopAsked>>

\* Any tool but a mutation may fail without having had an effect
Reading(r, tool, possible) ==
    /\ InStage(r, "run") /\ call[r].tool = tool
    /\ \/ possible /\ Stage(r, "pending") /\ UNCHANGED <<openRows, excused>>
       \/ FinishAudit(r, "failed")
    /\ UNCHANGED <<workspaceVars, posture, backup, processes, stopAsked>>

\* A read tool awaits between resolving its path and returning; it takes no lock
Read(r) == Reading(r, "read", disk.root)

\* git_status and git_diff run a process, which needs a repository and the
\* pointer to it; they take no lock either
GitRead(r) == Reading(r, "gitread", disk.root /\ disk.repo \in {"inside", "separated"})

\* CommandPolicy.acquire and resolve, then LocalCommandRunner spawns the process
StartCommand(r) ==
    /\ InStage(r, "run") /\ call[r].tool \in Commands
    /\ disk.root
    /\ AcquireLock(r)
    /\ IF call[r].tool = "gitcommand" THEN SeparateGit ELSE UNCHANGED disk
    /\ processes' = processes \cup {r}
    /\ Stage(r, "process")
    /\ UNCHANGED <<staging, trash, areas, mgr, recorded, broken, posture, backup, openRows, excused, stopAsked>>

\* Root or lock unavailable, no evidence of the profile, Git metadata unusable,
\* or the process cannot be spawned: the lock, if acquired, is released
CommandUnavailable(r) ==
    /\ InStage(r, "run") /\ call[r].tool \in Commands
    /\ call[r].tool = "gitcommand" => SeparateGitFails
    /\ FinishAudit(r, "failed")
    /\ UNCHANGED <<workspaceVars, posture, backup, processes, stopAsked>>

\* The process writes into the worktree
CommandWrites(r) ==
    /\ r \in processes
    /\ disk.root
    /\ disk' = [disk EXCEPT !.file = "generated"]
    /\ UNCHANGED <<locked, holds, staging, trash, areas, mgr, recorded, broken, toolVars>>

\* The leader has exited and both pipes are at their end.  A child that closed
\* them stays; nothing looks at the group.
CommandExits(r) ==
    /\ InStage(r, "process")
    /\ processes' \in {processes \ {r}} \cup (IF Fails("stray") THEN {processes} ELSE {})
    /\ broken' = IF r \in processes' THEN broken \cup {"file"} ELSE broken
    /\ ReleaseLock(r)
    /\ Stage(r, "pending")
    /\ UNCHANGED <<disk, staging, trash, areas, mgr, recorded, posture, backup, openRows, excused, stopAsked>>

\* A deadline or a cancellation reaches the runner, which terminates the group;
\* a cancellation during the termination does not cut it short
CommandInterrupted(r, cause) ==
    /\ \/ InStage(r, "process")
       \/ InStage(r, "stopping") /\ cause \in {"cancel", "timeout"}
    /\ AskedToStop(r, cause)
    /\ call' = [call EXCEPT ![r].stage = "stopping",
                            ![r].cause = IF @ = "cancel" THEN @ ELSE cause]
    /\ UNCHANGED <<workspaceVars, posture, backup, processes, openRows, excused>>

\* Slip: the lock is given back before the process is gone.
StopReleasingFirst(r) ==
    /\ InStage(r, "process")
    /\ ReleaseLock(r)
    /\ Stage(r, "pending")
    /\ UNCHANGED <<disk, staging, trash, areas, mgr, recorded, broken,
                   posture, backup, processes, openRows, excused, stopAsked>>

\* Slip: the termination of a cancelled command is one more failure of it.
StopReplyFailed(r) == "failed"

\* A deadline of the call is a result, one of the run goes on as an exception
StopReply(r) == IF call[r].cause \in {"cancel", "timeout"} THEN "interrupted" ELSE "failed"

\* _stop_process: SIGTERM, the grace period, SIGKILL; TERMINATION_FAILED is
\* suppressed or mapped like any failure, and the lock is released either way
CommandStopped(r) ==
    /\ InStage(r, "stopping")
    /\ processes' \in {processes \ {r}} \cup (IF Fails("stray") THEN {processes} ELSE {})
    /\ broken' = IF r \in processes' THEN broken \cup {"file"} ELSE broken
    /\ ReleaseLock(r)
    /\ FinishAudit(r, StopReply(r))
    /\ UNCHANGED <<disk, staging, trash, areas, mgr, recorded, posture, backup, stopAsked>>

-----------------------------------------------------------------------------
\* _LocalMutationTransaction: what a rollback would put back
HasTransaction(r) == backup[r] # NoBackup

\* commit: the backup and the transaction directory go, then the lock
CommitTransaction(r) ==
    /\ areas' = areas \ {r}
    /\ backup' = [backup EXCEPT ![r] = NoBackup]
    /\ ReleaseLock(r)
    /\ UNCHANGED <<disk, broken>>

\* Slip: a rollback removes the backup without putting it back.
RollbackForgetsFile(r) == CommitTransaction(r)

\* rollback: a created file is unlinked, any other gets its backup back
RollbackTransaction(r) ==
    /\ disk' = [disk EXCEPT !.file = backup[r]]
    /\ areas' = areas \ {r}
    /\ backup' = [backup EXCEPT ![r] = NoBackup]
    /\ ReleaseLock(r)
    /\ UNCHANGED broken

\* rollback raises COMPENSATION_FAILED; the lock is released all the same
RollbackTorn(r) ==
    /\ HasTransaction(r) /\ Fails("disk")
    /\ broken' = broken \cup {"file"}
    /\ backup' = [backup EXCEPT ![r] = NoBackup]
    /\ ReleaseLock(r)
    /\ Reply(r, "compensation")
    /\ excused' = excused \cup {r}
    /\ UNCHANGED <<disk, areas, openRows>>

\* _rollback(None) does nothing
Undo(r) ==
    IF HasTransaction(r) THEN RollbackTransaction(r)
    ELSE UNCHANGED <<locked, holds, disk, areas, broken, backup>>

\* The output is not valid: undo first, then the audit
AbandonCall(r) ==
    /\ InStage(r, "pending")
    /\ \/ Undo(r) /\ FinishAudit(r, "failed")
       \/ RollbackTorn(r)
    /\ UNCHANGED <<staging, trash, mgr, recorded, posture, processes, stopAsked>>

\* The runtime's deadline or a cancellation, at the sleep(0) or in a read tool
InterruptPending(r, cause) ==
    /\ InStage(r, "pending") \/ (InStage(r, "run") /\ call[r].tool \in Reads)
    /\ AskedToStop(r, cause)
    /\ \/ /\ Undo(r)
          /\ \/ /\ openRows' = [openRows EXCEPT ![r] = @ - 1]
                /\ call' = [call EXCEPT ![r].stage = "replied", ![r].reply = "interrupted",
                                        ![r].cause = cause]
                /\ UNCHANGED excused
             \/ /\ Fails("audit")
                /\ Reply(r, "auditFailed")
                /\ excused' = excused \cup {r}
                /\ UNCHANGED openRows
       \/ RollbackTorn(r)
    /\ UNCHANGED <<staging, trash, mgr, recorded, posture, processes>>

\* The SUCCEEDED row is written while the effect can still be undone ...
AuditSuccess(r) ==
    /\ InStage(r, "pending")
    /\ openRows' = [openRows EXCEPT ![r] = @ - 1]
    /\ Stage(r, "audited")
    /\ UNCHANGED <<workspaceVars, posture, backup, processes, excused, stopAsked>>

\* ... and if it cannot be written the effect is undone
AuditSuccessFails(r) ==
    /\ InStage(r, "pending")
    /\ Fails("audit")
    /\ \/ Undo(r) /\ Reply(r, "auditFailed") /\ excused' = excused \cup {r}
       \/ RollbackTorn(r)
    /\ UNCHANGED <<staging, trash, mgr, recorded, posture, processes, openRows, stopAsked>>

\* _commit; what it cannot remove stays behind, and the caller is told
CommitCall(r) ==
    /\ InStage(r, "audited")
    /\ \/ /\ IF HasTransaction(r) THEN CommitTransaction(r)
             ELSE UNCHANGED <<locked, holds, disk, areas, broken, backup>>
          /\ Reply(r, "succeeded")
          /\ UNCHANGED excused
       \/ /\ HasTransaction(r) /\ Fails("disk")
          /\ backup' = [backup EXCEPT ![r] = NoBackup]
          /\ ReleaseLock(r)
          /\ Reply(r, "compensation")
          /\ excused' = excused \cup {r}
          /\ UNCHANGED <<disk, areas, broken>>
    /\ UNCHANGED <<staging, trash, mgr, recorded, posture, processes, openRows, stopAsked>>

\* What the event loop owes a call that runs
CallStep(r) ==
    \/ Admit(r) \/ Mutate(r) \/ MutateFails(r) \/ Read(r) \/ GitRead(r)
    \/ StartCommand(r) \/ CommandUnavailable(r) \/ CommandExits(r) \/ CommandStopped(r)
    \/ AbandonCall(r) \/ AuditSuccess(r) \/ AuditSuccessFails(r) \/ CommitCall(r)

ToolTypeOK ==
    /\ posture \in [AgentRuns -> {"granted", "revoked", "unscoped", "demoted"}]
    /\ call \in [AgentRuns -> [stage : Stages, tool : Tools, cause : Causes, reply : Replies]]
    /\ backup \in [AgentRuns -> Content \cup {NoBackup}]
    /\ processes \subseteq AgentRuns
    /\ openRows \in [AgentRuns -> Nat]
    /\ excused \subseteq AgentRuns
    /\ stopAsked \subseteq AgentRuns

=============================================================================
