# A TLA+ development of SynapseOS

SynapseOS coordinates AI agents that develop software: tasks move through a
delivery graph, workflow stages run Developer, Reviewer, QA and Security agents
against a task row in PostgreSQL, an in-process queue executes agent runs, each
run calls tools that change a shared workspace under permissions and an audit
trail, and a flow of seventeen stages leads a project from its specification to
its closure.
This directory holds TLA+ modules of the parts where steps of several actors
meet, TLC configurations that check them on small instances, and TLAPS proofs
of what matters most for every instance. `PROJECT.json` lists the components,
runs, the source lines behind each definition, and the hazards.

Every path below is relative to `src/`.

## The system

### Components, their state and how they interact

| Component | State it keeps | Operations | Interacts by |
|---|---|---|---|
| Task state machine (`core/tasks/state_machine.py`) and status guard (`infrastructure/database/task_status_guard.py`) | `tasks.status`; per session the loaded and the current value and the pending authorizations | `transition`; the hooks before flush, after flush and after rollback | called by every workflow stage and by anybody with a session; rows and append-only audit events |
| Developer-Reviewer workflow (`core/workflows/orchestrator.py`, `audit.py`, `validation.py`) | `checkpoint_status` and the cycle of each call; the row's status and assignee | `run`: preflight, assignment, develop, hand-off, review, next cycle, exhausted, escalation | row lock, audit log; awaits the agents |
| QA stage (`qa_*.py` there) | QA_STARTED, QA_COMPLETED and QA_ESCALATED events | `run`: locked preflight and claim, verdict, escalation | as above |
| Security stage (`security_*.py` there) | SECURITY_* events | `run`: preflight, claim, verdict, escalation | as above |
| AgentRun queue (`infrastructure/queue/in_memory.py`) | bounded queue, statuses, cancel events, heartbeats, handler tasks, locks per task, `_recovery_requested` | `enqueue`, `start`, `stop`, `cancel`, `heartbeat`, `recover_stale_runs`, the worker loop | one event loop; handlers supplied by callers |
| Agent runtime loop (`core/runtime`) | counters of one run (tokens, calls, failures, stagnation), its step | `run`: observe, plan, decide, act, observe the result, verify, report | awaits the reasoner and the tool executor; writes audit events |
| Tool executor and tools (`core/tools`, `infrastructure/tools`) | the open audit row of a call, its pending mutation with a backup | `execute`: permission, STARTED row, run, terminal row, commit or roll back | permission engine, project lock, worktree |
| Permission engine (`core/permissions`, `infrastructure/permissions`) | none of its own; reads grants, autonomy and assignment at every call | `evaluate` under the policy of the role, with an audit row | called by the executor |
| Command runner (`infrastructure/commands`) | the process group, the lock it holds | acquire, resolve, spawn, wait, terminate, kill | started by command tools |
| Workspaces (`core/workspaces`, `infrastructure/workspaces`) | root, staging, trash and transaction directories, lock directory, separated Git metadata, lifecycle rows | create, attach, clone, clean up | file system; shares the lock with the tools |
| Local Git workflow (`core/git_workflow`, `infrastructure/git`) | an `asyncio.Lock` per object; the repository; audit rows | status, diff, history, create branch, commit, prepare, validate | Git processes, beside the tools and other objects |
| Pull-request records and merge gate (`core/pull_requests`, `infrastructure/pull_requests`) | append-only pull requests, reviews and approvals per head commit | create, review, approve, `evaluate` | reads the events of the role workflows and of the Git workflow |
| Git provider (`core/git_providers`, `infrastructure/git/github`) | none; audit rows of a merge | `merge_pull_request`, remote reads and writes | HTTP; the merge gate |
| Agents and their gates (`core/developer`, `core/reviewer`, `core/qa`, `core/security`) | what one run has collected | one `run` each: preflight, evidence, provider call, gate, report | awaited by the stages |
| Intake, architecture, decomposition (`core/intake`, ...) | none; results handed from one to the next | one provider call each, with validation and deadline | stages of the engineering flow |
| Matching and scheduling (`core/agent_registry`, `core/scheduling`) | `_active_by_agent`, `_history` | `match`, `schedule`, `release_project` | snapshots handed in by the caller |
| Closure (`core/closure`, `infrastructure/closure`) | project status, agent status, closure rows | collect evidence, close under a row lock | rows shared with every other session |
| Engineering V1 (`core/engineering_v1`) | the stages passed so far, the trail | `run`: seventeen stage operations in order under one deadline | operations supplied by the caller; audit sink |
| Incidents, escalation, routing, budget, career, scoring, lessons, feedback, training data, observability, skills, memory, MCP, LLM providers, API, web client | various | validation, arithmetic and I/O of single calls | calls |

### What is hard, and what makes each part correct

- *State machine and guard.* A session may hold a value loaded long ago
  (`autoflush=False`, `expire_on_commit=False`). Correct: the committed audit
  chain explains the committed status, and terminal statuses stay.
- *Stages.* Several calls, in several processes, may be pointed at one task; an
  agent may take minutes, a person may move the task meanwhile, a deadline may
  pass, a commit may fail or succeed without an acknowledgement, a process may
  die. Correct: only approved edges; a stale answer changes nothing; a gate only
  opens on evidence about the latest delivery; a claim is used once; a failed
  run asks for a human.
- *Queue.* Cancellation, timeout, retry, worker death and recovery all meet at
  the await in `_execute`. Correct: one handler per task; no run lost, doubled or
  resurrected; bounded attempts; every run ends.
- *Tools and workspace.* An effect and the audit of it are two steps, with
  awaits, deadlines and deaths between them, while other runs and the workspace
  manager want the same directory. Correct: one writer at a time; an effect stays
  only if its call was audited as SUCCEEDED; a run that ended left nothing open
  and is accounted for once; a cancelled run ends cancelled; limits and
  permissions hold at every step.
- *Git.* Every operation is a row of Git processes, and branches, index and HEAD
  may move between any two of them. Correct: the commit that is returned is the
  caller's own and on its branch, a failed commit leaves nothing staged, and a
  validation that passes describes the head commit it names.
- *Planning to closure.* Decisions about one delivery are taken by many
  components, each about what the one before it handed on, and are remembered
  per head commit in append-only rows. Correct: nothing unsettled is planned; no
  verdict without the evidence of all before it; what is merged was approved as
  it is; a project is closed once; the trail tells how far a run got.

The full list, at the lines where it bites, is `hazards` in `PROJECT.json`.

## Modules

```
TaskGraph                      the approved edges
  TaskLifecycle                abstract: status follows the edges
  TaskStatusGuard              sessions, flush guard, audit chain
    TaskStatusGuard_proofs
  TaskRow                      row, row lock, one checkpoint
    DeveloperReviewer   QAStage   SecurityStage
      DeliveryPipeline         the three stages and people on one task
        MCDeliveryPipeline     instances for TLC
        DeliveryPipeline_proofs
          DeliveryOwnership_proofs
RunLifecycle                   abstract: what a queue promises about a run
AgentRunQueue                  the queue at the granularity of awaits
  MCAgentRunQueue              instances for TLC
  AgentRunQueue_proofs

ExclusiveWriter                abstract: a worktree has one writer
ProjectWorkspace               lock, directories, workspace manager
  ToolCall                     one tool call (with PermissionPolicy)
    AgentRuntime               the loop of a run
      ToolRuntime              runs and managers on one workspace
        MCToolRuntime          instance for TLC
        ToolRuntime_proofs

LocalGit                       the repository and what Git processes do to it
  GitWorkflow                  the operations of several GitWorkflow objects
    MCGitWorkflow              instance for TLC
    GitWorkflow_proofs

EngineeringStage               what stage operations share
  Planning   Staffing   QAAgent   SecurityAgent   ProjectClosure
  DeveloperAgent
    ReviewerAgent
  PullRequests
    GitHubMerge
      EngineeringV1            the seventeen stages over all of these
        MCEngineeringV1        instance for TLC
        EngineeringV1_proofs   merge, trail, closure
          EngineeringStages_proofs   plans, ledger, verdicts, types
```

**TaskStatusGuard.** `row` and `log` are committed; `loaded`, `memory`, `auth`
and `flushed` belong to sessions: the attribute's committed value, its value,
the pending authorization as the list of its staged edges, and the edges
flushed in the open transaction. `Transition` is `TaskStateMachine.transition`,
`Assign` a plain assignment that bypasses it, `FlushAllowed` the flush hook,
`GetForUpdate` the locked reload of the checkpoints. With `LockFirst` sessions
transition only rows they have locked.

**TaskRow** is what the stages share: the row and the checkpoint protocol (lock,
compare status and assignee, stage, commit). A checkpoint is one transaction,
hence one step; `Outcomes` lists what may become of it: `committed`, `refused`
(the row is not as expected), `rolledBack` (deadline, lost connection, lock
timeout) or `lostAck` (durable, but the session saw an error). The other variables
are history, which no step reads to decide anything: `owner`, the run the task was
last assigned to; `work` and `seen`, the latest delivery and the one a run has
evidence about; `overtaken`, the runs whose Developer was assigned the task again,
by another run, since they began; and `intruded`, whether such a run has moved the
task since its assignment. The last two exist because `_locked_expected_task`
(`core/workflows/audit.py:484`) compares status and Developer only: a run that another
run of its own Developer overtook may find the task as it expects its own, and move it.

**DeveloperReviewer, QAStage, SecurityStage** each give a run of their
orchestrator a program counter: a label per await and per checkpoint.
`believed` is `checkpoint_status`; `lapsed` is history, the Developer runs that were
interrupted, missed that a commit succeeded, or could not commit their escalation.
QA events are counted per claim (correlation
and agent), Security events per correlation, as the queries in `qa_audit.py`
and `security_audit.py` match them.

**DeliveryPipeline** interleaves the runs with `CoordinatorMove`, the people and
coordinators who take every approved edge that no stage owns.

**AgentRunQueue** models every public method and the worker loop. Code between
two awaits is one action. A handler that ends (`HandlerEnds`) and its worker
that resumes (`FinishOk`, `Retry`, ...) are two: a cancellation in between goes
into the worker and replaces the result (`mustCancel`). `signals` says why
`wait_for` was cancelled, as Python 3.12 distinguishes an expired timeout from
a cancellation of the waiting task. `recover_stale_runs` is a process of its own
that scans without yielding, waits for a cancelled handler, and settles the run.

**ProjectWorkspace, ToolCall, AgentRuntime, ToolRuntime.** `locked` is the lock
directory and `holds` who believes to have it; `disk` is the root with the one
file that stands for the worktree and the place of its Git metadata; `areas`,
`staging` and `trash` are the managed directories. `call[r].stage` says where a
tool call waits: `begin`, `run` (authorized), `process` and `stopping` (its
command runs, is being terminated), `pending` (the effect is there, for a mutation with its backup in
`backup[r]`), `audited` (the row says SUCCEEDED), `replied`. `processes` are the live command processes. `pc[r]` is the step of
the loop, `loop[r]` its counters. What runs between two awaits is one action.
`PermissionPolicy` is the decision function of the three policies; `posture`
says what the rows it reads hold of a run at the moment. `excused` are the runs
whose audit write or compensation failed, `broken` what such a failure left
untrue; the properties name these exceptions, the code cannot do better.
`ToolRuntime` refines `ExclusiveWriter`: the writer is who holds the lock, and
the content is what was settled before the pending mutation.

**LocalGit, GitWorkflow.** `log` holds the commits, each with its parents, its
content and its author; `branch` is what HEAD names; `refs`, `index` and
`worktree` are as in Git. A call of an object
(`call[w]`) advances by one Git process at a time; each process is one action,
and its deadline or cancellation is another. Several reads are one action where
any inconsistency between them makes the call fail. `claims` are the commits
that were returned, `preps` the preparations, `passes` those with a durable PASS.
A validation computes the preparation again and compares checksums, which cover
paths, line counts and the number of commits but not contents: `Numstat` counts
lines, so that different contents may look alike.

**EngineeringV1 and its components.** The orchestrator takes its stage
operations from its caller, and nothing under `src/` supplies all of them; the model gives each
stage the component of its name. `Answer` is the adapter the caller has to
write: it returns `passed` or `blocked` as it likes, `Raise` ends the stage with
an error. Within the stages, `Planning` goes from the submitted specification to
a decomposition, `Staffing` runs the matcher and `ProjectScheduler` over
snapshots that may be out of date (an agent and a request are their ranks in the
order of score and of scheduling, and a pass is a recursive function over the
requests), `DeveloperAgent` to `SecurityAgent` produce a
report or a verdict with the evidence for it, `PullRequests` keeps the rows of
two head commits (an earlier delivery and this one) and evaluates the gate,
`GitHubMerge` is `merge_pull_request` beside a remote that answers late and a
branch that is pushed to, and `ProjectClosure` closes beside another closure.
The head commit stands for the correlation. The role workflows of
`DeliveryPipeline` appear here as validation, agent and terminal event. The
caller may be wrong up to `MaxLapses` times: go on without valid Git evidence,
open a pull request with failed or outdated tests, leave out a row, record it
for somebody else, or cite the event of another delivery. A component's state is
reset when its stages are over.

Each property has a *slip* next to the definition it is about: the same
definition with a plausible mistake in it, which makes TLC find the property
violated when it takes the definition's place. No specification uses a slip.

## Runs

| Run | Shows |
|---|---|
| `TaskStatusGuardLocked` | Two sessions that reload FOR UPDATE, plain assignments included, up to three audit events: the audit chain explains the status and terminal is final. |
| `TaskStatusGuardUnlocked` | (violation) Two sessions that transition what they once loaded overwrite each other: CANCELLED does not stay CANCELLED. |
| `DeliveryFaults` | Two runs per stage on one task, two review cycles, all five kinds of fault, two moves by people. All requests name one Developer, the QA runs retry one claim, the Security runs have a correlation each. Claims are used once, the status follows the graph, a parked task stays parked. |
| `DeliverySameDeveloper` | Three Developer runs, two of which name the same Developer, a QA and a Security run of that Developer's work, rollbacks, lost acknowledgements, lost escalations and interruptions, two moves by people. Only the owner commits, evidence is current, no QA verdict is stale, no task is abandoned, but for the named exceptions; without them TLC refutes each of the four in this run. With fairness, a task leaves development but for the exceptions of the last. |
| `DeliveryStaleQA` | (violation) Two QA claims and one Developer, no fault: a verdict on an old delivery is taken for the new one. |
| `QueueCore` | Three runs of two tasks, two workers, two attempts; cancellation, retry and timeout: implements `RunLifecycle`, loses and doubles nothing, ends every run. |
| `QueueLifecycle` | Two runs of one task, two workers, capacity one; also kills, stop and restart, recovery: mutual exclusion, a withdrawn run never executes. |
| `QueueRecoverEnded` | (violation) Recovery re-executes a run whose handler had just finished. |
| `QueueRetryFull` | (violation) The only worker waits to put a retry into the full queue that it should drain. |
| `ToolRuntime` | A Developer run with two iterations alone, a read-only Security run, and the pairs Developer and QA, Developer and manager, two managers on one workspace, with failing disks and audits, a tree that outgrew its limits, cancellation, death, and commands that outlive their call: the lock protects the worktree (and implements `ExclusiveWriter`), effects are audited or undone, runs end accounted for, cancelled runs end cancelled, limits and revocations hold, recorded roots exist. |
| `GitWorkflow` | Two objects over one workspace, all operations, beside write tools and people, with deadlines, deaths and failing audits between Git processes: a returned commit is the caller's own and on its branch, the index settles, a PASS describes the head it names. |
| `EngineeringV1` | One run through seventeen stages with all components above: plans are settled, the assignment ledger agrees, verdicts rest on evidence, what is merged was approved, the trail tells the run, a project closes once. |

### Bounds

`MaxEvents` (audit events per task) is three: two sessions can then overwrite
each other's transition and go on. `MaxMoves` bounds moves by people: two let
them park a task and resume it under a run that still waits, or take it from its
owner to READY for another run of the same Developer or of another, while the
first run's answer, escalation or gate verdict is still to come; `DeliveryStaleQA`
has a third. `MaxCycles` is the parameter `max_review_cycles`; one and two are
the boundary and the loop. `MaxDisturbances` bounds stops, kills and recoveries
together: two suffice for a kill that is followed by a recovery. `MaxSize` and
`MaxAttempts` are parameters of the code; one, two or three make the queue full
and the retry budget end. Two runs per stage and two workers are what a race
takes; a third would repeat the role of one of them, but for the Developer runs of
`DeliverySameDeveloper`, where the run of another Developer is a role of its own.
There the caller that keeps its session open is left out: all it does to others is to
make them roll back and lose their escalations, and these two faults are in. The
`SYMMETRY` of `DeliveryFaults` exchanges the runs of a stage, which nothing
distinguishes; that run checks no liveness. Deadlock is not checked in
the delivery, queue, tool, Git and engineering runs: when every run has ended the
system really stops.

In `ToolRuntime` the casts are every pair of actors that meet in a different
way; a third actor is refused by the same lock directory as the second.
`LimitsOf` is small so that each limit is reached; one file is enough because a
call changes one. In `GitWorkflow` one object makes three calls and the other two: enough
for branch, commit, prepare and validate to meet a second branch and commit.
`MaxCommits` four and `MaxMeddling` two leave room for an outsider who edits, or
moves the base, between any two processes. Four contents (the base's, a denied one, and two
that differ from the base by equally many lines) let a second commit replace the
one that a validation counts. All selected paths share one content;
nobody outside checks out an existing branch; a merge commit comes from outside
only. In `EngineeringV1`, `MaxRecords` two gives a rerun, a missing check, a wrong
order, and a write with a check; `MaxFindings`, `MaxPerDomain` and `MatchLimit`
are the code's limits scaled to one, so that they are reached; `MaxHistory`
three covers an assignment, its release and the next; `MaxLapses` two lets the
caller get two things wrong that only together pass a gate. One development per run: the
review cycles are in `DeliveryPipeline`.

### Fairness

The tool, Git and engineering runs check safety only and assume none.

`DeliveryPipeline!Fairness` is weak fairness of each Developer run's steps, without
interruptions: synchronous code reaches its next await, and every await ends at
the workflow's `asyncio.timeout` at the latest. QA, Security and people owe nothing.
`AgentRunQueue!Fairness` is weak
fairness of each worker, of each handler (`wait_for` bounds it; a handler that
swallows its cancellation for ever is excluded), of a recovery under way, of
the end of a stop, and of `start`. People, cancellations, kills and timeouts are
never obliged to happen.

### Disagreements between the code and its documents

Four runs are expected to find a violation; `findings` in `PROJECT.json` quotes
the sentence and explains the run. In short: terminal statuses are final only
for callers that lock; a stale QA verdict can be committed when status and
Developer repeat; recovery does not look at the status again after its await;
a retry can block the worker that would have to make room for it.

Modelling met more weaknesses that no run demonstrates. Where a property touches
one, it excuses exactly that case and its comment says so; the others are only
listed:

- `docs/superpowers/specs/2026-09-13-github-provider-design.md:34` promises that
  a merge requires the remote head to equal the approved internal head.
  `merge_pull_request` (`infrastructure/git/github/provider.py:309`) compares it
  with the head the caller expects, and evaluates the gate of the pull request
  the caller names, without comparing these two. `MergeWasApproved` is about
  calls that name the pull request of the head they expect.
- A cancellation during a tool call is replaced by an audit error when the
  CANCELLED row cannot be written (`core/tools/executor.py:171`). So is a
  cancellation during the check of the output (line 224): the `raise` in the `finally`
  of its handler re-raises the audit error that is then being handled.
- A `COMPENSATION_FAILED` error leaves `AgentRuntime.run` without a terminal
  event (`core/tools/executor.py:278`).
- A failed write of a transaction artifact leaves its directory behind
  (`infrastructure/tools/mutations.py:424`); a dead process leaves its lock
  (`infrastructure/workspaces/filesystem.py:63`); neither is ever removed.
- Cleanup whose audit row fails after the tree is gone leaves no record that it
  succeeded (`infrastructure/workspaces/local.py:156`).
- A command that survives SIGKILL gives the lock back
  (`infrastructure/commands/runner.py:172`).
- Two `GitWorkflow` objects: a branch created between the last recheck and `git
  commit` receives the commit (`infrastructure/git/local.py:471`); a `git add`
  that is stopped is not compensated (line 417); a commit that exists may stand
  as FAILED or AUDIT_FAILED (`core/git_workflow/workflow.py:284`).
- `validate_merge_requirements` reads HEAD once (`infrastructure/git/local.py:748`)
  and compares checksums later (line 794): a commit in between that changes as
  many lines in as many commits gets the PASS of the one before it, where
  `docs/git-workflow.md:52` asks for "an unchanged, clean task branch and
  protected base". `PassDescribesItsHead` says what remains true.
- A merge that happened may stand as BLOCKED or FAILED in the audit
  (`infrastructure/git/github/provider.py:349`).
- A check that passed before a later write counts
  (`core/developer/reporting.py:51`); a required check that is rerun makes the
  handoff unsafe (`core/workflows/handoff.py:109`); scanner items that cannot be
  converted are dropped from a report that calls itself complete
  (`core/security/scanners.py:89`).
- One task scheduled twice gets two agents (`core/scheduling/scheduler.py:26`),
  and the match limit is cut before claimed agents are left out
  (`core/agent_registry/matcher.py:70`).
- In the queue and the guard: recovery can re-execute beyond `max_attempts`
  (`in_memory.py:136`), a leftover in `_recovery_requested` swallows a later
  cancellation (line 175), a handler that raises CancelledError itself kills its
  worker (line 182), and two approved transitions that return to the loaded
  status are refused at the flush (`task_status_guard.py:117`).

## Proofs

For every finite or infinite choice of runs, tasks, workers, agents, claims and
faults:

- `AgentRunQueue_proofs`: the type invariant, mutual exclusion per task, that a run
  cancelled before it began never begins; without recovery, that the queue implements
  `RunLifecycle`; without kills and stops as well, that every run has one place. The type
  invariant alone is not inductive: that two live handlers have different tasks
  follows from *the worker of every live handler holds the lock of its item's
  task*. `IInv` adds that, for retries blocked in a put as well, that only a
  worker inside `wait_for` has a live handler, that a blocked retry is within its
  budget (or its item would leave the type), that no worker is alive before
  `start` (or a second pool would forget locks), and that a suspended recovery
  refers to a run. `BegunOK` says that whatever could put a run back, or end it other
  than by cancellation, has to do with a run that has begun. `PlacesOK` says that an
  item is the only one of its run and carries the number of its next execution, and that
  a worker's run has the status its place says: no run is in two places. Without
  recovery (`Unrecovered`) this holds whatever is killed, stopped and restarted, and
  every step is one of `RunLifecycle`; a recovery rewrites the status of a run that
  has ended (`QueueRecoverEnded`). `StatusHasPlace` adds that nothing is lost, for
  which `Undisturbed` excludes kills, stops and handlers that raise CancelledError
  unasked (`stray`) as well: under each of them TLC finds a run that stays RUNNING or
  RETRYING with no worker and no item. Cancellations, retries and timeouts
  remain allowed. What callers rely on follows from `RunLifecycle` alone: without
  recovery no run executes more than `MaxAttempts` times (`AttemptsAreBounded`), and
  one that has ended is neither executed again nor given another status
  (`EndsOnce`).
- `DeliveryPipeline_proofs`: the type invariant (with the bound on review
  cycles), the refinement of `TaskLifecycle`, the matching of claims, the
  exclusion of Security correlations, and that a parked task is moved by the
  coordinator alone. `IInv` joins to the types which statuses a started run may
  believe (from all of them an escalation is approved) and the matching of claims
  itself. The refinement has one lemma per stage: a checkpoint whose
  precondition held takes an approved edge.
- `DeliveryOwnership_proofs`: `OnlyOwnerCommits`, `EvidenceIsCurrent`,
  `OnlyOvertakenQAIsStale` and `NeverAbandoned`, with no hypothesis about the faults
  or about the Developers that the requests name. `OwnerInv` says what a started run
  and the row can be to each other. An assignment overtakes every other run of its
  Developer, so the owner is never an overtaken run, and of the runs under way that
  name one Developer only the latest is not (`OneCurrentRun`). Until an overtaken run
  moves the task, its owner finds the status it believes, or is about to escalate
  from the last one it saw while the others went on; and a run that lost a task still
  assigned to its Developer, though no run of that Developer overtook it, finds it
  parked, or handed back to development by the coordinator while the run itself waits
  for something else. So a checkpoint whose precondition holds belongs to the owner
  or to an overtaken run, and in the second case the step is noted (`intruded`). The
  step from there is one lemma per stage and one for the coordinator, whose legal
  edges are what keeps the last case from meeting the run's expectation.
  `EvidenceInv` goes on from there, again until an overtaken run moves the task: while a gate
  run is under way, no current run delivers for its Developer; and what a
  run has seen, at a gate or under review, is the latest delivery as long as the task
  is assigned to its Developer. `NeverAbandoned` is inductive on top of these: a
  checkpoint that commits keeps its run going, one that does not leads to the
  escalation, and the escalation fails only if the task was lost or the run lapses.
  The next assignment ends the effects of an intrusion, and none of these properties
  can do without its exceptions: TLC refutes it when any one is dropped, in
  `DeliverySameDeveloper` or, for `intruded` in `OnlyOwnerCommits` and
  `OnlyOvertakenQAIsStale`, with a third move and, for the latter, a second QA
  claim; and `DeliveryStaleQA` shows a stale verdict without any fault. One QA claim
  for all requests replaces none of them: TLC then still finds a review of the first run's delivery that approves the second's, and a QA run that
  outlives the delivery it was started for.

- `TaskStatusGuard_proofs`: the type invariant for every discipline, and under
  `LockFirst` that the audit chain explains the status and that terminal is final.
  `IInv` is what a reviewer of the guard has to believe: the committed status is
  where its chain leads; whoever has an authorization or an uncommitted write holds
  the row lock; what the holder of a lock has loaded is what it would read; what
  is flushed goes on from the committed status; a pending authorization is itself
  a chain of edges. The flush compares only the ends of such a chain with the
  attribute's history, and the third part is why that suffices. `LockFirst` is a
  hypothesis, because the guard alone does not ensure it (`TaskStatusGuardUnlocked`).
- `ToolRuntime_proofs`: all properties of its run, the refinement of
  `ExclusiveWriter` included. `RunsInv` accounts for runs: a call exists exactly
  while its run is inside the executor, an open row exactly while the call is
  under way, a terminal event exactly when the run has ended, and a run that was
  asked to stop is on its way. `LockInv` says for every stage of a call and every
  step of a manager whether its actor holds the lock, and that what is in flight
  belongs to the holder, or to a dead run behind a lock that nobody can take any
  more. Steps are summarised first (`LoopMove`, `CallMove`, `ToolMove`: a step
  inside a call keeps the lock, takes it and begins, or ends and gives it back), so
  that each invariant meets three kinds of step and not thirty.
- `GitWorkflow_proofs`: all properties of its run. `GitMove` sums up what any
  Git process, agent's or outsider's, may do to the repository: commits keep their
  ancestors, branches only advance, HEAD moves on to children and never back to the
  base. Under such a move the knowledge of every other call survives
  (`OthersStay`). That knowledge is `CallOK`: a commit knows a commit at or before
  HEAD, and after `git commit` one strictly before it, so that a HEAD whose only
  parent is that commit can only be the call's own; a preparation describes its
  head unless HEAD or the base have moved on since; a validation that found nothing
  outdated holds a preparation that describes its head. `IndexExplained` names who
  is to blame when the index differs from HEAD. An earlier form of the validation
  property, that HEAD is unchanged at a PASS, could not be proved and is false:
  see the disagreements above.

- `EngineeringV1_proofs`: three safety properties of the flow's run. `TrailInv`
  says that each record counts what passed before it, what the last record says of
  the active stage and of how the run ended, and that every stage before the active
  one has its record of having passed; with the other two parts of `IInv` this
  gives `AuditTellsTheRun`. `MergeInv` says that outside its stage there is no merge
  call, and that from the gate on the call's pull request still passes the gate:
  no row, event or validation changes once the call has begun, whoever pushes.
  `ClosureInv` says that who is about to close has the lock and saw a project that
  nobody has closed since, unless its session showed it an older one.
- `EngineeringStages_proofs`: the other properties of that run, on top of `IInv`.
  `PlanInv`: each analysis rests on what the one before it left; that no set of
  workstreams waits for itself then follows from the loop of
  `require_valid_dependency_graph`, in which no member of such a set is ever
  resolved. The converse holds too, so that the check is exact (`GraphCheckIsExact`):
  what is resolved only grows, a pass that adds nothing is followed by none that
  does, hence as many passes as there are workstreams suffice, and what is left over
  waits for itself. `Ledger`: each entry is numbered by its place, an agent is held for
  exactly its active entry; one assignment keeps that, hence a pass over any number
  of requests does. `VerdictInv`: a verdict exists only from its stage to the end of
  the Security stage, and evidence only beside the verdict it is for. `TypeInv` joins
  all of these to the types of what is left. The two loops are recursive functions,
  and what they compute is shown by induction over the passes. The library states
  induction for an operator, which cannot be instantiated here; `Induction` states it
  for a set of numbers, and follows from the well-foundedness of `<`.

The assumptions are those named in the modules (`RowAssumption`,
`CyclesAssumption`, `QAAssumption`, `SecAssumption`, `MovesAssumption`,
`QueueAssumption`, `GuardAssumption`, `WorkspaceAssumption`, `ToolAssumption`,
`RuntimeAssumption`, `CastAssumption`, `GitAssumption`, `WorkflowAssumption`,
`StageAssumption`, `PlanningAssumption`, `StaffingAssumption`,
`DeveloperAssumption`, `SecurityAssumption`, `ClosureAssumption`):
sentinels are not members, functions have their domains, sets that are counted are
finite, there is a test profile, bounds are natural numbers, and `Numstat` is zero
only for equal contents.

Every safety property of a passing run is proved. Only model-checked are the two
liveness properties, `EveryRunEnds` and `DeliveryLeavesDevelopment`, and what the
four violation runs show: liveness under fairness and ENABLED are outside the
prover's reach; the modules with proofs
use no RECURSIVE operator. That a finite set of
numbers has a greatest element, which the best common ancestor of two commits
needs, follows from the well-foundedness of strict inclusion.

## What is not modelled

The reasons are in `components`. Inside the modelled parts: the content of
requests, results and evidence (a preflight says yes or no, an agent answers
anything); audit events other than those that a query of the code reads;
project and agent rows, which the preflights validate and no stage changes;
wall-clock time (a deadline may pass at any await, a lock wait ends in its
timeout); several tasks in the pipeline, which share nothing.

Of the tools: paths, patches, globbing and output texts; the worktree is one
file. It is assumed that the workspaces' base directory is not inside another
Git repository. Of Git: content per path, and edits between `git add` and `git
commit --only`, which would be committed uninspected. Of GitHub: `commit_and_push`
(which makes a remote commit with a hash of its own), `create_pull_request`,
`list_reviews` and authentication; `list_checks` answers anything, and a 200
answer that says `merged: false` is excluded, as GitHub answers refusals with an
error status. Of the agents: texts and prompts; redaction counts what it finds.
Of the planning stages: a provider that outlives its deadline
(`core/architecture/analysis.py:208`), which changes nothing any more. Rows of a
pull request are recorded one after the other, in the order of the stages.

Components without a module have no state across calls, or nothing that
interleaves: incidents, escalation, routing, budgets, career, scoring, lessons,
feedback, training data, observability, skills, memory, MCP, the LLM providers,
the API, the web client and the migrations. The append-only guard is relied on:
audit events, approvals and reviews only accumulate.

## Plan

1. Done: the task graph and its guard, the three stages on one task, the queue;
   tool calls, agent runs and the workspace; the Git workflow; planning,
   staffing, agents, merge and closure under the engineering flow.
2. Done: proofs of every safety property of the passing runs, those of the queue and
   the guard under the hypotheses named above, those of the delivery under none.
3. Done: corollaries of the abstract queue, the dependency check proved exact, and
   what remains true when requests name the same Developer.
   Worth proving next: how far a recovery can exceed the attempts of a run, and
   which part of `PlacesOK` survives it.
4. Not planned: the provider's other exchanges and the pure policies, unless a
   caller under `src/` connects them to a flow.
