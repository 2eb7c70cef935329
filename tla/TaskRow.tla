------------------------------ MODULE TaskRow ------------------------------
(***************************************************************************)
(* One persisted task as the workflow stages share it, and the checkpoint  *)
(* protocol of src/core/workflows: reload the row with SELECT FOR UPDATE,  *)
(* require the exact expected status and assigned Developer, stage the     *)
(* transition with its audit events, commit.  A checkpoint is one          *)
(* transaction, so it is one atomic step with one of four outcomes.        *)
(***************************************************************************)
EXTENDS TaskGraph, Naturals

CONSTANTS
    DevRuns, QARuns, SecRuns,   \* orchestrator invocations, per stage
    NoRun,
    Developers,                 \* persistent Developer agents
    NoAgent,
    DeveloperOf,                \* the Developer a run's request names
    Faults                      \* the faults a behaviour may contain

Runs == DevRuns \cup QARuns \cup SecRuns

\* The runs whose requests name agent
RunsOf(agent) == {r \in Runs : DeveloperOf[r] = agent}

\* "rolledBack": a checkpoint fails and rolls back (deadline, lost connection);
\* "lostAck": it commits but the session sees an error; "escalationLost": the
\* escalation transaction fails too; "interrupt": a run is cancelled or its
\* process dies; "openSession": the caller of a QA run whose preflight failed
\* keeps its session, and with it the row lock, open.
FaultKinds == {"rolledBack", "lostAck", "escalationLost", "interrupt", "openSession"}

ASSUME RowAssumption ==
    /\ NoRun \notin Runs
    /\ NoAgent \notin Developers
    /\ DeveloperOf \in [Runs -> Developers]
    /\ DevRuns \cap QARuns = {} /\ DevRuns \cap SecRuns = {} /\ QARuns \cap SecRuns = {}
    /\ Faults \subseteq FaultKinds

VARIABLES
    status,     \* tasks.status
    assigned,   \* tasks.assigned_agent_id
    rowLock,    \* run whose open session holds the row lock between steps
    owner,      \* history: Developer run the task was last assigned to, until
                \* someone outside the stages moves the task
    overtaken,  \* history: runs whose Developer was assigned the task, by another
                \* run, after they began (a run that begins leaves the set)
    intruded,   \* history: an overtaken run moved the task since its assignment
    work,       \* history: latest delivery, and the delivery each gate passed
    seen        \* history: the delivery a run's evidence is about

rowVars == <<status, assigned, rowLock, owner, overtaken, intruded, work, seen>>

Work == [delivered : Nat, reviewed : Nat, tested : Nat, secured : Nat]

RowInit ==
    /\ status \in {"BACKLOG", "READY"}
    /\ assigned = NoAgent
    /\ rowLock = NoRun
    /\ owner = NoRun
    /\ overtaken = {}
    /\ intruded = FALSE
    /\ work = [delivered |-> 0, reviewed |-> 0, tested |-> 0, secured |-> 0]
    /\ seen = [r \in Runs |-> 0]

Lockable(r) == rowLock \in {NoRun, r}

\* Slips in the row check: the assignee, or everything, goes unchecked.
AtExpectedStatusOnly(r, source) == status = source
AtExpectedUnchecked(r, source) == TRUE

\* _locked_expected_task: the row's status and assignee match
AtExpected(r, source) == status = source /\ assigned = DeveloperOf[r]

\* That check cannot tell two runs that name the same Developer apart: an
\* overtaken run may find the task where it expects its own, and move it.
MayIntrude(r) == intruded' = (intruded \/ (r \in overtaken /\ status' # status))

\* What can become of a checkpoint of r whose precondition is "expected".
\* Waiting for a held row lock ends in the transaction's lock_timeout.
Outcomes(r, expected) ==
    (Faults \cap {"rolledBack"})
        \cup (IF ~Lockable(r) THEN {"rolledBack"}
              ELSE IF expected THEN {"committed"} \cup (Faults \cap {"lostAck"})
              ELSE {"refused"})

Durable == {"committed", "lostAck"}

\* Slip: a rolled back checkpoint ends the run like a refused one.
AfterCheckpointNoEscalation(o, next) == IF o = "committed" THEN next ELSE "failed"

\* Where a started run goes: a stale one is refused (INVALID_STATE or
\* CONCURRENT_MODIFICATION) and ends; every other failure is escalated.
AfterCheckpoint(o, next) ==
    CASE o = "committed" -> next
      [] o = "refused"   -> "failed"
      [] OTHER           -> "escalate"

\* One more audit event of claim c
Recorded(log, c) == [log EXCEPT ![c] = @ + 1]

\* Slip: the escalation does not look at the row it locked.
EscalationCommitsBlindly(r, expected) ==
    /\ Lockable(r)
    /\ status' = "WAITING_HUMAN"

\* The escalation transaction of r: WAITING_HUMAN, or nothing at all.  Its own
\* failures end the run in every case.
EscalationCommits(r, expected) ==
    /\ Lockable(r)
    /\ expected
    /\ status' = "WAITING_HUMAN"

EscalationFails(r, expected) ==
    /\ ~Lockable(r) \/ ~expected \/ "escalationLost" \in Faults
    /\ UNCHANGED status

RowTypeOK ==
    /\ status \in TaskStatus
    /\ assigned \in Developers \cup {NoAgent}
    /\ rowLock \in Runs \cup {NoRun}
    /\ owner \in DevRuns \cup {NoRun}
    /\ overtaken \subseteq Runs
    /\ intruded \in BOOLEAN
    /\ work \in Work
    /\ seen \in [Runs -> Nat]

=============================================================================
