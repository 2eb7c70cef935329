-------------------------- MODULE TaskStatusGuard --------------------------
(***************************************************************************)
(* Database sessions that change tasks.status through TaskStateMachine     *)
(* (src/core/tasks/state_machine.py) under the flush guard of              *)
(* src/infrastructure/database/task_status_guard.py.                       *)
(*                                                                         *)
(* A session keeps, per task, the value it loaded (the attribute's         *)
(* committed value), the value in memory, and the chain of staged audit    *)
(* events that authorizes the difference.  Sessions are configured with    *)
(* autoflush=False and expire_on_commit=False, so what they loaded stays   *)
(* in memory after a commit, however stale.  The database is READ          *)
(* COMMITTED: an UPDATE waits for the row lock and then overwrites.        *)
(***************************************************************************)
EXTENDS TaskGraph, Naturals, Sequences, SequencesExt

CONSTANTS
    Tasks,          \* persisted tasks
    Sessions,       \* SQLAlchemy sessions
    NoSession,      \* "the row lock is free"
    LockFirst,      \* TRUE: callers re-read the row FOR UPDATE first, as the
                    \* workflow checkpoints do; FALSE: plain session.get
    MaxEvents       \* bound: audit events per task, staged ones included

ASSUME GuardAssumption ==
    /\ NoSession \notin Sessions
    /\ LockFirst \in BOOLEAN
    /\ MaxEvents \in Nat

VARIABLES
    row,        \* row[t]: committed tasks.status
    log,        \* log[t]: committed TASK_STATUS_CHANGED edges, oldest first
    lock,       \* lock[t]: session holding the row lock
    loaded,     \* loaded[s][t]: value last loaded or flushed by s
    memory,     \* memory[s][t]: task.status in s
    auth,       \* auth[s][t]: pending authorization, as its staged edges
    flushed     \* flushed[s][t]: edges flushed but not committed

vars == <<row, log, lock, loaded, memory, auth, flushed>>

NotLoaded == "not loaded"

\* What session s reads from the database: its own uncommitted write, if any.
Visible(s, t) == IF flushed[s][t] = <<>> THEN row[t]
                 ELSE Last(flushed[s][t])[2]

Free(s, t) == lock[t] \in {NoSession, s}

\* Slip: the chain is not compared with the value about to be written.
ExplainsStartOnly(chain, from, to) ==
    /\ chain # <<>>
    /\ Head(chain)[1] = from

\* _has_matching_audit_chain, with the authorization's current and target
Explains(chain, from, to) ==
    /\ chain # <<>>
    /\ Head(chain)[1] = from
    /\ Last(chain)[2] = to
    /\ \A i \in 1 .. Len(chain) - 1 : chain[i][2] = chain[i + 1][1]

Dirty(s, t) == memory[s][t] # loaded[s][t]

\* _reject_unauthorized_task_status_changes lets the flush of s go on
FlushAllowed(s) ==
    \A t \in Tasks :
        IF Dirty(s, t) THEN Explains(auth[s][t], loaded[s][t], memory[s][t])
        ELSE auth[s][t] = <<>>

-----------------------------------------------------------------------------
Init ==
    /\ row = [t \in Tasks |-> "BACKLOG"]
    /\ log = [t \in Tasks |-> <<>>]
    /\ lock = [t \in Tasks |-> NoSession]
    /\ loaded = [s \in Sessions |-> [t \in Tasks |-> NotLoaded]]
    /\ memory = loaded
    /\ auth = [s \in Sessions |-> [t \in Tasks |-> <<>>]]
    /\ flushed = auth

\* session.get: the identity map answers for a task it already holds
Get(s, t) ==
    /\ memory[s][t] = NotLoaded
    /\ loaded' = [loaded EXCEPT ![s][t] = Visible(s, t)]
    /\ memory' = [memory EXCEPT ![s][t] = Visible(s, t)]
    /\ UNCHANGED <<row, log, lock, auth, flushed>>

\* SELECT ... FOR UPDATE with populate_existing: unflushed changes are lost
GetForUpdate(s, t) ==
    /\ Free(s, t)
    /\ lock' = [lock EXCEPT ![t] = s]
    /\ loaded' = [loaded EXCEPT ![s][t] = Visible(s, t)]
    /\ memory' = [memory EXCEPT ![s][t] = Visible(s, t)]
    /\ UNCHANGED <<row, log, auth, flushed>>

\* Slip: the caller locks some row, not the one it changes.
MayTransitionUnlocked(s, t) == TRUE

\* The caller's discipline: the checkpoints transition a row they have locked
MayTransition(s, t) == LockFirst => lock[t] = s

\* TaskStateMachine.transition; a refused one (edge not approved, or chain not
\* continuing the pending authorization) raises and changes nothing
Transition(s, t, target) ==
    /\ memory[s][t] # NotLoaded
    /\ MayTransition(s, t)
    /\ CanTransition(memory[s][t], target)
    /\ auth[s][t] # <<>> => Last(auth[s][t])[2] = memory[s][t]
    /\ Len(log[t]) + Len(flushed[s][t]) + Len(auth[s][t]) < MaxEvents
    /\ auth' = [auth EXCEPT ![s][t] = Append(@, <<memory[s][t], target>>)]
    /\ memory' = [memory EXCEPT ![s][t] = target]
    /\ UNCHANGED <<row, log, lock, loaded, flushed>>

\* task.status = value, without the state machine
Assign(s, t, value) ==
    /\ memory[s][t] \notin {NotLoaded, value}
    /\ memory' = [memory EXCEPT ![s][t] = value]
    /\ UNCHANGED <<row, log, lock, loaded, auth, flushed>>

\* A flush the guard refuses raises before any SQL and leaves the session as
\* it was, so only an accepted flush is a step.
FlushEffect(s) ==
    /\ FlushAllowed(s)
    /\ \A t \in Tasks : Dirty(s, t) => Free(s, t)
    /\ loaded' = [loaded EXCEPT ![s] = memory[s]]
    /\ auth' = [auth EXCEPT ![s] = [t \in Tasks |-> <<>>]]
    /\ UNCHANGED memory

Flush(s) ==
    /\ \E t \in Tasks : Dirty(s, t)
    /\ FlushEffect(s)
    /\ lock' = [t \in Tasks |-> IF Dirty(s, t) THEN s ELSE lock[t]]
    /\ flushed' = [flushed EXCEPT ![s] = [t \in Tasks |-> @[t] \o auth[s][t]]]
    /\ UNCHANGED <<row, log>>

\* Slip: the commit writes every attribute, changed or not.
CommitEverything(s) ==
    /\ FlushEffect(s)
    /\ row' = memory[s]
    /\ log' = [t \in Tasks |-> log[t] \o flushed[s][t] \o auth[s][t]]
    /\ lock' = [t \in Tasks |-> IF lock[t] = s THEN NoSession ELSE lock[t]]
    /\ flushed' = [flushed EXCEPT ![s] = [t \in Tasks |-> <<>>]]

\* session.commit: flush, make it durable, release the locks, expire nothing
Commit(s) ==
    /\ FlushEffect(s)
    /\ row' = [t \in Tasks |->
                 IF Dirty(s, t) THEN memory[s][t] ELSE Visible(s, t)]
    /\ log' = [t \in Tasks |-> log[t] \o flushed[s][t] \o auth[s][t]]
    /\ lock' = [t \in Tasks |-> IF lock[t] = s THEN NoSession ELSE lock[t]]
    /\ flushed' = [flushed EXCEPT ![s] = [t \in Tasks |-> <<>>]]

\* session.rollback, and closing the session or losing its connection: every
\* object is expired, and the guard drops the session's authorizations
Rollback(s) ==
    /\ lock' = [t \in Tasks |-> IF lock[t] = s THEN NoSession ELSE lock[t]]
    /\ loaded' = [loaded EXCEPT ![s] = [t \in Tasks |-> NotLoaded]]
    /\ memory' = [memory EXCEPT ![s] = [t \in Tasks |-> NotLoaded]]
    /\ auth' = [auth EXCEPT ![s] = [t \in Tasks |-> <<>>]]
    /\ flushed' = [flushed EXCEPT ![s] = [t \in Tasks |-> <<>>]]
    /\ UNCHANGED <<row, log>>

Next ==
    \E s \in Sessions :
        \/ \E t \in Tasks :
              \/ Get(s, t)
              \/ GetForUpdate(s, t)
              \/ \E value \in TaskStatus :
                    Transition(s, t, value) \/ Assign(s, t, value)
        \/ Flush(s)
        \/ Commit(s)
        \/ Rollback(s)

Spec == Init /\ [][Next]_vars

-----------------------------------------------------------------------------
Edge == TaskStatus \X TaskStatus

TypeOK ==
    /\ row \in [Tasks -> TaskStatus]
    /\ log \in [Tasks -> Seq(Edge)]
    /\ lock \in [Tasks -> Sessions \cup {NoSession}]
    /\ loaded \in [Sessions -> [Tasks -> TaskStatus \cup {NotLoaded}]]
    /\ memory \in [Sessions -> [Tasks -> TaskStatus \cup {NotLoaded}]]
    /\ auth \in [Sessions -> [Tasks -> Seq(Edge)]]
    /\ flushed \in [Sessions -> [Tasks -> Seq(Edge)]]

\* The committed audit chain of a task is a walk over approved edges from its
\* creation to its committed status: no write bypassed the state machine and
\* no concurrent writer's change was overwritten.
AuditTrailExplainsStatus ==
    \A t \in Tasks :
        LET visited == <<"BACKLOG">> \o [i \in 1 .. Len(log[t]) |-> log[t][i][2]]
        IN  /\ \A i \in 1 .. Len(log[t]) :
                  log[t][i][1] = visited[i] /\ CanTransition(visited[i], visited[i + 1])
            /\ row[t] = Last(visited)

\* "COMPLETED and CANCELLED are terminal" (docs/task-state-machine.md): no
\* commit, however interleaved, moves a task out of them.
TerminalIsFinal ==
    [][\A t \in Tasks : row[t] \in Terminal => row'[t] = row[t]]_vars

=============================================================================
