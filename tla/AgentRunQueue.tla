---------------------------- MODULE AgentRunQueue ----------------------------
(***************************************************************************)
(* InMemoryAgentRunQueue (src/infrastructure/queue/in_memory.py): a        *)
(* bounded asyncio queue, a pool of worker tasks, one asyncio.Lock per     *)
(* domain task, cancellation events, heartbeats and stale-run recovery.    *)
(*                                                                         *)
(* Everything runs on one event loop, so code between two awaits is one    *)
(* action.  A handler finishing and its worker resuming are two steps: a   *)
(* cancellation that arrives in between replaces the handler's result      *)
(* (asyncio.Task.cancel; asyncio.wait_for of Python 3.12).                 *)
(***************************************************************************)
EXTENDS Naturals, Sequences, FiniteSets

CONSTANTS
    Runs, Tasks, Workers,
    TaskOf,             \* job.task_id
    NoWorker, NoRun,
    MaxSize,            \* maxsize of the queue
    MaxAttempts,        \* job.max_attempts
    Events,             \* what happens around the queue, see EventKinds
    MaxDisturbances     \* bound: stops, worker kills and recoveries together

EventKinds == {"cancel", "retry", "timeout", "stray", "kill", "stop", "recover"}

ASSUME QueueAssumption ==
    /\ TaskOf \in [Runs -> Tasks]
    /\ NoWorker \notin Workers
    /\ NoRun \notin Runs
    /\ MaxSize \in Nat \ {0}
    /\ MaxAttempts \in Nat \ {0}
    /\ Events \subseteq EventKinds
    /\ MaxDisturbances \in Nat

VARIABLES
    queue,          \* _queue: work items [run, attempt]
    status,         \* _statuses, "NONE" for a run never enqueued
    cancelled,      \* runs whose cancel event is set
    started, stopping,
    lock,           \* _task_locks: the worker inside "async with lock"
    pc,             \* per worker: off, get, sleep, wait (for a handler), put
    item,           \* per worker: the work item in hand
    handler,        \* per worker: its handler task, or how it ended
    signals,        \* per worker: cancellations pending since wait_for began
    old,            \* runs whose heartbeat exceeds the timeout
    recoveryRequested,
    rec,            \* the recover_stale_runs call under way
    stop,           \* "gather" while stop() waits for the workers
    executions,     \* history: handler starts per run
    disturbances

workerVars == <<lock, pc, item, handler, signals>>
vars == <<queue, status, cancelled, started, stopping, workerVars, old,
          recoveryRequested, rec, stop, executions, disturbances>>

NoItem == [run |-> NoRun, attempt |-> 0]
Items == [run : Runs, attempt : 1 .. MaxAttempts]
Final == {"SUCCEEDED", "FAILED", "CANCELLED"}
Active == {"QUEUED", "RUNNING", "RETRYING"}
Results == {"ok", "retry", "error", "cancelled"}

\* A recovery holds the event loop from its call, or its last await, to its
\* next await: nothing else runs while it scans.
LoopFree == rec.at # "scan"

Full == Len(queue) >= MaxSize
RunOf(w) == item[w].run

\* asyncio.Task.cancel on a handler: a finished one does not notice
CancelHandler(h) == IF h = "live" THEN "cancelling" ELSE h

-----------------------------------------------------------------------------
Init ==
    /\ queue = <<>>
    /\ status = [r \in Runs |-> "NONE"]
    /\ cancelled = {} /\ old = {} /\ recoveryRequested = {}
    /\ started = FALSE /\ stopping = FALSE
    /\ lock = [t \in Tasks |-> NoWorker]
    /\ pc = [w \in Workers |-> "off"]
    /\ item = [w \in Workers |-> NoItem]
    /\ handler = [w \in Workers |-> "none"]
    /\ signals = [w \in Workers |-> {}]
    /\ rec = [at |-> "idle", todo |-> {}, stale |-> {}, run |-> NoRun, ready |-> FALSE]
    /\ stop = "no"
    /\ executions = [r \in Runs |-> 0]
    /\ disturbances = 0

-----------------------------------------------------------------------------
\* Callers

\* The idempotency key of a job is known from its first enqueue.
NewKeyUntilStarted(r) == status[r] \in {"NONE", "QUEUED"}     \* slip: noted at start
NewKey(r) == status[r] = "NONE"

\* A duplicate idempotency key, a full queue and a stopping one change nothing.
Enqueue(r) ==
    /\ LoopFree
    /\ ~stopping
    /\ NewKey(r)
    /\ ~Full
    /\ queue' = Append(queue, [run |-> r, attempt |-> 1])
    /\ status' = [status EXCEPT ![r] = "QUEUED"]
    /\ UNCHANGED <<cancelled, started, stopping, workerVars, old,
                   recoveryRequested, rec, stop, executions, disturbances>>

\* What cancel makes of a status: only a queued run is cancelled on the spot
AfterCancelAlways(s) == "CANCELLED"     \* slip: whatever the run does
AfterCancel(s) == IF s = "QUEUED" THEN "CANCELLED" ELSE s

\* cancel never touches the handler task: it sets the event the handler got
Cancel(r) ==
    /\ LoopFree
    /\ "cancel" \in Events
    /\ status[r] \in Active
    /\ r \notin cancelled
    /\ cancelled' = cancelled \cup {r}
    /\ status' = [status EXCEPT ![r] = AfterCancel(@)]
    /\ UNCHANGED <<queue, started, stopping, workerVars, old,
                   recoveryRequested, rec, stop, executions, disturbances>>

\* Time passes without a heartbeat; only recovery ever looks at the age
HeartbeatAges(r) ==
    /\ LoopFree
    /\ "recover" \in Events
    /\ status[r] = "RUNNING"
    /\ r \notin old
    /\ old' = old \cup {r}
    /\ UNCHANGED <<queue, status, cancelled, started, stopping, workerVars,
                   recoveryRequested, rec, stop, executions, disturbances>>

\* A fresh heartbeat is newer than the "now" of a recovery under way
Fresh(r) ==
    /\ old' = old \ {r}
    /\ rec' = [rec EXCEPT !.stale = @ \ {r}]

Heartbeat(r) ==
    /\ LoopFree
    /\ status[r] = "RUNNING"
    /\ r \in old
    /\ Fresh(r)
    /\ UNCHANGED <<queue, status, cancelled, started, stopping, workerVars,
                   recoveryRequested, stop, executions, disturbances>>

Start ==
    /\ LoopFree
    /\ ~started
    /\ started' = TRUE
    /\ stopping' = FALSE
    /\ pc' = [w \in Workers |-> "get"]
    /\ UNCHANGED <<queue, status, cancelled, lock, item, handler, signals, old,
                   recoveryRequested, rec, stop, executions, disturbances>>

-----------------------------------------------------------------------------
\* A worker between two runs

Head1 == Head(queue).run
LockFreePerRun(r) == \A w \in Workers : RunOf(w) # r      \* slip: locks by run_id
LockFree(r) == lock[TaskOf[r]] = NoWorker
WithdrawnUnseen(r) == FALSE     \* slip: the worker loop runs what it takes
Withdrawn(r) == status[r] = "CANCELLED"
Take(w) == LoopFree /\ pc[w] = "get" /\ queue # <<>>

DropCancelled(w) ==
    /\ Take(w)
    /\ Withdrawn(Head1)
    /\ queue' = Tail(queue)
    /\ UNCHANGED <<status, cancelled, started, stopping, workerVars, old,
                   recoveryRequested, rec, stop, executions, disturbances>>

\* The task is busy: to the back of the queue, then a pause
PutBack(w) ==
    /\ Take(w)
    /\ ~Withdrawn(Head1)
    /\ ~LockFree(Head1)
    /\ queue' = Append(Tail(queue), Head(queue))
    /\ pc' = [pc EXCEPT ![w] = "sleep"]
    /\ UNCHANGED <<status, cancelled, started, stopping, lock, item, handler,
                   signals, old, recoveryRequested, rec, stop, executions,
                   disturbances>>

WakeUp(w) ==
    /\ LoopFree
    /\ pc[w] = "sleep"
    /\ pc' = [pc EXCEPT ![w] = "get"]
    /\ UNCHANGED <<queue, status, cancelled, started, stopping, lock, item,
                   handler, signals, old, recoveryRequested, rec, stop,
                   executions, disturbances>>

\* Enter the task lock and _execute, up to "await asyncio.wait_for"
Execute(w) ==
    /\ Take(w)
    /\ ~Withdrawn(Head1)
    /\ LockFree(Head1)
    /\ queue' = Tail(queue)
    /\ status' = [status EXCEPT ![Head1] = "RUNNING"]
    /\ executions' = [executions EXCEPT ![Head1] = @ + 1]
    /\ lock' = [lock EXCEPT ![TaskOf[Head1]] = w]
    /\ pc' = [pc EXCEPT ![w] = "wait"]
    /\ item' = [item EXCEPT ![w] = Head(queue)]
    /\ handler' = [handler EXCEPT ![w] = "live"]
    /\ signals' = [signals EXCEPT ![w] = {}]
    /\ Fresh(Head1)
    /\ UNCHANGED <<cancelled, started, stopping, recoveryRequested, stop,
                   disturbances>>

-----------------------------------------------------------------------------
\* A run being executed

\* A handler that was asked to cancel may still end in any way; one that was
\* not may raise CancelledError when its run was cancelled, or go astray.
HandlerEnds(w, result) ==
    /\ LoopFree
    /\ handler[w] \in {"live", "cancelling"}
    /\ result = "retry" => "retry" \in Events
    /\ result = "cancelled" =>
          handler[w] = "cancelling" \/ RunOf(w) \in cancelled \/ "stray" \in Events
    /\ handler' = [handler EXCEPT ![w] = result]
    /\ UNCHANGED <<queue, status, cancelled, started, stopping, lock, pc, item,
                   signals, old, recoveryRequested, rec, stop, executions,
                   disturbances>>

\* A cancellation for why reaches worker w inside wait_for: it goes to the
\* handler, or, when that is done, straight into the worker ("mustCancel").
Signalled(w, why) ==
    signals[w] \cup {why}
        \cup (IF handler[w] \in Results THEN {"mustCancel"} ELSE {})

TimesOut(w) ==
    /\ LoopFree
    /\ "timeout" \in Events
    /\ pc[w] = "wait"
    /\ "expired" \notin signals[w]
    /\ signals' = [signals EXCEPT ![w] = Signalled(w, "expired")]
    /\ handler' = [handler EXCEPT ![w] = CancelHandler(@)]
    /\ UNCHANGED <<queue, status, cancelled, started, stopping, lock, pc, item,
                   old, recoveryRequested, rec, stop, executions, disturbances>>

Outcome(w) == IF "mustCancel" \in signals[w] THEN "cancelled" ELSE handler[w]
Returns(w, result) ==
    /\ LoopFree
    /\ pc[w] = "wait"
    /\ handler[w] \in Results
    /\ Outcome(w) = result

\* wait_for turns its own cancellation into TimeoutError unless the worker was
\* cancelled as well.
Expired(w) == "expired" \in signals[w] /\ "killed" \notin signals[w]

\* Leave _execute and the lock, and go to "next".
LeaveLocked(w, next) ==         \* slip: acquired, never released
    /\ pc' = [pc EXCEPT ![w] = next]
    /\ item' = [item EXCEPT ![w] = NoItem]
    /\ handler' = [handler EXCEPT ![w] = "none"]
    /\ signals' = [signals EXCEPT ![w] = {}]
    /\ UNCHANGED lock
Leave(w, next) ==
    /\ lock' = [lock EXCEPT ![TaskOf[RunOf(w)]] = NoWorker]
    /\ pc' = [pc EXCEPT ![w] = next]
    /\ item' = [item EXCEPT ![w] = NoItem]
    /\ handler' = [handler EXCEPT ![w] = "none"]
    /\ signals' = [signals EXCEPT ![w] = {}]

\* A recovery that gathers this handler can go on.
Gathered(w) ==
    rec' = [rec EXCEPT
              !.ready = @ \/ (rec.at = "gather" /\ rec.run = RunOf(w))]

AttemptsLeftOffByOne(w) == item[w].attempt <= MaxAttempts   \* slip
AttemptsLeft(w) == item[w].attempt < MaxAttempts

SetStatus(w, value) == status' = [status EXCEPT ![RunOf(w)] = value]

FinishOk(w) ==
    /\ Returns(w, "ok")
    /\ SetStatus(w, IF RunOf(w) \in cancelled THEN "CANCELLED" ELSE "SUCCEEDED")
    /\ Leave(w, "get") /\ Gathered(w)
    /\ UNCHANGED <<queue, cancelled, started, stopping, old, recoveryRequested,
                   stop, executions, disturbances>>

FinishFailed(w) ==
    /\ \/ Returns(w, "error")
       \/ Returns(w, "cancelled") /\ Expired(w)
       \/ /\ Returns(w, "retry")
          /\ RunOf(w) \notin cancelled
          /\ ~AttemptsLeft(w)
    /\ SetStatus(w, "FAILED")
    /\ Leave(w, "get") /\ Gathered(w)
    /\ UNCHANGED <<queue, cancelled, started, stopping, old, recoveryRequested,
                   stop, executions, disturbances>>

FinishCancelled(w) ==
    /\ \/ Returns(w, "retry")
       \/ Returns(w, "cancelled") /\ ~Expired(w) /\ RunOf(w) \notin recoveryRequested
    /\ RunOf(w) \in cancelled
    /\ SetStatus(w, "CANCELLED")
    /\ Leave(w, "get") /\ Gathered(w)
    /\ UNCHANGED <<queue, cancelled, started, stopping, old, recoveryRequested,
                   stop, executions, disturbances>>

\* Recovery will set the status
FinishForRecovery(w) ==
    /\ Returns(w, "cancelled") /\ ~Expired(w)
    /\ RunOf(w) \in recoveryRequested
    /\ recoveryRequested' = recoveryRequested \ {RunOf(w)}
    /\ Leave(w, "get") /\ Gathered(w)
    /\ UNCHANGED <<queue, status, cancelled, started, stopping, old, stop,
                   executions, disturbances>>

\* The cancellation goes through: the worker dies, the run stays RUNNING
WorkerDies(w) ==
    /\ Returns(w, "cancelled") /\ ~Expired(w)
    /\ RunOf(w) \notin recoveryRequested \cup cancelled
    /\ Leave(w, "off") /\ Gathered(w)
    /\ UNCHANGED <<queue, status, cancelled, started, stopping, old,
                   recoveryRequested, stop, executions, disturbances>>

\* RetryableRunError with attempts left: RETRYING, and a put that blocks, with
\* the task lock held, while the queue is full
Retry(w) ==
    /\ Returns(w, "retry")
    /\ RunOf(w) \notin cancelled
    /\ AttemptsLeft(w)
    /\ SetStatus(w, "RETRYING")
    /\ Gathered(w)
    /\ IF Full
       THEN /\ pc' = [pc EXCEPT ![w] = "put"]
            /\ UNCHANGED <<queue, lock, item, handler, signals>>
       ELSE /\ queue' = Append(queue, [item[w] EXCEPT !.attempt = @ + 1])
            /\ Leave(w, "get")
    /\ UNCHANGED <<cancelled, started, stopping, old, recoveryRequested, stop,
                   executions, disturbances>>

PutRetry(w) ==
    /\ LoopFree
    /\ pc[w] = "put"
    /\ ~Full
    /\ queue' = Append(queue, [item[w] EXCEPT !.attempt = @ + 1])
    /\ Leave(w, "get")
    /\ UNCHANGED <<status, cancelled, started, stopping, old, recoveryRequested,
                   rec, stop, executions, disturbances>>

-----------------------------------------------------------------------------
\* Cancelling workers: worker.cancel() of stop(), or of anyone else

\* A worker idle, asleep or blocked in a put dies at its await, and a blocked
\* retry is lost with it; one that waits for a handler passes it on.
KillWorkers(ws) ==
    LET dying == {w \in ws : pc[w] \in {"get", "sleep", "put"}}
        waiting == {w \in ws : pc[w] = "wait"}
    IN  /\ pc' = [w \in Workers |-> IF w \in dying THEN "off" ELSE pc[w]]
        /\ item' = [w \in Workers |-> IF w \in dying THEN NoItem ELSE item[w]]
        /\ lock' = [t \in Tasks |-> IF lock[t] \in dying THEN NoWorker ELSE lock[t]]
        /\ handler' = [w \in Workers |->
              IF w \in dying THEN "none"
              ELSE IF w \in waiting THEN CancelHandler(handler[w]) ELSE handler[w]]
        /\ signals' = [w \in Workers |->
              IF w \in dying THEN {}
              ELSE IF w \in waiting THEN Signalled(w, "killed") ELSE signals[w]]

Disturb(kind) ==
    /\ LoopFree
    /\ kind \in Events
    /\ disturbances < MaxDisturbances
    /\ disturbances' = disturbances + 1

Kill(w) ==
    /\ Disturb("kill")
    /\ pc[w] # "off"
    /\ KillWorkers({w})
    /\ UNCHANGED <<queue, status, cancelled, started, stopping, old,
                   recoveryRequested, rec, stop, executions>>

StopCall ==
    /\ Disturb("stop")
    /\ stop = "no"
    /\ stop' = "gather"
    /\ stopping' = TRUE
    /\ KillWorkers(Workers)
    /\ UNCHANGED <<queue, status, cancelled, started, old, recoveryRequested,
                   rec, executions>>

StopReturn ==
    /\ LoopFree
    /\ stop = "gather"
    /\ \A w \in Workers : pc[w] = "off"
    /\ stop' = "no"
    /\ started' = FALSE
    /\ UNCHANGED <<queue, status, cancelled, stopping, workerVars, old,
                   recoveryRequested, rec, executions, disturbances>>

-----------------------------------------------------------------------------
\* recover_stale_runs

\* Dead workers are replaced; "now" and the snapshot of statuses are taken once
RecoverCall ==
    /\ Disturb("recover")
    /\ rec.at = "idle"
    /\ pc' = [w \in Workers |->
                IF pc[w] = "off" /\ started /\ ~stopping THEN "get" ELSE pc[w]]
    /\ rec' = [at |-> "scan", todo |-> {r \in Runs : status[r] = "RUNNING"},
               stale |-> old, run |-> NoRun, ready |-> FALSE]
    /\ UNCHANGED <<queue, status, cancelled, started, stopping, lock, item,
                   handler, signals, old, recoveryRequested, stop, executions>>

\* _handler_tasks holds a task for r until _execute is left
Handles(w, r) == pc[w] \in {"wait", "put"} /\ RunOf(w) = r

\* Cancel the handler of a stale run and wait for it
RecoverCancels(r) ==
    /\ rec.at = "scan"
    /\ r \in rec.todo \cap rec.stale
    /\ recoveryRequested' = recoveryRequested \cup {r}
    /\ \E w \in Workers :
          /\ Handles(w, r)
          /\ handler' = [handler EXCEPT ![w] = CancelHandler(@)]
          /\ rec' = [rec EXCEPT !.at = "gather", !.run = r, !.ready = pc[w] = "put",
                                !.todo = @ \ {r}]
    /\ UNCHANGED <<queue, status, cancelled, started, stopping, lock, pc, item,
                   signals, old, stop, executions, disturbances>>

\* Requeue r, or fail it: decided by the attempt it was enqueued with, the
\* first, and written whatever its status is by now
Settle(r) ==
    /\ IF MaxAttempts > 1
       THEN /\ status' = [status EXCEPT ![r] = "RETRYING"]
            /\ queue' = IF Full THEN queue
                        ELSE Append(queue, [run |-> r, attempt |-> 2])
       ELSE /\ status' = [status EXCEPT ![r] = "FAILED"]
            /\ UNCHANGED queue
    /\ rec' = [rec EXCEPT !.at = IF MaxAttempts > 1 /\ Full THEN "put" ELSE "scan",
                          !.run = r, !.ready = FALSE, !.todo = @ \ {r}]
    /\ UNCHANGED <<cancelled, started, stopping, workerVars, old, stop,
                   executions, disturbances>>

RecoverDirectly(r) ==
    /\ rec.at = "scan"
    /\ r \in rec.todo \cap rec.stale
    /\ \A w \in Workers : ~Handles(w, r)
    /\ recoveryRequested' = recoveryRequested \cup {r}
    /\ Settle(r)

RecoverGathered ==
    /\ rec.at = "gather"
    /\ rec.ready
    /\ Settle(rec.run)
    /\ UNCHANGED recoveryRequested

RecoverPuts ==
    /\ rec.at = "put"
    /\ ~Full
    /\ queue' = Append(queue, [run |-> rec.run, attempt |-> 2])
    /\ rec' = [rec EXCEPT !.at = "scan"]
    /\ UNCHANGED <<status, cancelled, started, stopping, workerVars, old,
                   recoveryRequested, stop, executions, disturbances>>

RecoverReturns ==
    /\ rec.at = "scan"
    /\ rec.todo \cap rec.stale = {}
    /\ rec' = [rec EXCEPT !.at = "idle", !.todo = {}, !.stale = {}, !.run = NoRun]
    /\ UNCHANGED <<queue, status, cancelled, started, stopping, workerVars, old,
                   recoveryRequested, stop, executions, disturbances>>

-----------------------------------------------------------------------------
WorkerStep(w) ==
    \/ DropCancelled(w) \/ PutBack(w) \/ WakeUp(w) \/ Execute(w)
    \/ FinishOk(w) \/ FinishFailed(w) \/ FinishCancelled(w)
    \/ FinishForRecovery(w) \/ WorkerDies(w) \/ Retry(w) \/ PutRetry(w)

HandlerStep(w) == \E result \in Results : HandlerEnds(w, result)

RecoverStep ==
    \/ \E r \in Runs : RecoverCancels(r) \/ RecoverDirectly(r)
    \/ RecoverGathered \/ RecoverPuts \/ RecoverReturns

CallerStep ==
    \/ \E r \in Runs : Enqueue(r) \/ Cancel(r) \/ HeartbeatAges(r) \/ Heartbeat(r)
    \/ Start \/ StopCall \/ RecoverCall
    \/ \E w \in Workers : Kill(w)

Next ==
    \/ \E w \in Workers : WorkerStep(w) \/ HandlerStep(w) \/ TimesOut(w)
    \/ RecoverStep
    \/ StopReturn
    \/ CallerStep

Spec == Init /\ [][Next]_vars

\* The event loop runs every ready task, a handler ends at its timeout at the
\* latest, and somebody starts the queue.
Fairness ==
    /\ \A w \in Workers : WF_vars(WorkerStep(w)) /\ WF_vars(HandlerStep(w))
    /\ WF_vars(RecoverStep) /\ WF_vars(StopReturn) /\ WF_vars(Start)

FairSpec == Spec /\ Fairness

-----------------------------------------------------------------------------
TypeOK ==
    /\ queue \in Seq(Items)
    /\ Len(queue) <= MaxSize
    /\ status \in [Runs -> Active \cup Final \cup {"NONE"}]
    /\ cancelled \subseteq Runs /\ old \subseteq Runs /\ recoveryRequested \subseteq Runs
    /\ started \in BOOLEAN /\ stopping \in BOOLEAN
    /\ lock \in [Tasks -> Workers \cup {NoWorker}]
    /\ pc \in [Workers -> {"off", "get", "sleep", "wait", "put"}]
    /\ item \in [Workers -> Items \cup {NoItem}]
    /\ handler \in [Workers -> Results \cup {"none", "live", "cancelling"}]
    /\ signals \in [Workers -> SUBSET {"killed", "expired", "mustCancel"}]
    /\ rec \in [at : {"idle", "scan", "gather", "put"}, todo : SUBSET Runs,
                stale : SUBSET Runs, run : Runs \cup {NoRun}, ready : BOOLEAN]
    /\ stop \in {"no", "gather"}
    /\ executions \in [Runs -> Nat]
    /\ disturbances \in 0 .. MaxDisturbances

\* test_queue_serializes_jobs_for_the_same_task: two handlers never run for
\* one task, whatever is cancelled, killed or recovered meanwhile.
TaskExclusion ==
    \A v, w \in Workers :
        /\ handler[v] \in {"live", "cancelling"} /\ handler[w] \in {"live", "cancelling"}
        /\ TaskOf[RunOf(v)] = TaskOf[RunOf(w)]
        => v = w

\* A run is in as many places as its status says: a waiting one has one item,
\* in the queue or in a blocked put, a running one has one worker and none.
EveryRunInOnePlace ==
    \A r \in Runs :
        LET items == Cardinality({i \in DOMAIN queue : queue[i].run = r})
            puts == Cardinality({w \in Workers : pc[w] = "put" /\ RunOf(w) = r})
            runs == Cardinality({w \in Workers : pc[w] = "wait" /\ RunOf(w) = r})
        IN  /\ status[r] \in {"QUEUED", "RETRYING"} => items + puts = 1 /\ runs = 0
            /\ status[r] = "RUNNING" => items + puts = 0 /\ runs = 1
            /\ status[r] \in {"SUCCEEDED", "FAILED"} => items + puts + runs = 0
            /\ status[r] = "CANCELLED" => items <= 1 /\ puts + runs = 0

\* A run cancelled before it ever executed stays CANCELLED and never executes
\* (worker loop, "is CANCELLED"), even when a recovery rewrites statuses.
CancelledBeforeStartNeverRuns ==
    [][\A r \in Runs :
          status[r] = "CANCELLED" /\ executions[r] = 0
             => status'[r] = "CANCELLED" /\ executions'[r] = 0]_vars

\* Without recovery the queue keeps the promise of RunLifecycle.
Lifecycle == INSTANCE RunLifecycle
ImplementsLifecycle == Lifecycle!Spec

\* Every run that was accepted ends.
EveryRunEnds == \A r \in Runs : status[r] \in Active ~> status[r] \in Final

\* "Recover running jobs": recovery settles a run that is running.
RecoversRunningRuns ==
    [][rec.at = "gather" /\ rec'.at # "gather" => status[rec.run] = "RUNNING"]_vars

\* A retry that was granted is executed or cancelled.
RetriesHappen == \A r \in Runs : status[r] = "RETRYING" ~> status[r] # "RETRYING"

=============================================================================
