------------------------ MODULE AgentRunQueue_proofs ------------------------
(***************************************************************************)
(* Proofs about AgentRunQueue, for every set of runs, tasks and workers,   *)
(* every queue size, and every mix of cancellations, kills, stops and      *)
(* recoveries: its types, that handlers of one task exclude each other,    *)
(* and that a run cancelled before it began never begins.  Without recovery*)
(* the queue implements RunLifecycle; when nothing is killed or stopped    *)
(* either, every run has one place.                                        *)
(***************************************************************************)
EXTENDS AgentRunQueue, FiniteSetTheorems, TLAPS

\* Worker w is inside "async with lock".
Executing(w) == pc[w] \in {"wait", "put"}

\* Between taking the task lock and leaving it, a worker has an item and is
\* the one the lock names.
ExecutingHoldsLock ==
    \A w \in Workers : Executing(w) => item[w] \in Items /\ lock[TaskOf[RunOf(w)]] = w

\* Only a worker inside wait_for has a running handler.
HandlersAreAwaited ==
    \A w \in Workers : handler[w] \in {"live", "cancelling"} => pc[w] = "wait"

\* A retry that waits for a place was within its budget.
BlockedRetryInBudget == \A w \in Workers : pc[w] = "put" => AttemptsLeft(w)

\* stop() leaves no worker behind, and start() is the only way back.
NoWorkerBeforeStart == ~started => \A w \in Workers : pc[w] = "off"

\* A suspended recovery remembers the run it recovers.
RecoveryHasRun ==
    /\ rec.at \in {"gather", "put"} => rec.run \in Runs
    /\ rec.at = "put" => MaxAttempts > 1

\* What concerns the workers and the task locks
WorkersOK ==
    /\ lock \in [Tasks -> Workers \cup {NoWorker}]
    /\ pc \in [Workers -> {"off", "get", "sleep", "wait", "put"}]
    /\ item \in [Workers -> Items \cup {NoItem}]
    /\ handler \in [Workers -> Results \cup {"none", "live", "cancelling"}]
    /\ signals \in [Workers -> SUBSET {"killed", "expired", "mustCancel"}]
    /\ ExecutingHoldsLock
    /\ HandlersAreAwaited
    /\ BlockedRetryInBudget

\* What concerns the queue
QueueOK == queue \in Seq(Items) /\ Len(queue) <= MaxSize

\* What concerns a recovery under way
RecoveryOK ==
    /\ rec \in [at : {"idle", "scan", "gather", "put"}, todo : SUBSET Runs,
                stale : SUBSET Runs, run : Runs \cup {NoRun}, ready : BOOLEAN]
    /\ RecoveryHasRun

\* The inductive invariant
IInv ==
    /\ QueueOK /\ WorkersOK /\ RecoveryOK /\ NoWorkerBeforeStart
    /\ status \in [Runs -> Active \cup Final \cup {"NONE"}]
    /\ cancelled \subseteq Runs /\ old \subseteq Runs /\ recoveryRequested \subseteq Runs
    /\ started \in BOOLEAN /\ stopping \in BOOLEAN
    /\ stop \in {"no", "gather"}
    /\ executions \in [Runs -> Nat]
    /\ disturbances \in 0 .. MaxDisturbances

USE QueueAssumption DEF Final, Active, Results

-----------------------------------------------------------------------------
\* What happens to the queue

\* A put into a queue with room keeps it typed and within its size.
LEMMA AppendKeepsQueue ==
    ASSUME QueueOK, ~Full, NEW x \in Items
    PROVE  Append(queue, x) \in Seq(Items) /\ Len(Append(queue, x)) <= MaxSize
BY DEF QueueOK, Full

\* What a worker gets is an item, and the rest is shorter.
LEMMA HeadIsItem ==
    ASSUME QueueOK, queue # <<>>
    PROVE  /\ Head(queue) \in Items /\ Head1 \in Runs
           /\ Tail(queue) \in Seq(Items) /\ Len(Tail(queue)) = Len(queue) - 1
<1>1. Head(queue) \in Items /\ Tail(queue) \in Seq(Items) /\ Len(Tail(queue)) = Len(queue) - 1
  BY DEF QueueOK
<1>. QED  BY <1>1 DEF Items, Head1

\* The next attempt of an item whose budget is not used up is an item.
LEMMA NextAttemptIsItem ==
    ASSUME NEW x \in Items, x.attempt < MaxAttempts
    PROVE  [x EXCEPT !.attempt = @ + 1] \in Items
BY DEF Items

-----------------------------------------------------------------------------
\* What happens to the workers

\* No two workers execute for one task.
LEMMA ExecutionExcludes ==
    ASSUME WorkersOK, NEW v \in Workers, NEW w \in Workers,
           Executing(v), Executing(w), TaskOf[RunOf(v)] = TaskOf[RunOf(w)]
    PROVE  v = w
BY DEF WorkersOK, ExecutingHoldsLock

\* A worker that leaves _execute gives up the lock it holds and no other.
LEMMA LeaveKeepsWorkers ==
    ASSUME WorkersOK, NEW w \in Workers, Executing(w),
           NEW next \in {"off", "get"}, Leave(w, next)
    PROVE  WorkersOK'
<1>. DEFINE t == TaskOf[RunOf(w)]
<1>1. item[w] \in Items /\ RunOf(w) \in Runs /\ t \in Tasks
  BY DEF WorkersOK, ExecutingHoldsLock, RunOf, Items
<1>2. /\ lock' \in [Tasks -> Workers \cup {NoWorker}]
      /\ pc' \in [Workers -> {"off", "get", "sleep", "wait", "put"}]
      /\ item' \in [Workers -> Items \cup {NoItem}]
      /\ handler' \in [Workers -> Results \cup {"none", "live", "cancelling"}]
      /\ signals' \in [Workers -> SUBSET {"killed", "expired", "mustCancel"}]
  BY DEF WorkersOK, Leave
<1>3. ASSUME NEW v \in Workers, Executing(v)'
      PROVE  /\ v # w /\ Executing(v) /\ item'[v] = item[v]
             /\ item[v] \in Items /\ lock'[TaskOf[RunOf(v)]] = v
  <2>1. v # w /\ Executing(v) /\ item'[v] = item[v]
    BY <1>3 DEF WorkersOK, Leave, Executing
  <2>2. item[v] \in Items /\ lock[TaskOf[RunOf(v)]] = v /\ TaskOf[RunOf(v)] \in Tasks
    BY <2>1 DEF WorkersOK, ExecutingHoldsLock, RunOf, Items
  <2>3. TaskOf[RunOf(v)] # t
    BY <2>1, ExecutionExcludes
  <2>. QED  BY <2>1, <2>2, <2>3 DEF Leave, WorkersOK
<1>4. ExecutingHoldsLock'
  BY <1>3 DEF ExecutingHoldsLock, RunOf
<1>5. HandlersAreAwaited' /\ BlockedRetryInBudget'
  BY <1>3 DEF WorkersOK, Leave, HandlersAreAwaited, BlockedRetryInBudget, AttemptsLeft,
              Executing
<1>. QED  BY <1>2, <1>4, <1>5 DEF WorkersOK

\* Every other change of handlers and signals inside wait_for keeps the lock.
LEMMA HandlerChangeKeepsWorkers ==
    ASSUME WorkersOK, UNCHANGED <<lock, pc, item>>,
           handler' \in [Workers -> Results \cup {"none", "live", "cancelling"}],
           signals' \in [Workers -> SUBSET {"killed", "expired", "mustCancel"}],
           \A w \in Workers : handler'[w] \in {"live", "cancelling"}
                                => handler[w] \in {"live", "cancelling"}
    PROVE  WorkersOK'
BY DEF WorkersOK, ExecutingHoldsLock, HandlersAreAwaited, BlockedRetryInBudget,
       AttemptsLeft, Executing, RunOf

\* Killing any set of workers frees the locks of those that die at once.
LEMMA KillKeepsWorkers ==
    ASSUME WorkersOK, NEW ws \in SUBSET Workers, KillWorkers(ws)
    PROVE  WorkersOK' /\ \A w \in Workers : pc[w] = "off" => pc'[w] = "off"
<1>. DEFINE dying == {w \in ws : pc[w] \in {"get", "sleep", "put"}}
<1>1. /\ pc' = [w \in Workers |-> IF w \in dying THEN "off" ELSE pc[w]]
      /\ item' = [w \in Workers |-> IF w \in dying THEN NoItem ELSE item[w]]
      /\ lock' = [t \in Tasks |-> IF lock[t] \in dying THEN NoWorker ELSE lock[t]]
  BY DEF KillWorkers
<1>2. /\ handler' \in [Workers -> Results \cup {"none", "live", "cancelling"}]
      /\ signals' \in [Workers -> SUBSET {"killed", "expired", "mustCancel"}]
  BY DEF KillWorkers, WorkersOK, CancelHandler, Signalled
<1>3. \A w \in Workers : handler'[w] \in {"live", "cancelling"}
          => handler[w] \in {"live", "cancelling"} /\ w \notin dying
  BY DEF KillWorkers, WorkersOK, CancelHandler
<1>4. ASSUME NEW v \in Workers, Executing(v)'
      PROVE  /\ v \notin dying /\ Executing(v) /\ item'[v] = item[v] /\ pc'[v] = pc[v]
             /\ item[v] \in Items /\ lock'[TaskOf[RunOf(v)]] = v
  <2>1. v \notin dying /\ Executing(v) /\ item'[v] = item[v] /\ pc'[v] = pc[v]
    BY <1>1, <1>4 DEF Executing, WorkersOK
  <2>2. item[v] \in Items /\ lock[TaskOf[RunOf(v)]] = v /\ TaskOf[RunOf(v)] \in Tasks
    BY <2>1 DEF WorkersOK, ExecutingHoldsLock, RunOf, Items
  <2>. QED  BY <2>1, <2>2, <1>1
<1>5. ExecutingHoldsLock'
  BY <1>4 DEF ExecutingHoldsLock, RunOf
<1>6. HandlersAreAwaited'
  BY <1>1, <1>3 DEF WorkersOK, HandlersAreAwaited
<1>7. BlockedRetryInBudget'
  BY <1>4 DEF WorkersOK, BlockedRetryInBudget, AttemptsLeft, Executing
<1>. HIDE DEF dying
<1>8. /\ lock' \in [Tasks -> Workers \cup {NoWorker}]
      /\ pc' \in [Workers -> {"off", "get", "sleep", "wait", "put"}]
      /\ item' \in [Workers -> Items \cup {NoItem}]
  BY <1>1 DEF WorkersOK
<1>. QED  BY <1>1, <1>2, <1>5, <1>6, <1>7, <1>8 DEF WorkersOK

-----------------------------------------------------------------------------
\* One lemma per group of actions

\* The invariant holds before the queue is used.
LEMMA InitEstablishes == Init => IInv
<1>. SUFFICES ASSUME Init PROVE IInv
  OBVIOUS
<1>1. QueueOK
  BY DEF Init, QueueOK
<1>2. WorkersOK /\ NoWorkerBeforeStart
  BY DEF Init, WorkersOK, ExecutingHoldsLock, Executing, HandlersAreAwaited,
         BlockedRetryInBudget, NoWorkerBeforeStart
<1>3. RecoveryOK
  BY DEF Init, RecoveryOK, RecoveryHasRun
<1>4. /\ status \in [Runs -> Active \cup Final \cup {"NONE"}]
      /\ executions \in [Runs -> Nat]
  BY DEF Init
<1>5. /\ cancelled \subseteq Runs /\ old \subseteq Runs /\ recoveryRequested \subseteq Runs
      /\ started \in BOOLEAN /\ stopping \in BOOLEAN
  BY DEF Init
<1>6. stop \in {"no", "gather"} /\ disturbances \in 0 .. MaxDisturbances
  BY DEF Init
<1>. QED  BY <1>1, <1>2, <1>3, <1>4, <1>5, <1>6 DEF IInv

\* Calls that neither start nor end a worker
LEMMA CallersKeep ==
    ASSUME IInv, NEW r \in Runs,
           Enqueue(r) \/ Cancel(r) \/ HeartbeatAges(r) \/ Heartbeat(r)
    PROVE  IInv'
<1>1. WorkersOK' /\ NoWorkerBeforeStart'
  BY DEF IInv, Enqueue, Cancel, HeartbeatAges, Heartbeat, workerVars, WorkersOK,
         ExecutingHoldsLock, Executing, RunOf, HandlersAreAwaited,
         BlockedRetryInBudget, AttemptsLeft, NoWorkerBeforeStart
<1>2. CASE Enqueue(r)
  <2>1. [run |-> r, attempt |-> 1] \in Items
    BY DEF Items
  <2>2. QueueOK'
    BY <1>2, <2>1, AppendKeepsQueue DEF Enqueue, QueueOK, IInv
  <2>. QED  BY <1>1, <1>2, <2>2 DEF IInv, Enqueue, RecoveryOK, RecoveryHasRun
<1>3. CASE Cancel(r)
  BY <1>1, <1>3 DEF IInv, Cancel, AfterCancel, QueueOK, RecoveryOK, RecoveryHasRun
<1>4. CASE HeartbeatAges(r)
  BY <1>1, <1>4 DEF IInv, HeartbeatAges, QueueOK, RecoveryOK, RecoveryHasRun
<1>5. CASE Heartbeat(r)
  BY <1>1, <1>5 DEF IInv, Heartbeat, Fresh, QueueOK, RecoveryOK, RecoveryHasRun
<1>. QED  BY <1>2, <1>3, <1>4, <1>5

\* start() finds no worker of an earlier start.
LEMMA StartKeeps == ASSUME IInv, Start PROVE IInv'
<1>1. \A w \in Workers : pc[w] = "off"
  BY DEF IInv, Start, NoWorkerBeforeStart
<1>2. WorkersOK'
  BY <1>1 DEF IInv, Start, WorkersOK, ExecutingHoldsLock, Executing,
              HandlersAreAwaited, BlockedRetryInBudget
<1>. QED
  BY <1>2 DEF IInv, Start, QueueOK, NoWorkerBeforeStart, RecoveryOK, RecoveryHasRun

\* A worker that holds no lock
LEMMA BetweenRunsKeeps ==
    ASSUME IInv, NEW w \in Workers, DropCancelled(w) \/ PutBack(w) \/ WakeUp(w)
    PROVE  IInv'
<1>1. UNCHANGED <<lock, item, handler, signals>> /\ started' = started
  BY DEF DropCancelled, PutBack, WakeUp, workerVars
<1>2. /\ pc' \in [Workers -> {"off", "get", "sleep", "wait", "put"}]
      /\ \A v \in Workers : pc'[v] # pc[v]
            => pc[v] \in {"get", "sleep"} /\ pc'[v] \in {"get", "sleep"}
  BY DEF IInv, WorkersOK, DropCancelled, PutBack, WakeUp, Take, workerVars
<1>3. WorkersOK'
  BY <1>1, <1>2 DEF IInv, WorkersOK, ExecutingHoldsLock, Executing, RunOf,
                    HandlersAreAwaited, BlockedRetryInBudget, AttemptsLeft
<1>4. QueueOK'
  <2>1. CASE queue # <<>> /\ queue' = Tail(queue)
    BY <2>1, HeadIsItem DEF IInv, QueueOK
  <2>2. CASE queue # <<>> /\ queue' = Append(Tail(queue), Head(queue))
    BY <2>2, HeadIsItem DEF IInv, QueueOK
  <2>3. CASE queue' = queue
    BY <2>3 DEF IInv, QueueOK
  <2>. QED  BY <2>1, <2>2, <2>3 DEF DropCancelled, PutBack, WakeUp, Take
<1>5. NoWorkerBeforeStart'
  BY <1>1, <1>2 DEF IInv, NoWorkerBeforeStart
<1>. QED
  BY <1>3, <1>4, <1>5 DEF IInv, DropCancelled, PutBack, WakeUp, RecoveryOK,
                          RecoveryHasRun

\* A worker that starts a run takes a lock nobody holds.
LEMMA ExecuteKeeps == ASSUME IInv, NEW w \in Workers, Execute(w) PROVE IInv'
<1>. DEFINE t == TaskOf[Head1]
<1>1. /\ pc[w] = "get" /\ Head(queue) \in Items /\ Head1 \in Runs /\ t \in Tasks
      /\ QueueOK'
  BY HeadIsItem DEF IInv, Execute, Take, QueueOK
<1>2. lock[t] = NoWorker
  BY DEF Execute, LockFree
<1>3. ASSUME NEW v \in Workers, v # w, Executing(v)'
      PROVE  /\ Executing(v) /\ item'[v] = item[v] /\ item[v] \in Items
             /\ lock'[TaskOf[RunOf(v)]] = v /\ pc'[v] = pc[v]
  <2>1. Executing(v) /\ item'[v] = item[v] /\ pc'[v] = pc[v]
    BY <1>3 DEF IInv, WorkersOK, Execute, Executing
  <2>2. item[v] \in Items /\ lock[TaskOf[RunOf(v)]] = v /\ TaskOf[RunOf(v)] \in Tasks
    BY <2>1 DEF IInv, WorkersOK, ExecutingHoldsLock, RunOf, Items
  <2>3. TaskOf[RunOf(v)] # t
    BY <1>2, <2>2
  <2>. QED  BY <2>1, <2>2, <2>3, <1>1 DEF Execute, IInv, WorkersOK
<1>4. item'[w] = Head(queue) /\ lock'[t] = w /\ pc'[w] = "wait"
  BY <1>1 DEF Execute, IInv, WorkersOK
<1>5. ExecutingHoldsLock'
  BY <1>1, <1>3, <1>4 DEF ExecutingHoldsLock, RunOf, Head1
<1>6. HandlersAreAwaited' /\ BlockedRetryInBudget'
  BY <1>3, <1>4 DEF IInv, WorkersOK, Execute, HandlersAreAwaited,
                    BlockedRetryInBudget, AttemptsLeft, Executing
<1>7. WorkersOK'
  BY <1>1, <1>5, <1>6 DEF IInv, WorkersOK, Execute
<1>8. NoWorkerBeforeStart'
  BY <1>1 DEF IInv, NoWorkerBeforeStart, Execute
<1>9. /\ status' \in [Runs -> Active \cup Final \cup {"NONE"}]
      /\ executions' \in [Runs -> Nat]
  BY <1>1 DEF IInv, Execute
<1>10. old' \subseteq Runs /\ RecoveryOK'
  BY DEF IInv, Execute, Fresh, RecoveryOK, RecoveryHasRun
<1>. QED  BY <1>1, <1>7, <1>8, <1>9, <1>10 DEF IInv, Execute

\* A handler that ends, and a timeout that cancels it
LEMMA HandlerKeeps ==
    ASSUME IInv, NEW w \in Workers,
           (\E result \in Results : HandlerEnds(w, result)) \/ TimesOut(w)
    PROVE  IInv'
<1>1. WorkersOK'
  BY HandlerChangeKeepsWorkers
     DEF IInv, WorkersOK, HandlerEnds, TimesOut, Signalled, CancelHandler
<1>. QED
  BY <1>1 DEF IInv, HandlerEnds, TimesOut, QueueOK, NoWorkerBeforeStart,
              RecoveryOK, RecoveryHasRun

\* The five ways of leaving wait_for that put nothing back into the queue
LEMMA FinishKeeps ==
    ASSUME IInv, NEW w \in Workers,
           \/ FinishOk(w) \/ FinishFailed(w) \/ FinishCancelled(w)
           \/ FinishForRecovery(w) \/ WorkerDies(w)
    PROVE  IInv'
<1>1. /\ pc[w] = "wait" /\ Gathered(w) /\ \E next \in {"off", "get"} : Leave(w, next)
      /\ UNCHANGED <<queue, cancelled, started, stopping, old, stop, executions,
                     disturbances>>
  BY DEF FinishOk, FinishFailed, FinishCancelled, FinishForRecovery, WorkerDies, Returns
<1>2. WorkersOK'
  BY <1>1, LeaveKeepsWorkers DEF IInv, Executing
<1>3. started
  BY <1>1 DEF IInv, NoWorkerBeforeStart
<1>4. RunOf(w) \in Runs
  BY <1>1 DEF IInv, WorkersOK, ExecutingHoldsLock, Executing, RunOf, Items
<1>5. /\ status' \in [Runs -> Active \cup Final \cup {"NONE"}]
      /\ recoveryRequested' \subseteq Runs
  BY <1>4 DEF IInv, FinishOk, FinishFailed, FinishCancelled, FinishForRecovery,
              WorkerDies, SetStatus
<1>6. RecoveryOK'
  BY <1>1 DEF IInv, Gathered, RecoveryOK, RecoveryHasRun
<1>. QED  BY <1>1, <1>2, <1>3, <1>5, <1>6 DEF IInv, QueueOK, NoWorkerBeforeStart

\* A retry goes to the back of the queue, or waits there with the lock held.
LEMMA RetryKeeps == ASSUME IInv, NEW w \in Workers, Retry(w) PROVE IInv'
<1>1. /\ pc[w] = "wait" /\ handler[w] \in Results /\ AttemptsLeft(w) /\ Gathered(w)
      /\ UNCHANGED <<cancelled, started, stopping, old, recoveryRequested, stop,
                     executions, disturbances>>
  BY DEF Retry, Returns
<1>2. item[w] \in Items /\ RunOf(w) \in Runs /\ started
  BY <1>1 DEF IInv, WorkersOK, ExecutingHoldsLock, Executing, RunOf, Items,
              NoWorkerBeforeStart
<1>3. status' \in [Runs -> Active \cup Final \cup {"NONE"}]
  BY <1>2 DEF IInv, Retry, SetStatus
<1>4. RecoveryOK'
  BY <1>1 DEF IInv, Gathered, RecoveryOK, RecoveryHasRun
<1>5. CASE Full
  <2>1. pc' = [pc EXCEPT ![w] = "put"] /\ UNCHANGED <<queue, lock, item, handler, signals>>
    BY <1>5 DEF Retry
  <2>2. pc' \in [Workers -> {"off", "get", "sleep", "wait", "put"}]
    BY <2>1 DEF IInv, WorkersOK
  <2>3. \A v \in Workers :
            /\ Executing(v)' <=> Executing(v)
            /\ v # w => pc'[v] = pc[v]
    BY <1>1, <2>1 DEF IInv, WorkersOK, Executing
  <2>4. ExecutingHoldsLock'
    BY <2>1, <2>3 DEF IInv, WorkersOK, ExecutingHoldsLock, RunOf
  <2>5. HandlersAreAwaited' /\ BlockedRetryInBudget'
    BY <1>1, <2>1, <2>3 DEF IInv, WorkersOK, HandlersAreAwaited,
                            BlockedRetryInBudget, AttemptsLeft
  <2>6. WorkersOK' /\ QueueOK'
    BY <2>1, <2>2, <2>4, <2>5 DEF IInv, WorkersOK, QueueOK
  <2>. QED  BY <1>1, <1>2, <1>3, <1>4, <2>6 DEF IInv, NoWorkerBeforeStart
<1>6. CASE ~Full
  <2>1. queue' = Append(queue, [item[w] EXCEPT !.attempt = @ + 1]) /\ Leave(w, "get")
    BY <1>6 DEF Retry
  <2>2. QueueOK'
    BY <1>1, <1>2, <1>6, <2>1, AppendKeepsQueue, NextAttemptIsItem
       DEF IInv, QueueOK, AttemptsLeft
  <2>3. WorkersOK'
    BY <1>1, <2>1, LeaveKeepsWorkers DEF IInv, Executing
  <2>. QED  BY <1>1, <1>2, <1>3, <1>4, <2>2, <2>3 DEF IInv, NoWorkerBeforeStart
<1>. QED  BY <1>5, <1>6

\* The blocked put of a retry goes through.
LEMMA PutRetryKeeps == ASSUME IInv, NEW w \in Workers, PutRetry(w) PROVE IInv'
<1>1. /\ pc[w] = "put" /\ ~Full /\ Leave(w, "get")
      /\ queue' = Append(queue, [item[w] EXCEPT !.attempt = @ + 1])
  BY DEF PutRetry
<1>2. item[w] \in Items /\ AttemptsLeft(w) /\ started
  BY <1>1 DEF IInv, WorkersOK, ExecutingHoldsLock, Executing, BlockedRetryInBudget,
              NoWorkerBeforeStart
<1>3. QueueOK'
  BY <1>1, <1>2, AppendKeepsQueue, NextAttemptIsItem DEF IInv, QueueOK, AttemptsLeft
<1>4. WorkersOK'
  BY <1>1, LeaveKeepsWorkers DEF IInv, Executing
<1>. QED
  BY <1>2, <1>3, <1>4 DEF IInv, PutRetry, NoWorkerBeforeStart, RecoveryOK, RecoveryHasRun

\* Killed workers, and those that stop() cancels
LEMMA KillsKeep ==
    ASSUME IInv, StopCall \/ \E w \in Workers : Kill(w)
    PROVE  IInv'
<1>1. PICK ws \in SUBSET Workers : KillWorkers(ws)
  BY DEF StopCall, Kill
<1>2. WorkersOK' /\ \A w \in Workers : pc[w] = "off" => pc'[w] = "off"
  BY <1>1, KillKeepsWorkers DEF IInv
<1>3. started' = started /\ stop' \in {"no", "gather"} /\ stopping' \in BOOLEAN
  BY DEF IInv, StopCall, Kill
<1>4. disturbances' \in 0 .. MaxDisturbances
  <2>1. disturbances < MaxDisturbances /\ disturbances' = disturbances + 1
    BY DEF StopCall, Kill, Disturb
  <2>. QED  BY <2>1 DEF IInv
<1>5. NoWorkerBeforeStart'
  BY <1>2, <1>3 DEF IInv, NoWorkerBeforeStart
<1>. QED
  BY <1>2, <1>3, <1>4, <1>5 DEF IInv, StopCall, Kill, QueueOK, RecoveryOK, RecoveryHasRun

\* stop() returns when all workers are gone.
LEMMA StopReturnKeeps == ASSUME IInv, StopReturn PROVE IInv'
<1>1. WorkersOK' /\ NoWorkerBeforeStart'
  BY DEF IInv, StopReturn, workerVars, WorkersOK, ExecutingHoldsLock, Executing, RunOf,
         HandlersAreAwaited, BlockedRetryInBudget, AttemptsLeft, NoWorkerBeforeStart
<1>. QED  BY <1>1 DEF IInv, StopReturn, QueueOK, RecoveryOK, RecoveryHasRun

\* A recovery replaces workers that died, none that holds a lock.
LEMMA RecoverCallKeeps == ASSUME IInv, RecoverCall PROVE IInv'
<1>1. /\ pc' \in [Workers -> {"off", "get", "sleep", "wait", "put"}]
      /\ \A w \in Workers : pc'[w] # pc[w] => pc[w] = "off" /\ pc'[w] = "get" /\ started
  BY DEF IInv, WorkersOK, RecoverCall
<1>2. WorkersOK'
  BY <1>1 DEF IInv, RecoverCall, WorkersOK, ExecutingHoldsLock, Executing, RunOf,
              HandlersAreAwaited, BlockedRetryInBudget, AttemptsLeft
<1>3. NoWorkerBeforeStart'
  BY <1>1 DEF IInv, RecoverCall, NoWorkerBeforeStart
<1>4. RecoveryOK'
  BY DEF IInv, RecoverCall, RecoveryOK, RecoveryHasRun
<1>5. disturbances' \in 0 .. MaxDisturbances
  BY DEF IInv, RecoverCall, Disturb
<1>. QED  BY <1>2, <1>3, <1>4, <1>5 DEF IInv, RecoverCall, QueueOK

\* A recovery cancels a handler and waits.
LEMMA RecoverCancelsKeeps == ASSUME IInv, NEW r \in Runs, RecoverCancels(r) PROVE IInv'
<1>1. PICK w \in Workers :
          /\ handler' = [handler EXCEPT ![w] = CancelHandler(@)]
          /\ rec' = [rec EXCEPT !.at = "gather", !.run = r, !.ready = pc[w] = "put",
                                !.todo = @ \ {r}]
  BY DEF RecoverCancels
<1>2. WorkersOK'
  <2>1. handler' \in [Workers -> Results \cup {"none", "live", "cancelling"}]
    BY <1>1 DEF IInv, WorkersOK, CancelHandler
  <2>2. \A v \in Workers : handler'[v] \in {"live", "cancelling"}
                              => handler[v] \in {"live", "cancelling"}
    BY <1>1 DEF IInv, WorkersOK, CancelHandler
  <2>3. UNCHANGED <<lock, pc, item, signals>>
    BY DEF RecoverCancels
  <2>. QED
    BY <2>1, <2>2, <2>3, HandlerChangeKeepsWorkers DEF IInv, WorkersOK
<1>3. RecoveryOK'
  BY <1>1 DEF IInv, RecoveryOK, RecoveryHasRun
<1>. QED
  BY <1>2, <1>3 DEF IInv, RecoverCancels, QueueOK, NoWorkerBeforeStart

\* A recovery settles a run: its first attempt has a successor within the budget.
LEMMA SettleKeeps ==
    ASSUME IInv, NEW r \in Runs, Settle(r), recoveryRequested' \subseteq Runs
    PROVE  IInv'
<1>1. /\ status' \in [Runs -> Active \cup Final \cup {"NONE"}]
      /\ UNCHANGED <<cancelled, started, stopping, workerVars, old, stop,
                     executions, disturbances>>
  BY DEF IInv, Settle
<1>2. QueueOK'
  <2>1. CASE MaxAttempts > 1 /\ ~Full
    <3>1. [run |-> r, attempt |-> 2] \in Items
      BY <2>1 DEF Items
    <3>2. queue' = Append(queue, [run |-> r, attempt |-> 2])
      BY <2>1 DEF Settle
    <3>. QED  BY <2>1, <3>1, <3>2, AppendKeepsQueue DEF IInv, QueueOK
  <2>2. CASE ~(MaxAttempts > 1 /\ ~Full)
    BY <2>2 DEF IInv, QueueOK, Settle
  <2>. QED  BY <2>1, <2>2
<1>3. RecoveryOK'
  BY DEF IInv, Settle, RecoveryOK, RecoveryHasRun
<1>4. WorkersOK' /\ NoWorkerBeforeStart'
  BY <1>1 DEF IInv, workerVars, WorkersOK, ExecutingHoldsLock, Executing, RunOf,
              HandlersAreAwaited, BlockedRetryInBudget, AttemptsLeft, NoWorkerBeforeStart
<1>. QED  BY <1>1, <1>2, <1>3, <1>4 DEF IInv

\* Every step of a recovery
LEMMA RecoverStepKeeps == ASSUME IInv, RecoverStep PROVE IInv'
<1>1. ASSUME NEW r \in Runs, RecoverCancels(r) PROVE IInv'
  BY <1>1, RecoverCancelsKeeps
<1>2. ASSUME NEW r \in Runs, RecoverDirectly(r) PROVE IInv'
  BY <1>2, SettleKeeps DEF IInv, RecoverDirectly
<1>3. CASE RecoverGathered
  BY <1>3, SettleKeeps DEF IInv, RecoverGathered, RecoveryOK, RecoveryHasRun
<1>4. CASE RecoverPuts \/ RecoverReturns
  <2>1. QueueOK'
    <3>1. CASE RecoverPuts
      <4>1. [run |-> rec.run, attempt |-> 2] \in Items
        BY <3>1 DEF IInv, RecoverPuts, RecoveryOK, RecoveryHasRun, Items
      <4>. QED  BY <3>1, <4>1, AppendKeepsQueue DEF IInv, QueueOK, RecoverPuts
    <3>2. CASE RecoverReturns
      BY <3>2 DEF IInv, QueueOK, RecoverReturns
    <3>. QED  BY <1>4, <3>1, <3>2
  <2>2. RecoveryOK'
    BY <1>4 DEF IInv, RecoverPuts, RecoverReturns, RecoveryOK, RecoveryHasRun
  <2>3. WorkersOK' /\ NoWorkerBeforeStart'
    BY <1>4 DEF IInv, RecoverPuts, RecoverReturns, workerVars, WorkersOK,
                ExecutingHoldsLock, Executing, RunOf, HandlersAreAwaited,
                BlockedRetryInBudget, AttemptsLeft, NoWorkerBeforeStart
  <2>4. UNCHANGED <<status, cancelled, old, recoveryRequested, started, stopping,
                    stop, executions, disturbances>>
    BY <1>4 DEF RecoverPuts, RecoverReturns
  <2>. QED  BY <2>1, <2>2, <2>3, <2>4 DEF IInv
<1>. QED  BY <1>1, <1>2, <1>3, <1>4 DEF RecoverStep

\* Nothing changes.
LEMMA StutterKeeps == ASSUME IInv, UNCHANGED vars PROVE IInv'
BY DEF vars, workerVars, IInv, QueueOK, WorkersOK, RecoveryOK, RecoveryHasRun,
       ExecutingHoldsLock, Executing, RunOf, HandlersAreAwaited,
       BlockedRetryInBudget, AttemptsLeft, NoWorkerBeforeStart

-----------------------------------------------------------------------------
\* The inductive invariant holds in every reachable state of the queue.
THEOREM InductiveInvariant == Spec => []IInv
<1>1. IInv /\ [Next]_vars => IInv'
  <2>. SUFFICES ASSUME IInv, [Next]_vars PROVE IInv'
    OBVIOUS
  <2>1. ASSUME NEW w \in Workers, WorkerStep(w) PROVE IInv'
    BY <2>1, BetweenRunsKeeps, ExecuteKeeps, FinishKeeps, RetryKeeps, PutRetryKeeps
       DEF WorkerStep
  <2>2. ASSUME NEW w \in Workers, HandlerStep(w) \/ TimesOut(w) PROVE IInv'
    BY <2>2, HandlerKeeps DEF HandlerStep
  <2>3. CASE CallerStep
    BY <2>3, CallersKeep, StartKeeps, KillsKeep, RecoverCallKeeps DEF CallerStep
  <2>. QED  BY <2>1, <2>2, <2>3, RecoverStepKeeps, StopReturnKeeps, StutterKeeps DEF Next
<1>. QED  BY <1>1, InitEstablishes, PTL DEF Spec

\* Every variable keeps its type; the queue never exceeds its maxsize and no
\* item its attempts.
THEOREM TypeCorrectness == Spec => []TypeOK
<1>1. IInv => TypeOK
  BY DEF IInv, QueueOK, WorkersOK, RecoveryOK, TypeOK
<1>. QED  BY <1>1, InductiveInvariant, PTL

\* Handlers of one task never run at the same time, whatever is cancelled,
\* killed, stopped or recovered meanwhile.
THEOREM MutualExclusion == Spec => []TaskExclusion
<1>1. IInv => TaskExclusion
  <2>. SUFFICES ASSUME IInv, NEW v \in Workers, NEW w \in Workers,
                       handler[v] \in {"live", "cancelling"},
                       handler[w] \in {"live", "cancelling"},
                       TaskOf[RunOf(v)] = TaskOf[RunOf(w)]
                PROVE  v = w
    BY DEF TaskExclusion
  <2>1. Executing(v) /\ Executing(w)
    BY DEF IInv, WorkersOK, HandlersAreAwaited, Executing
  <2>. QED  BY <2>1, ExecutionExcludes DEF IInv
<1>. QED  BY <1>1, InductiveInvariant, PTL

-----------------------------------------------------------------------------
\* A run cancelled before it started

\* Whatever claims that a run has started comes after its start: its status,
\* a worker that executes it, the snapshot and the pending put of a recovery.
BegunOK ==
    /\ \A r \in Runs : status[r] \in {"RUNNING", "RETRYING", "SUCCEEDED", "FAILED"}
                         => executions[r] > 0
    /\ \A w \in Workers : Executing(w) => executions[RunOf(w)] > 0
    /\ \A r \in rec.todo : executions[r] > 0
    /\ rec.at \in {"gather", "put"} => executions[rec.run] > 0

\* No step takes a start back, and a run begins only by being executed.
LEMMA BegunInductive == IInv /\ IInv' /\ BegunOK /\ [Next]_vars => BegunOK'
<1>. SUFFICES ASSUME IInv, IInv', BegunOK, [Next]_vars PROVE BegunOK'
  OBVIOUS
<1>. USE DEF BegunOK
<1>1. /\ status \in [Runs -> Active \cup Final \cup {"NONE"}]
      /\ executions \in [Runs -> Nat] /\ executions' \in [Runs -> Nat]
      /\ rec.todo \subseteq Runs /\ rec.stale \subseteq Runs /\ WorkersOK
      /\ rec.at \in {"gather", "put"} => rec.run \in Runs
      /\ pc \in [Workers -> {"off", "get", "sleep", "wait", "put"}]
      /\ item \in [Workers -> Items \cup {NoItem}]
      /\ rec \in [at : {"idle", "scan", "gather", "put"}, todo : SUBSET Runs,
                  stale : SUBSET Runs, run : Runs \cup {NoRun}, ready : BOOLEAN]
  BY DEF IInv, WorkersOK, RecoveryOK, RecoveryHasRun
<1>2. ASSUME NEW w \in Workers, Executing(w)
      PROVE  RunOf(w) \in Runs /\ executions[RunOf(w)] > 0
  BY <1>1, <1>2 DEF WorkersOK, ExecutingHoldsLock, RunOf, Items
<1>3. ASSUME UNCHANGED <<pc, item, executions>>,
             \A r \in Runs : status'[r] = status[r] \/ executions[r] > 0
                          \/ status'[r] \in {"NONE", "QUEUED", "CANCELLED"},
             rec'.todo \subseteq rec.todo,
             rec'.at \in {"gather", "put"} => executions[rec'.run] > 0
      PROVE  BegunOK'
  BY <1>1, <1>2, <1>3 DEF Executing, RunOf
<1>4. ASSUME NEW r \in Runs, Enqueue(r) \/ Cancel(r) \/ HeartbeatAges(r) \/ Heartbeat(r)
      PROVE  BegunOK'
  <2>1. \A s \in Runs : status'[s] = status[s] \/ status'[s] \in {"QUEUED", "CANCELLED"}
    BY <1>1, <1>4 DEF Enqueue, Cancel, AfterCancel, HeartbeatAges, Heartbeat
  <2>2. rec'.todo = rec.todo /\ rec'.at = rec.at /\ rec'.run = rec.run
    BY <1>1, <1>4 DEF Enqueue, Cancel, HeartbeatAges, Heartbeat, Fresh
  <2>3. UNCHANGED <<pc, item, executions>>
    BY <1>4 DEF Enqueue, Cancel, HeartbeatAges, Heartbeat, workerVars
  <2>. QED  BY <1>1, <1>3, <2>1, <2>2, <2>3
<1>5. CASE Start \/ RecoverCall
  <2>1. \A w \in Workers : Executing(w)' => Executing(w)
    BY <1>1, <1>5 DEF Start, RecoverCall, Executing
  <2>2. \/ rec' = rec
        \/ rec'.todo = {r \in Runs : status[r] = "RUNNING"} /\ rec'.at = "scan"
    BY <1>5 DEF Start, RecoverCall
  <2>3. UNCHANGED <<status, item, executions>>
    BY <1>5 DEF Start, RecoverCall
  <2>. QED  BY <1>1, <1>2, <2>1, <2>2, <2>3 DEF RunOf
<1>6. ASSUME NEW w \in Workers, DropCancelled(w) \/ PutBack(w) \/ WakeUp(w)
      PROVE  BegunOK'
  <2>1. UNCHANGED <<status, item, executions, rec>>
    BY <1>6 DEF DropCancelled, PutBack, WakeUp, workerVars
  <2>2. \A v \in Workers : Executing(v)' => Executing(v)
    BY <1>1, <1>6 DEF DropCancelled, PutBack, WakeUp, workerVars, Executing
  <2>. QED  BY <1>1, <1>2, <2>1, <2>2 DEF RunOf
<1>7. ASSUME NEW w \in Workers, Execute(w) PROVE BegunOK'
  <2>1. Head1 \in Runs /\ pc[w] = "get"
    BY <1>7, HeadIsItem DEF IInv, Execute, Take
  <2>2. /\ executions'[Head1] > 0
        /\ \A r \in Runs : r # Head1 => executions'[r] = executions[r]
    <3>1. executions' = [executions EXCEPT ![Head1] = @ + 1] /\ executions[Head1] \in Nat
      BY <1>1, <1>7, <2>1 DEF Execute
    <3>. QED  BY <1>1, <2>1, <3>1
  <2>3. \A r \in Runs : r = Head1 \/ status'[r] = status[r]
    BY <1>1, <1>7, <2>1 DEF Execute
  <2>4. RunOf(w)' = Head1 /\ \A v \in Workers \ {w} : RunOf(v)' = RunOf(v) /\ pc'[v] = pc[v]
    BY <1>1, <1>7 DEF Execute, RunOf, Head1
  <2>5. rec'.todo = rec.todo /\ rec'.at = rec.at /\ rec'.run = rec.run
    BY <1>1, <1>7 DEF Execute, Fresh
  <2>6. \A v \in Workers : Executing(v)' => executions'[RunOf(v)'] > 0
    BY <1>1, <1>2, <2>1, <2>2, <2>4 DEF Executing
  <2>. QED  BY <1>1, <2>1, <2>2, <2>3, <2>5, <2>6 DEF RunOf
<1>8. ASSUME NEW w \in Workers, (\E result \in Results : HandlerEnds(w, result)) \/ TimesOut(w)
      PROVE  BegunOK'
  BY <1>1, <1>3, <1>8 DEF HandlerEnds, TimesOut
<1>9. ASSUME NEW w \in Workers,
             \/ FinishOk(w) \/ FinishFailed(w) \/ FinishCancelled(w)
             \/ FinishForRecovery(w) \/ WorkerDies(w) \/ Retry(w) \/ PutRetry(w)
      PROVE  BegunOK'
  <2>1. Executing(w) /\ executions' = executions
    BY <1>9 DEF FinishOk, FinishFailed, FinishCancelled, FinishForRecovery, WorkerDies,
                Retry, PutRetry, Returns, Executing
  <2>2. \A r \in Runs : r = RunOf(w) \/ status'[r] = status[r]
    BY <1>1, <1>2, <1>9, <2>1
       DEF FinishOk, FinishFailed, FinishCancelled, FinishForRecovery, WorkerDies,
           Retry, PutRetry, SetStatus
  <2>3. rec'.todo = rec.todo /\ rec'.at = rec.at /\ rec'.run = rec.run
    BY <1>1, <1>9
       DEF FinishOk, FinishFailed, FinishCancelled, FinishForRecovery, WorkerDies,
           Retry, PutRetry, Gathered
  <2>4. \A v \in Workers : Executing(v)' => Executing(v) /\ RunOf(v)' = RunOf(v)
    BY <1>1, <1>9, <2>1
       DEF FinishOk, FinishFailed, FinishCancelled, FinishForRecovery, WorkerDies,
           Retry, PutRetry, Leave, Executing, RunOf
  <2>5. \A v \in Workers : Executing(v)' => executions'[RunOf(v)'] > 0
    BY <1>2, <2>1, <2>4
  <2>. QED  BY <1>1, <1>2, <2>1, <2>2, <2>3, <2>5 DEF RunOf
<1>10. ASSUME StopCall \/ \E w \in Workers : Kill(w) PROVE BegunOK'
  <2>1. UNCHANGED <<status, executions, rec>>
    BY <1>10 DEF StopCall, Kill
  <2>2. PICK ws \in SUBSET Workers : KillWorkers(ws)
    BY <1>10 DEF StopCall, Kill
  <2>3. \A v \in Workers : Executing(v)' => Executing(v) /\ RunOf(v)' = RunOf(v)
    BY <1>1, <2>2 DEF KillWorkers, Executing, RunOf
  <2>4. \A v \in Workers : Executing(v)' => executions'[RunOf(v)'] > 0
    BY <1>2, <2>1, <2>3
  <2>. QED  BY <1>1, <2>1, <2>4 DEF RunOf
<1>11. CASE StopReturn \/ UNCHANGED vars
  BY <1>1, <1>3, <1>11 DEF StopReturn, vars, workerVars
<1>12. CASE RecoverStep
  <2>1. ASSUME NEW r \in Runs, RecoverCancels(r) PROVE BegunOK'
    BY <1>1, <1>3, <2>1 DEF RecoverCancels
  <2>2. ASSUME NEW r \in Runs, executions[r] > 0, Settle(r) PROVE BegunOK'
    <3>1. UNCHANGED <<pc, item, executions>>
      BY <2>2 DEF Settle, workerVars
    <3>2. PICK value : status' = [status EXCEPT ![r] = value]
      BY <2>2 DEF Settle
    <3>3. rec'.todo = rec.todo \ {r} /\ rec'.run = r
      BY <1>1, <2>2 DEF Settle
    <3>4. \A s \in Runs : s = r \/ status'[s] = status[s]
      BY <1>1, <3>2
    <3>. QED  BY <1>3, <2>2, <3>1, <3>3, <3>4
  <2>3. CASE RecoverPuts \/ RecoverReturns
    <3>1. UNCHANGED <<pc, item, executions, status>>
      BY <2>3 DEF RecoverPuts, RecoverReturns, workerVars
    <3>2. rec'.todo \subseteq rec.todo /\ rec'.at \in {"scan", "idle"}
      BY <1>1, <2>3 DEF RecoverPuts, RecoverReturns
    <3>. QED  BY <1>3, <3>1, <3>2
  <2>4. \A r \in Runs : RecoverDirectly(r) => Settle(r) /\ executions[r] > 0
    BY <1>1 DEF RecoverDirectly
  <2>5. RecoverGathered => Settle(rec.run) /\ rec.run \in Runs /\ executions[rec.run] > 0
    BY <1>1 DEF RecoverGathered
  <2>. QED  BY <1>12, <2>1, <2>2, <2>3, <2>4, <2>5 DEF RecoverStep
<1>. QED
  BY <1>4, <1>5, <1>6, <1>7, <1>8, <1>9, <1>10, <1>11, <1>12
     DEF Next, WorkerStep, HandlerStep, CallerStep

\* A run that was cancelled before it ever executed stays so, and never
\* executes, under every mix of kills, stops, restarts and recoveries.
THEOREM CancelledStaysUnstarted == Spec => CancelledBeforeStartNeverRuns
<1>1. Spec => []BegunOK
  <2>1. Init => BegunOK
    BY DEF Init, BegunOK, Executing
  <2>. QED  BY <2>1, BegunInductive, InductiveInvariant, PTL DEF Spec
<1>2. ASSUME IInv, IInv', BegunOK, [Next]_vars, NEW r \in Runs,
             status[r] = "CANCELLED", executions[r] = 0
      PROVE  status'[r] = "CANCELLED" /\ executions'[r] = 0
  <2>1. /\ status \in [Runs -> Active \cup Final \cup {"NONE"}]
        /\ executions \in [Runs -> Nat]
        /\ rec.todo \subseteq Runs /\ WorkersOK
        /\ rec.at \in {"gather", "put"} => rec.run \in Runs
    BY <1>2 DEF IInv, RecoveryOK, RecoveryHasRun
  <2>2. \A w \in Workers : Executing(w) => RunOf(w) # r
    BY <1>2, <2>1 DEF BegunOK
  <2>3. ASSUME NEW w \in Workers, WorkerStep(w)
        PROVE  status'[r] = "CANCELLED" /\ executions'[r] = 0
    <3>1. CASE Execute(w)
      <4>1. Head1 # r
        BY <1>2, <3>1 DEF Execute, Withdrawn
      <4>. QED  BY <1>2, <2>1, <3>1, <4>1 DEF Execute
    <3>2. CASE DropCancelled(w) \/ PutBack(w) \/ WakeUp(w) \/ PutRetry(w)
      BY <1>2, <3>2 DEF DropCancelled, PutBack, WakeUp, PutRetry
    <3>3. CASE FinishOk(w) \/ FinishFailed(w) \/ FinishCancelled(w)
               \/ FinishForRecovery(w) \/ WorkerDies(w) \/ Retry(w)
      <4>1. Executing(w)
        BY <3>3 DEF FinishOk, FinishFailed, FinishCancelled, FinishForRecovery,
                    WorkerDies, Retry, Returns, Executing
      <4>. QED
        BY <1>2, <2>1, <2>2, <3>3, <4>1
           DEF FinishOk, FinishFailed, FinishCancelled, FinishForRecovery, WorkerDies,
               Retry, SetStatus
    <3>. QED  BY <2>3, <3>1, <3>2, <3>3 DEF WorkerStep
  <2>4. ASSUME NEW w \in Workers, HandlerStep(w) \/ TimesOut(w) \/ Kill(w)
        PROVE  status'[r] = "CANCELLED" /\ executions'[r] = 0
    BY <1>2, <2>4 DEF HandlerStep, HandlerEnds, TimesOut, Kill
  <2>5. CASE Start \/ StopCall \/ StopReturn \/ RecoverCall \/ UNCHANGED vars
    BY <1>2, <2>5 DEF Start, StopCall, StopReturn, RecoverCall, vars
  <2>6. ASSUME NEW s \in Runs, Enqueue(s) \/ Cancel(s) \/ HeartbeatAges(s) \/ Heartbeat(s)
        PROVE  status'[r] = "CANCELLED" /\ executions'[r] = 0
    BY <1>2, <2>1, <2>6 DEF Enqueue, NewKey, Cancel, AfterCancel, HeartbeatAges, Heartbeat
  <2>7. CASE RecoverStep
    <3>1. ASSUME NEW s \in Runs, executions[s] > 0, Settle(s)
          PROVE  status'[r] = "CANCELLED" /\ executions'[r] = 0
      BY <1>2, <2>1, <3>1 DEF Settle
    <3>2. \A s \in Runs : RecoverDirectly(s) => Settle(s) /\ executions[s] > 0
      BY <1>2 DEF RecoverDirectly, BegunOK
    <3>3. RecoverGathered => Settle(rec.run) /\ rec.run \in Runs /\ executions[rec.run] > 0
      BY <1>2, <2>1 DEF RecoverGathered, BegunOK
    <3>4. (\E s \in Runs : RecoverCancels(s)) \/ RecoverPuts \/ RecoverReturns
             => UNCHANGED <<status, executions>>
      BY DEF RecoverCancels, RecoverPuts, RecoverReturns
    <3>. QED  BY <1>2, <2>7, <3>1, <3>2, <3>3, <3>4 DEF RecoverStep
  <2>. QED
    BY <1>2, <2>3, <2>4, <2>5, <2>6, <2>7 DEF Next, CallerStep
<1>3. IInv /\ IInv' /\ BegunOK /\ [Next]_vars
        => [\A r \in Runs : status[r] = "CANCELLED" /\ executions[r] = 0
               => status'[r] = "CANCELLED" /\ executions'[r] = 0]_vars
  BY <1>2
<1>. QED
  BY <1>1, <1>3, InductiveInvariant, PTL DEF Spec, CancelledBeforeStartNeverRuns

-----------------------------------------------------------------------------
\* Without recoveries; and without kills, stops and handlers that go astray

\* The circumstances in which the queue promises what RunLifecycle says
Unrecovered == "recover" \notin Events

\* No recovery is under way, or has left a request behind.
NoRecovery == recoveryRequested = {} /\ rec.at = "idle"

\* The circumstances in which, besides, it loses no run
Undisturbed == Events \cap {"kill", "stop", "recover", "stray"} = {}

\* Besides, only a timeout cancels a handler or a worker, and a handler that
\* ended cancelled has expired or its run was cancelled.
NothingDisturbed ==
    /\ NoRecovery /\ stop = "no"
    /\ \A w \in Workers :
          /\ "killed" \notin signals[w]
          /\ "mustCancel" \in signals[w] \/ handler[w] = "cancelling"
                => "expired" \in signals[w]
          /\ handler[w] = "cancelled" => "expired" \in signals[w] \/ RunOf(w) \in cancelled

\* A queued item is the only one of its run, which waits or was withdrawn, and
\* numbers the execution to come.
QueueHoldsWaiting ==
    \A i \in DOMAIN queue :
        /\ status[queue[i].run] \in {"QUEUED", "RETRYING", "CANCELLED"}
        /\ executions[queue[i].run] + 1 = queue[i].attempt
        /\ \A j \in DOMAIN queue : queue[j].run = queue[i].run => j = i
        /\ \A w \in Workers : Executing(w) => RunOf(w) # queue[i].run

\* A worker that executes a run numbers this execution.
ExecutingAsStatus ==
    \A w \in Workers : Executing(w) =>
        /\ status[RunOf(w)] = IF pc[w] = "put" THEN "RETRYING" ELSE "RUNNING"
        /\ executions[RunOf(w)] = item[w].attempt

\* r has an item in the queue; a worker is where a given pc says with r in hand.
Queued(r) == \E i \in DOMAIN queue : queue[i].run = r
InHand(r, where) == \E w \in Workers : pc[w] = where /\ RunOf(w) = r

\* A run begins when it was accepted.
UnacceptedUnexecuted == \A r \in Runs : status[r] = "NONE" => executions[r] = 0

\* Nothing that was accepted is lost.
StatusHasPlace ==
    \A r \in Runs :
        /\ status[r] = "QUEUED" => Queued(r)
        /\ status[r] = "RETRYING" => Queued(r) \/ InHand(r, "put")
        /\ status[r] = "RUNNING" => InHand(r, "wait")

\* No run is in two places: the inductive invariant behind ImplementsLifecycle,
\* and, with StatusHasPlace, behind EveryRunInOnePlace
PlacesOK == QueueHoldsWaiting /\ ExecutingAsStatus

\* What can happen then, apart from what a worker does
LEMMA OnlyTheseSteps ==
    ASSUME Undisturbed, NothingDisturbed, [Next]_vars
    PROVE  \/ \E r \in Runs : Enqueue(r) \/ Cancel(r) \/ Heartbeat(r)
           \/ Start \/ UNCHANGED vars
           \/ \E w \in Workers : WorkerStep(w) \/ HandlerStep(w) \/ TimesOut(w)
<1>1. ~StopCall /\ ~RecoverCall /\ \A w \in Workers : ~Kill(w)
  BY DEF Undisturbed, StopCall, RecoverCall, Kill, Disturb
<1>2. ~StopReturn /\ ~RecoverStep
  BY DEF NothingDisturbed, NoRecovery, StopReturn, RecoverStep, RecoverCancels, RecoverDirectly,
         RecoverGathered, RecoverPuts, RecoverReturns
<1>3. \A r \in Runs : ~HeartbeatAges(r)
  BY DEF Undisturbed, HeartbeatAges
<1>. QED  BY <1>1, <1>2, <1>3 DEF Next, CallerStep

\* A worker whose handler was cancelled has expired, or its run was cancelled:
\* it neither dies nor leaves its run to a recovery.
LEMMA WorkersSurvive ==
    ASSUME IInv, NothingDisturbed, NEW w \in Workers
    PROVE  ~WorkerDies(w) /\ ~FinishForRecovery(w)
BY DEF NothingDisturbed, NoRecovery, WorkerDies, FinishForRecovery, Returns, Outcome, Expired

\* Timeouts stay the only reason why a handler or a worker is cancelled.
LEMMA NothingDisturbs ==
    ASSUME Undisturbed, IInv, NothingDisturbed, [Next]_vars
    PROVE  NothingDisturbed'
<1>1. /\ signals \in [Workers -> SUBSET {"killed", "expired", "mustCancel"}]
      /\ handler \in [Workers -> Results \cup {"none", "live", "cancelling"}]
      /\ item \in [Workers -> Items \cup {NoItem}]
      /\ rec \in [at : {"idle", "scan", "gather", "put"}, todo : SUBSET Runs,
                  stale : SUBSET Runs, run : Runs \cup {NoRun}, ready : BOOLEAN]
  BY DEF IInv, WorkersOK, RecoveryOK
<1>2. ASSUME recoveryRequested' = recoveryRequested, rec'.at = rec.at, stop' = stop,
             cancelled \subseteq cancelled', NEW w \in Workers,
             \A v \in Workers \ {w} :
                signals'[v] = signals[v] /\ handler'[v] = handler[v] /\ item'[v] = item[v],
             "killed" \notin signals'[w],
             "mustCancel" \in signals'[w] \/ handler'[w] = "cancelling"
                => "expired" \in signals'[w],
             handler'[w] = "cancelled" => "expired" \in signals'[w] \/ RunOf(w)' \in cancelled'
      PROVE  NothingDisturbed'
  BY <1>2 DEF NothingDisturbed, NoRecovery, RunOf
<1>3. ASSUME NEW r \in Runs, Enqueue(r) \/ Cancel(r) \/ Heartbeat(r)
      PROVE  NothingDisturbed'
  BY <1>1, <1>3 DEF NothingDisturbed, NoRecovery, Enqueue, Cancel, Heartbeat, Fresh, workerVars, RunOf
<1>4. CASE Start \/ UNCHANGED vars
  BY <1>4 DEF NothingDisturbed, NoRecovery, Start, vars, workerVars, RunOf
<1>5. ASSUME NEW w \in Workers, WorkerStep(w) PROVE NothingDisturbed'
  <2>1. CASE DropCancelled(w) \/ PutBack(w) \/ WakeUp(w)
    BY <2>1 DEF NothingDisturbed, NoRecovery, DropCancelled, PutBack, WakeUp, workerVars, RunOf
  <2>2. CASE Execute(w)
    BY <1>1, <1>2, <2>2 DEF NothingDisturbed, NoRecovery, Execute, Fresh
  <2>3. CASE FinishOk(w) \/ FinishFailed(w) \/ FinishCancelled(w) \/ PutRetry(w)
    <3>1. Leave(w, "get") /\ UNCHANGED <<cancelled, recoveryRequested, stop>>
      BY <2>3 DEF FinishOk, FinishFailed, FinishCancelled, PutRetry
    <3>2. rec'.at = rec.at
      BY <1>1, <2>3 DEF FinishOk, FinishFailed, FinishCancelled, PutRetry, Gathered
    <3>3. /\ signals'[w] = {} /\ handler'[w] = "none"
          /\ \A v \in Workers \ {w} :
                signals'[v] = signals[v] /\ handler'[v] = handler[v] /\ item'[v] = item[v]
      BY <1>1, <3>1 DEF Leave
    <3>. QED  BY <1>2, <3>1, <3>2, <3>3
  <2>4. CASE Retry(w)
    BY <1>1, <1>2, <2>4 DEF NothingDisturbed, NoRecovery, Retry, Leave, Gathered, RunOf
  <2>. QED  BY <1>5, <2>1, <2>2, <2>3, <2>4, WorkersSurvive DEF WorkerStep
<1>6. ASSUME NEW w \in Workers, HandlerStep(w) PROVE NothingDisturbed'
  <2>1. PICK result \in Results : HandlerEnds(w, result)
    BY <1>6 DEF HandlerStep
  <2>2. result = "cancelled" => "expired" \in signals[w] \/ RunOf(w) \in cancelled
    BY <2>1 DEF HandlerEnds, Undisturbed, NothingDisturbed, NoRecovery
  <2>3. /\ handler' = [handler EXCEPT ![w] = result] /\ result # "cancelling"
        /\ UNCHANGED <<cancelled, item, signals, recoveryRequested, rec, stop>>
    BY <2>1 DEF HandlerEnds
  <2>. QED  BY <1>1, <1>2, <2>2, <2>3 DEF NothingDisturbed, NoRecovery, RunOf
<1>7. ASSUME NEW w \in Workers, TimesOut(w) PROVE NothingDisturbed'
  <2>1. "expired" \in signals'[w] /\ "killed" \notin signals'[w]
    BY <1>1, <1>7 DEF NothingDisturbed, NoRecovery, TimesOut, Signalled
  <2>. QED  BY <1>1, <1>2, <1>7, <2>1 DEF NothingDisturbed, NoRecovery, TimesOut
<1>. QED  BY <1>3, <1>4, <1>5, <1>6, <1>7, OnlyTheseSteps

\* What the queue holds are items.
LEMMA EntriesAreItems ==
    ASSUME QueueOK, NEW i \in DOMAIN queue
    PROVE  queue[i] \in Items /\ queue[i].run \in Runs /\ queue[i].attempt \in 1 .. MaxAttempts
<1>1. queue[i] \in Items
  BY DEF QueueOK
<1>. QED  BY <1>1 DEF Items

\* The entries that remain after a get, and their places
LEMMA TailEntries ==
    ASSUME QueueOK, queue # <<>>
    PROVE  /\ 1 \in DOMAIN queue /\ queue[1] = Head(queue)
           /\ \A i \in DOMAIN Tail(queue) :
                 i \in Nat \ {0} /\ i + 1 \in DOMAIN queue /\ Tail(queue)[i] = queue[i + 1]
           /\ \A i \in DOMAIN queue \ {1} :
                 i \in Nat /\ i - 1 \in DOMAIN Tail(queue) /\ Tail(queue)[i - 1] = queue[i]
BY DEF QueueOK

\* A put adds an entry behind the others.
LEMMA AppendEntries ==
    ASSUME NEW q \in Seq(Items), NEW x \in Items
    PROVE  /\ DOMAIN Append(q, x) = DOMAIN q \cup {Len(q) + 1}
           /\ Len(q) + 1 \notin DOMAIN q
           /\ \A i \in DOMAIN q : Append(q, x)[i] = q[i]
           /\ Append(q, x)[Len(q) + 1] = x
OBVIOUS

\* A step that adds the only entry of a run no worker has in hand
LEMMA EntryAdded ==
    ASSUME QueueOK, QueueHoldsWaiting, NEW x \in Items, queue' = Append(queue, x),
           ~Queued(x.run), executions' = executions, executions[x.run] + 1 = x.attempt,
           status'[x.run] \in {"QUEUED", "RETRYING"},
           \A i \in DOMAIN queue : status'[queue[i].run] = status[queue[i].run],
           \A w \in Workers : Executing(w)' => Executing(w) /\ RunOf(w)' = RunOf(w)
                                               /\ RunOf(w) # x.run
    PROVE  QueueHoldsWaiting'
<1>1. /\ DOMAIN queue' = DOMAIN queue \cup {Len(queue) + 1}
      /\ Len(queue) + 1 \notin DOMAIN queue
      /\ \A i \in DOMAIN queue : queue'[i] = queue[i]
      /\ queue'[Len(queue) + 1] = x
  BY AppendEntries DEF QueueOK
<1>2. \A i \in DOMAIN queue : queue[i].run # x.run
  BY DEF Queued
<1>. QED  BY <1>1, <1>2 DEF QueueHoldsWaiting

\* An executing worker's run, its item and what the invariants say of them
LEMMA RunInHand ==
    ASSUME IInv, PlacesOK, NEW w \in Workers, Executing(w)
    PROVE  /\ item[w] \in Items /\ RunOf(w) \in Runs /\ RunOf(w) = item[w].run
           /\ executions[RunOf(w)] = item[w].attempt
           /\ ~Queued(RunOf(w))
           /\ \A v \in Workers : Executing(v) /\ RunOf(v) = RunOf(w) => v = w
<1>1. item[w] \in Items /\ RunOf(w) \in Runs /\ RunOf(w) = item[w].run
  BY DEF IInv, WorkersOK, ExecutingHoldsLock, RunOf, Items
<1>2. executions[RunOf(w)] = item[w].attempt /\ ~Queued(RunOf(w))
  BY DEF PlacesOK, ExecutingAsStatus, QueueHoldsWaiting, Queued
<1>3. \A v \in Workers : Executing(v) /\ RunOf(v) = RunOf(w) => v = w
  BY ExecutionExcludes DEF IInv
<1>. QED  BY <1>1, <1>2, <1>3

\* Callers, handlers and timeouts leave queue and items alone; a cancellation
\* withdraws a run that waits.
LEMMA CallersKeepPlaces ==
    ASSUME IInv, PlacesOK,
           \/ \E r \in Runs : Cancel(r) \/ Heartbeat(r)
           \/ Start \/ UNCHANGED vars
           \/ \E w \in Workers : WakeUp(w) \/ HandlerStep(w) \/ TimesOut(w)
    PROVE  PlacesOK' /\ (StatusHasPlace => StatusHasPlace')
<1>1. UNCHANGED <<queue, item, executions>>
  BY DEF Cancel, Heartbeat, Start, vars, workerVars, WakeUp, HandlerStep, HandlerEnds,
         TimesOut
<1>2. \A w \in Workers :
          /\ Executing(w)' <=> Executing(w)
          /\ Executing(w) => pc'[w] = pc[w]
  <2>1. CASE Start
    BY <2>1 DEF IInv, NoWorkerBeforeStart, Start, Executing
  <2>2. CASE ~Start
    BY <2>2 DEF IInv, WorkersOK, Cancel, Heartbeat, vars, workerVars, WakeUp,
                HandlerStep, HandlerEnds, TimesOut, Executing
  <2>. QED  BY <2>1, <2>2
<1>3. \A s \in Runs : \/ status'[s] = status[s]
                      \/ status[s] = "QUEUED" /\ status'[s] = "CANCELLED"
  <2>1. ASSUME NEW r \in Runs, Cancel(r), NEW s \in Runs
        PROVE  \/ status'[s] = status[s]
               \/ status[s] = "QUEUED" /\ status'[s] = "CANCELLED"
    <3>1. status' = [status EXCEPT ![r] = IF @ = "QUEUED" THEN "CANCELLED" ELSE @]
      BY <2>1 DEF Cancel, AfterCancel
    <3>2. status \in [Runs -> Active \cup Final \cup {"NONE"}]
      BY DEF IInv
    <3>. QED  BY <3>1, <3>2
  <2>2. (\A r \in Runs : ~Cancel(r)) => status' = status
    BY DEF Heartbeat, Start, vars, WakeUp, HandlerStep, HandlerEnds, TimesOut
  <2>. QED  BY <2>1, <2>2
<1>4. \A i \in DOMAIN queue : queue[i].run \in Runs
  BY EntriesAreItems DEF IInv
<1>5. QueueHoldsWaiting'
  BY <1>1, <1>2, <1>3, <1>4 DEF PlacesOK, QueueHoldsWaiting, RunOf
<1>6. ExecutingAsStatus'
  BY <1>1, <1>2, <1>3, RunInHand DEF PlacesOK, ExecutingAsStatus, RunOf
<1>7. StatusHasPlace => StatusHasPlace'
  BY <1>1, <1>2, <1>3 DEF PlacesOK, StatusHasPlace, Queued, InHand, RunOf, Executing
<1>. QED  BY <1>5, <1>6, <1>7 DEF PlacesOK

\* A run is accepted when no item, worker or execution of it exists.
LEMMA EnqueueKeepsPlaces ==
    ASSUME IInv, PlacesOK, UnacceptedUnexecuted, NEW r \in Runs, Enqueue(r)
    PROVE  PlacesOK' /\ (StatusHasPlace => StatusHasPlace')
<1>. DEFINE x == [run |-> r, attempt |-> 1]
<1>1. /\ x \in Items /\ queue' = Append(queue, x) /\ status[r] = "NONE"
      /\ status' = [status EXCEPT ![r] = "QUEUED"] /\ UNCHANGED <<workerVars, executions>>
  BY DEF Enqueue, NewKey, Items
<1>2. ~Queued(r) /\ executions[r] = 0 /\ \A w \in Workers : Executing(w) => RunOf(w) # r
  <2>1. ~Queued(r) /\ executions[r] = 0
    BY <1>1 DEF PlacesOK, QueueHoldsWaiting, UnacceptedUnexecuted, Queued
  <2>2. \A w \in Workers : Executing(w) => RunOf(w) # r
    BY <1>1 DEF PlacesOK, ExecutingAsStatus
  <2>. QED  BY <2>1, <2>2
<1>3. \A s \in Runs : s # r => status'[s] = status[s]
  BY <1>1 DEF IInv
<1>4. \A i \in DOMAIN queue : queue[i].run \in Runs /\ queue[i].run # r
  BY <1>2, EntriesAreItems DEF IInv, Queued
<1>5. QueueHoldsWaiting'
  <2>1. status'[r] = "QUEUED" /\ x.run = r /\ x.attempt = 1
    BY <1>1 DEF IInv
  <2>2. \A w \in Workers : (Executing(w)' <=> Executing(w)) /\ RunOf(w)' = RunOf(w)
    BY <1>1 DEF workerVars, Executing, RunOf
  <2>. HIDE DEF x
  <2>. QED
    BY <1>1, <1>2, <1>3, <1>4, <2>1, <2>2, EntryAdded DEF IInv, PlacesOK
<1>6. ExecutingAsStatus'
  BY <1>1, <1>2, <1>3, RunInHand
     DEF PlacesOK, ExecutingAsStatus, RunOf, Executing, workerVars
<1>7. StatusHasPlace => StatusHasPlace'
  <2>1. \A s \in Runs : Queued(s) => Queued(s)'
    <3>1. \A i \in DOMAIN queue : i \in DOMAIN queue' /\ queue'[i] = queue[i]
      BY <1>1, AppendEntries DEF IInv, QueueOK
    <3>. QED  BY <3>1 DEF Queued
  <2>2. Queued(r)'
    <3>1. Len(queue) + 1 \in DOMAIN queue' /\ queue'[Len(queue) + 1] = x /\ x.run = r
      BY <1>1, AppendEntries DEF IInv, QueueOK
    <3>. QED  BY <3>1 DEF Queued
  <2>3. \A s \in Runs, where \in {"put", "wait"} : InHand(s, where)' <=> InHand(s, where)
    BY <1>1 DEF InHand, RunOf, workerVars
  <2>4. status'[r] = "QUEUED"
    BY <1>1 DEF IInv
  <2>. QED
    BY <1>1, <1>3, <2>1, <2>2, <2>3, <2>4 DEF PlacesOK, StatusHasPlace
<1>. QED  BY <1>5, <1>6, <1>7 DEF PlacesOK

\* A withdrawn entry is dropped: its run is CANCELLED, and needs no place.
LEMMA DropKeepsPlaces ==
    ASSUME IInv, PlacesOK, NEW w \in Workers, DropCancelled(w)
    PROVE  PlacesOK' /\ (StatusHasPlace => StatusHasPlace')
<1>1. /\ queue # <<>> /\ queue' = Tail(queue) /\ status[Head(queue).run] = "CANCELLED"
      /\ UNCHANGED <<status, executions, lock, pc, item>>
  BY DEF DropCancelled, Take, Withdrawn, Head1, workerVars
<1>2. /\ \A i \in DOMAIN queue' :
            i \in Nat \ {0} /\ i + 1 \in DOMAIN queue /\ queue'[i] = queue[i + 1]
      /\ \A i \in DOMAIN queue \ {1} :
            i \in Nat /\ i - 1 \in DOMAIN queue' /\ queue'[i - 1] = queue[i]
      /\ queue[1] = Head(queue)
  BY <1>1, TailEntries DEF IInv
<1>3. QueueHoldsWaiting'
  BY <1>1, <1>2 DEF PlacesOK, QueueHoldsWaiting, Executing, RunOf
<1>4. ExecutingAsStatus'
  BY <1>1 DEF PlacesOK, ExecutingAsStatus, Executing, RunOf
<1>5. ASSUME NEW r \in Runs, Queued(r), status[r] # "CANCELLED" PROVE Queued(r)'
  <2>1. PICK i \in DOMAIN queue : queue[i].run = r
    BY <1>5 DEF Queued
  <2>2. i - 1 \in DOMAIN queue' /\ queue'[i - 1].run = r
    BY <1>1, <1>2, <1>5, <2>1
  <2>. QED  BY <2>2 DEF Queued
<1>6. StatusHasPlace => StatusHasPlace'
  BY <1>1, <1>5 DEF PlacesOK, StatusHasPlace, InHand, RunOf
<1>. QED  BY <1>3, <1>4, <1>6 DEF PlacesOK

\* A run whose task is busy moves to the back of the queue.
LEMMA PutBackKeepsPlaces ==
    ASSUME IInv, PlacesOK, NEW w \in Workers, PutBack(w)
    PROVE  PlacesOK' /\ (StatusHasPlace => StatusHasPlace')
<1>. DEFINE n == Len(Tail(queue)) + 1
<1>1. /\ queue # <<>> /\ queue' = Append(Tail(queue), Head(queue))
      /\ UNCHANGED <<status, executions, item>>
      /\ pc[w] = "get" /\ pc' = [pc EXCEPT ![w] = "sleep"]
  BY DEF PutBack, Take
<1>2. \A v \in Workers : Executing(v)' => Executing(v) /\ pc'[v] = pc[v]
  BY <1>1 DEF IInv, WorkersOK, Executing
<1>3. \A v \in Workers : Executing(v) => pc'[v] = pc[v]
  BY <1>1 DEF IInv, WorkersOK, Executing
<1>4. Tail(queue) \in Seq(Items) /\ Head(queue) \in Items
  BY <1>1, HeadIsItem DEF IInv
<1>5. /\ DOMAIN queue' = DOMAIN Tail(queue) \cup {n} /\ n \notin DOMAIN Tail(queue)
      /\ \A i \in DOMAIN Tail(queue) : queue'[i] = Tail(queue)[i]
      /\ queue'[n] = queue[1] /\ n \in Nat
  BY <1>1, <1>4, AppendEntries, TailEntries DEF IInv
<1>6. /\ 1 \in DOMAIN queue
      /\ \A i \in DOMAIN Tail(queue) :
            i \in Nat \ {0} /\ i + 1 \in DOMAIN queue /\ Tail(queue)[i] = queue[i + 1]
      /\ \A i \in DOMAIN queue \ {1} :
            i \in Nat /\ i - 1 \in DOMAIN Tail(queue) /\ Tail(queue)[i - 1] = queue[i]
  BY <1>1, TailEntries DEF IInv
<1>. HIDE DEF n
<1>7. QueueHoldsWaiting'
  <2>1. ASSUME NEW i \in DOMAIN queue'
        PROVE  \E k \in DOMAIN queue : /\ queue'[i] = queue[k]
                                       /\ k = IF i = n THEN 1 ELSE i + 1
    BY <1>5, <1>6
  <2>2. ASSUME NEW i \in DOMAIN queue'
        PROVE  /\ status'[queue'[i].run] \in {"QUEUED", "RETRYING", "CANCELLED"}
               /\ executions'[queue'[i].run] + 1 = queue'[i].attempt
               /\ \A v \in Workers : Executing(v)' => RunOf(v)' # queue'[i].run
    BY <1>1, <1>2, <2>1 DEF PlacesOK, QueueHoldsWaiting, RunOf
  <2>3. ASSUME NEW i \in DOMAIN queue', NEW j \in DOMAIN queue',
               queue'[j].run = queue'[i].run
        PROVE  j = i
    BY <1>5, <1>6, <2>1, <2>3 DEF PlacesOK, QueueHoldsWaiting
  <2>. QED  BY <2>2, <2>3 DEF QueueHoldsWaiting
<1>8. ExecutingAsStatus'
  BY <1>1, <1>2 DEF PlacesOK, ExecutingAsStatus, RunOf
<1>9. ASSUME NEW r \in Runs, Queued(r) PROVE Queued(r)'
  <2>1. PICK i \in DOMAIN queue : queue[i].run = r
    BY <1>9 DEF Queued
  <2>2. PICK j \in DOMAIN queue' : queue'[j] = queue[i]
    <3>1. CASE i = 1
      BY <3>1, <1>5
    <3>2. CASE i # 1
      <4>1. i - 1 \in DOMAIN Tail(queue) /\ Tail(queue)[i - 1] = queue[i]
        BY <3>2, <1>6
      <4>. QED  BY <4>1, <1>5
    <3>. QED  BY <3>1, <3>2
  <2>. QED  BY <2>1, <2>2 DEF Queued
<1>10. \A r \in Runs, where \in {"put", "wait"} : InHand(r, where) => InHand(r, where)'
  BY <1>1, <1>3 DEF InHand, RunOf, Executing
<1>11. StatusHasPlace => StatusHasPlace'
  BY <1>1, <1>9, <1>10 DEF PlacesOK, StatusHasPlace
<1>. QED  BY <1>7, <1>8, <1>11 DEF PlacesOK

\* A run that starts leaves the queue for the hands of one worker, who numbers
\* the execution as the entry did.
LEMMA ExecuteKeepsPlaces ==
    ASSUME IInv, PlacesOK, NEW w \in Workers, Execute(w)
    PROVE  PlacesOK' /\ (StatusHasPlace => StatusHasPlace')
<1>. PICK h \in Items : h = Head(queue)
  BY HeadIsItem DEF IInv, Execute, Take
<1>. DEFINE r == h.run
<1>1. /\ queue # <<>> /\ queue' = Tail(queue) /\ pc[w] = "get"
      /\ status' = [status EXCEPT ![r] = "RUNNING"]
      /\ executions' = [executions EXCEPT ![r] = @ + 1]
      /\ pc' = [pc EXCEPT ![w] = "wait"] /\ item' = [item EXCEPT ![w] = h]
  BY DEF Execute, Take, Head1
<1>2. r \in Runs
  BY DEF Items
<1>3. /\ queue[1] = h /\ 1 \in DOMAIN queue
      /\ \A i \in DOMAIN queue' :
            i \in Nat \ {0} /\ i + 1 \in DOMAIN queue /\ queue'[i] = queue[i + 1]
      /\ \A i \in DOMAIN queue \ {1} :
            i \in Nat /\ i - 1 \in DOMAIN queue' /\ queue'[i - 1] = queue[i]
  BY <1>1, TailEntries DEF IInv
<1>4. /\ executions[r] + 1 = h.attempt
      /\ \A i \in DOMAIN queue' : queue'[i].run # r
      /\ \A v \in Workers : Executing(v) => RunOf(v) # r
  BY <1>3 DEF PlacesOK, QueueHoldsWaiting
<1>5. /\ status'[r] = "RUNNING"
      /\ \A s \in Runs : s # r => status'[s] = status[s] /\ executions'[s] = executions[s]
  BY <1>1, <1>2 DEF IInv
<1>6. executions'[r] = h.attempt
  <2>1. executions \in [Runs -> Nat]
    BY DEF IInv
  <2>. QED  BY <1>1, <1>2, <1>4, <2>1
<1>7. /\ item'[w] = h /\ pc'[w] = "wait" /\ RunOf(w)' = r
      /\ \A v \in Workers \ {w} : pc'[v] = pc[v] /\ item'[v] = item[v] /\ RunOf(v)' = RunOf(v)
  <2>1. /\ item'[w] = h /\ pc'[w] = "wait"
        /\ \A v \in Workers \ {w} : pc'[v] = pc[v] /\ item'[v] = item[v]
    BY <1>1 DEF IInv, WorkersOK
  <2>. QED  BY <2>1 DEF RunOf
<1>8. \A i \in DOMAIN queue' : queue'[i].run \in Runs
  BY <1>3, EntriesAreItems DEF IInv
<1>9. QueueHoldsWaiting'
  BY <1>3, <1>4, <1>5, <1>7, <1>8 DEF PlacesOK, QueueHoldsWaiting, Executing
<1>10. ExecutingAsStatus'
  BY <1>4, <1>5, <1>6, <1>7, RunInHand DEF PlacesOK, ExecutingAsStatus, Executing
<1>11. StatusHasPlace => StatusHasPlace'
  <2>1. InHand(r, "wait")'
    BY <1>7 DEF InHand
  <2>2. ASSUME NEW s \in Runs, s # r, Queued(s) PROVE Queued(s)'
    <3>1. PICK i \in DOMAIN queue : queue[i].run = s
      BY <2>2 DEF Queued
    <3>2. i - 1 \in DOMAIN queue' /\ queue'[i - 1].run = s
      BY <1>3, <2>2, <3>1
    <3>. QED  BY <3>2 DEF Queued
  <2>3. \A s \in Runs, where \in {"put", "wait"} : InHand(s, where) => InHand(s, where)'
    BY <1>1, <1>7 DEF InHand
  <2>. QED  BY <1>2, <1>5, <2>1, <2>2, <2>3 DEF PlacesOK, StatusHasPlace
<1>. QED  BY <1>9, <1>10, <1>11 DEF PlacesOK

\* A run that ends is in no place: its only one was the hand that ends it.
LEMMA FinishKeepsPlaces ==
    ASSUME IInv, PlacesOK, NEW w \in Workers,
           FinishOk(w) \/ FinishFailed(w) \/ FinishCancelled(w)
    PROVE  PlacesOK' /\ (StatusHasPlace => StatusHasPlace')
<1>. PICK r \in Runs : r = RunOf(w)
  BY RunInHand DEF FinishOk, FinishFailed, FinishCancelled, Returns, Executing
<1>1. /\ pc[w] = "wait" /\ Leave(w, "get")
      /\ UNCHANGED <<queue, executions>>
      /\ \E s \in Final : status' = [status EXCEPT ![r] = s]
  BY DEF FinishOk, FinishFailed, FinishCancelled, Returns, SetStatus
<1>2. /\ status'[r] \in Final
      /\ \A s \in Runs : s # r => status'[s] = status[s]
  BY <1>1 DEF IInv
<1>3. \A v \in Workers : Executing(v)' => /\ Executing(v) /\ v # w
                                          /\ pc'[v] = pc[v] /\ item'[v] = item[v]
  BY <1>1 DEF IInv, WorkersOK, Leave, Executing
<1>4. \A v \in Workers \ {w} : pc'[v] = pc[v] /\ item'[v] = item[v]
  BY <1>1 DEF IInv, WorkersOK, Leave
<1>5. ~Queued(r) /\ \A v \in Workers : Executing(v) /\ RunOf(v) = r => v = w
  BY <1>1, RunInHand DEF Executing
<1>6. \A i \in DOMAIN queue : queue[i].run \in Runs \ {r}
  BY <1>5, EntriesAreItems DEF IInv, Queued
<1>7. QueueHoldsWaiting'
  BY <1>1, <1>2, <1>3, <1>6 DEF PlacesOK, QueueHoldsWaiting, RunOf
<1>8. ExecutingAsStatus'
  BY <1>1, <1>2, <1>3, <1>5, RunInHand DEF PlacesOK, ExecutingAsStatus, RunOf
<1>9. StatusHasPlace => StatusHasPlace'
  <2>1. ASSUME NEW s \in Runs, s # r, NEW where \in {"put", "wait"}, InHand(s, where)
        PROVE  InHand(s, where)'
    BY <2>1, <1>4 DEF InHand, RunOf
  <2>2. \A s \in Runs : Queued(s)' <=> Queued(s)
    BY <1>1 DEF Queued
  <2>. QED  BY <1>1, <1>2, <2>1, <2>2 DEF PlacesOK, StatusHasPlace
<1>. QED  BY <1>7, <1>8, <1>9 DEF PlacesOK

\* A retry that goes to the queue leaves the hands of its worker.
LEMMA RequeueKeepsPlaces ==
    ASSUME IInv, PlacesOK, NEW w \in Workers, Executing(w), AttemptsLeft(w), Leave(w, "get"),
           queue' = Append(queue, [item[w] EXCEPT !.attempt = @ + 1]),
           status' = [status EXCEPT ![RunOf(w)] = "RETRYING"], executions' = executions
    PROVE  PlacesOK' /\ (StatusHasPlace => StatusHasPlace')
<1>. PICK x \in Items : x = [item[w] EXCEPT !.attempt = @ + 1]
  BY RunInHand, NextAttemptIsItem DEF AttemptsLeft
<1>. DEFINE r == x.run
<1>1. r = RunOf(w) /\ r \in Runs /\ executions[r] + 1 = x.attempt
  BY RunInHand DEF Items
<1>2. /\ status'[r] = "RETRYING"
      /\ \A s \in Runs : s # r => status'[s] = status[s]
  BY <1>1 DEF IInv
<1>3. \A v \in Workers : Executing(v)' => /\ Executing(v) /\ v # w
                                          /\ pc'[v] = pc[v] /\ item'[v] = item[v]
  BY DEF IInv, WorkersOK, Leave, Executing
<1>4. \A v \in Workers \ {w} : pc'[v] = pc[v] /\ item'[v] = item[v]
  BY DEF IInv, WorkersOK, Leave
<1>5. ~Queued(r) /\ \A v \in Workers : Executing(v) /\ RunOf(v) = r => v = w
  BY <1>1, RunInHand
<1>6. \A i \in DOMAIN queue : queue[i].run \in Runs \ {r}
  BY <1>5, EntriesAreItems DEF IInv, Queued
<1>7. QueueHoldsWaiting'
  <2>1. \A v \in Workers : Executing(v)' => Executing(v) /\ RunOf(v)' = RunOf(v) /\ RunOf(v) # r
    BY <1>3, <1>5 DEF RunOf
  <2>2. queue' = Append(queue, x) /\ executions' = executions /\ QueueOK /\ QueueHoldsWaiting
    BY DEF IInv, PlacesOK
  <2>3. /\ ~Queued(x.run) /\ executions[x.run] + 1 = x.attempt
        /\ status'[x.run] \in {"QUEUED", "RETRYING"}
        /\ \A i \in DOMAIN queue : status'[queue[i].run] = status[queue[i].run]
    BY <1>1, <1>2, <1>5, <1>6
  <2>. QED  BY <2>1, <2>2, <2>3, EntryAdded
<1>8. ExecutingAsStatus'
  BY <1>1, <1>2, <1>3, <1>5, RunInHand DEF PlacesOK, ExecutingAsStatus, RunOf
<1>9. StatusHasPlace => StatusHasPlace'
  <2>1. ASSUME NEW s \in Runs, s # r, NEW where \in {"put", "wait"}, InHand(s, where)
        PROVE  InHand(s, where)'
    BY <2>1, <1>1, <1>4 DEF InHand, RunOf
  <2>2. /\ \A i \in DOMAIN queue : i \in DOMAIN queue' /\ queue'[i] = queue[i]
        /\ Len(queue) + 1 \in DOMAIN queue' /\ queue'[Len(queue) + 1] = x
    BY AppendEntries DEF IInv, QueueOK
  <2>3. \A s \in Runs : Queued(s) \/ s = r => Queued(s)'
    BY <2>2 DEF Queued
  <2>. QED  BY <1>1, <1>2, <2>1, <2>3 DEF PlacesOK, StatusHasPlace
<1>. QED  BY <1>7, <1>8, <1>9 DEF PlacesOK

\* A retry either goes to the queue or waits, in hand, for a place there.
LEMMA RetryKeepsPlaces ==
    ASSUME IInv, PlacesOK, NEW w \in Workers, Retry(w) \/ PutRetry(w)
    PROVE  PlacesOK' /\ (StatusHasPlace => StatusHasPlace')
<1>1. CASE PutRetry(w)
  <2>1. /\ pc[w] = "put" /\ Leave(w, "get") /\ UNCHANGED <<status, executions>>
        /\ queue' = Append(queue, [item[w] EXCEPT !.attempt = @ + 1])
    BY <1>1 DEF PutRetry
  <2>2. AttemptsLeft(w) /\ status[RunOf(w)] = "RETRYING" /\ RunOf(w) \in Runs
    BY <2>1, RunInHand DEF IInv, WorkersOK, BlockedRetryInBudget, PlacesOK, ExecutingAsStatus,
                           Executing
  <2>3. status' = [status EXCEPT ![RunOf(w)] = "RETRYING"]
    BY <2>1, <2>2 DEF IInv
  <2>. QED  BY <2>1, <2>2, <2>3, RequeueKeepsPlaces DEF Executing
<1>2. CASE Retry(w) /\ ~Full
  BY <1>2, RequeueKeepsPlaces DEF Retry, Returns, SetStatus, Executing
<1>3. CASE Retry(w) /\ Full
  <2>. PICK r \in Runs : r = RunOf(w)
    BY <1>3, RunInHand DEF Retry, Returns, Executing
  <2>1. /\ pc[w] = "wait" /\ pc' = [pc EXCEPT ![w] = "put"]
        /\ UNCHANGED <<queue, item, executions>>
        /\ status' = [status EXCEPT ![r] = "RETRYING"]
    BY <1>3 DEF Retry, Returns, SetStatus
  <2>2. /\ status'[r] = "RETRYING"
        /\ \A s \in Runs : s # r => status'[s] = status[s]
    BY <2>1 DEF IInv
  <2>3. /\ pc'[w] = "put" /\ \A v \in Workers \ {w} : pc'[v] = pc[v]
        /\ \A v \in Workers : Executing(v)' <=> Executing(v)
    BY <2>1 DEF IInv, WorkersOK, Executing
  <2>4. ~Queued(r) /\ \A v \in Workers : Executing(v) /\ RunOf(v) = r => v = w
    BY <2>1, RunInHand DEF Executing
  <2>5. \A i \in DOMAIN queue : queue[i].run \in Runs \ {r}
    BY <2>4, EntriesAreItems DEF IInv, Queued
  <2>6. QueueHoldsWaiting'
    BY <2>1, <2>2, <2>3, <2>5 DEF PlacesOK, QueueHoldsWaiting, RunOf
  <2>7. ExecutingAsStatus'
    BY <2>1, <2>2, <2>3, <2>4, RunInHand DEF PlacesOK, ExecutingAsStatus, RunOf
  <2>8. InHand(r, "put")'
    BY <2>1, <2>3 DEF InHand, RunOf
  <2>9. ASSUME NEW s \in Runs, s # r, NEW where \in {"put", "wait"}, InHand(s, where)
        PROVE  InHand(s, where)'
    BY <2>1, <2>3, <2>9 DEF InHand, RunOf
  <2>10. \A s \in Runs : Queued(s)' <=> Queued(s)
    BY <2>1 DEF Queued
  <2>11. StatusHasPlace => StatusHasPlace'
    BY <2>1, <2>2, <2>8, <2>9, <2>10 DEF PlacesOK, StatusHasPlace
  <2>. QED  BY <2>6, <2>7, <2>11 DEF PlacesOK
<1>. QED  BY <1>1, <1>2, <1>3

\* A worker that is killed, or dies of its handler, leaves its run in no place.
LEMMA DeathsKeepPlaces ==
    ASSUME IInv, PlacesOK,
           \/ \E w \in Workers : WorkerDies(w) \/ Kill(w)
           \/ StopCall \/ StopReturn
    PROVE  PlacesOK'
<1>1. UNCHANGED <<queue, status, executions>>
  BY DEF WorkerDies, Kill, StopCall, StopReturn
<1>2. \A v \in Workers : Executing(v)' => Executing(v) /\ pc'[v] = pc[v] /\ item'[v] = item[v]
  <2>1. ASSUME NEW w \in Workers, WorkerDies(w), NEW v \in Workers, Executing(v)'
        PROVE  Executing(v) /\ pc'[v] = pc[v] /\ item'[v] = item[v]
    BY <2>1 DEF IInv, WorkersOK, WorkerDies, Leave, Executing
  <2>2. ASSUME NEW ws \in SUBSET Workers, KillWorkers(ws), NEW v \in Workers, Executing(v)'
        PROVE  Executing(v) /\ pc'[v] = pc[v] /\ item'[v] = item[v]
    BY <2>2 DEF KillWorkers, Executing
  <2>3. CASE StopReturn
    BY <2>3 DEF StopReturn, workerVars, Executing
  <2>4. ASSUME NEW w \in Workers, Kill(w)
        PROVE  \E ws \in SUBSET Workers : KillWorkers(ws)
    BY <2>4 DEF Kill
  <2>5. StopCall => \E ws \in SUBSET Workers : KillWorkers(ws)
    BY DEF StopCall
  <2>. QED  BY <2>1, <2>2, <2>3, <2>4, <2>5
<1>3. QueueHoldsWaiting'
  BY <1>1, <1>2 DEF PlacesOK, QueueHoldsWaiting, RunOf
<1>4. ExecutingAsStatus'
  BY <1>1, <1>2 DEF PlacesOK, ExecutingAsStatus, RunOf
<1>. QED  BY <1>3, <1>4 DEF PlacesOK

\* What can happen without recovery
LEMMA StepsUnrecovered ==
    ASSUME IInv, Unrecovered, NoRecovery, [Next]_vars
    PROVE  /\ \/ \E r \in Runs : Enqueue(r) \/ Cancel(r) \/ Heartbeat(r)
              \/ Start \/ StopCall \/ StopReturn \/ UNCHANGED vars
              \/ \E w \in Workers : WorkerStep(w) \/ HandlerStep(w) \/ TimesOut(w) \/ Kill(w)
           /\ \A w \in Workers : ~FinishForRecovery(w)
           /\ NoRecovery'
<1>1. ~RecoverCall /\ \A r \in Runs : ~HeartbeatAges(r)
  BY DEF Unrecovered, RecoverCall, Disturb, HeartbeatAges
<1>2. ~RecoverStep /\ \A w \in Workers : ~FinishForRecovery(w)
  BY DEF NoRecovery, RecoverStep, RecoverCancels, RecoverDirectly, RecoverGathered,
         RecoverPuts, RecoverReturns, FinishForRecovery
<1>3. \/ \E r \in Runs : Enqueue(r) \/ Cancel(r) \/ Heartbeat(r)
      \/ Start \/ StopCall \/ StopReturn \/ UNCHANGED vars
      \/ \E w \in Workers : WorkerStep(w) \/ HandlerStep(w) \/ TimesOut(w) \/ Kill(w)
  BY <1>1, <1>2 DEF Next, CallerStep
<1>4. recoveryRequested' = recoveryRequested
  BY <1>2, <1>3
     DEF Enqueue, Cancel, Heartbeat, Start, StopCall, StopReturn, vars, WorkerStep,
         DropCancelled, PutBack, WakeUp, Execute, FinishOk, FinishFailed, FinishCancelled,
         WorkerDies, Retry, PutRetry, HandlerStep, HandlerEnds, TimesOut, Kill
<1>5. rec'.at = rec.at
  <2>1. rec \in [at : {"idle", "scan", "gather", "put"}, todo : SUBSET Runs,
                stale : SUBSET Runs, run : Runs \cup {NoRun}, ready : BOOLEAN]
    BY DEF IInv, RecoveryOK
  <2>2. ASSUME NEW w \in Workers, WorkerStep(w) PROVE rec'.at = rec.at
    BY <1>2, <2>1, <2>2
       DEF WorkerStep, DropCancelled, PutBack, WakeUp, Execute, Fresh, FinishOk,
           FinishFailed, FinishCancelled, Gathered, WorkerDies, Retry, PutRetry
  <2>. QED
    BY <1>3, <2>1, <2>2
       DEF Enqueue, Cancel, Heartbeat, Fresh, Start, StopCall, StopReturn, vars,
           HandlerStep, HandlerEnds, TimesOut, Kill
<1>. QED  BY <1>2, <1>3, <1>4, <1>5 DEF NoRecovery

\* No step executes a run that stays unaccepted.
LEMMA StaysUnexecuted ==
    ASSUME IInv, UnacceptedUnexecuted, Unrecovered, NoRecovery, [Next]_vars
    PROVE  UnacceptedUnexecuted'
<1>1. /\ status \in [Runs -> Active \cup Final \cup {"NONE"}]
      /\ executions \in [Runs -> Nat]
  BY DEF IInv
<1>2. ASSUME NEW w \in Workers, Execute(w) PROVE UnacceptedUnexecuted'
  BY <1>1, <1>2 DEF UnacceptedUnexecuted, Execute
<1>3. ASSUME UNCHANGED executions,
             UNCHANGED status \/ \E r \in Runs : \E s : status' = [status EXCEPT ![r] = s]
                                                        /\ s # "NONE"
      PROVE  UnacceptedUnexecuted'
  <2>1. \A r \in Runs : status'[r] = "NONE" => status[r] = "NONE"
    BY <1>1, <1>3
  <2>. QED  BY <1>3, <2>1 DEF UnacceptedUnexecuted
<1>4. ASSUME NEW r \in Runs, Enqueue(r) \/ Cancel(r) \/ Heartbeat(r)
      PROVE  UnacceptedUnexecuted'
  <2>1. CASE Cancel(r)
    <3>1. /\ status' = [status EXCEPT ![r] = IF @ = "QUEUED" THEN "CANCELLED" ELSE @]
          /\ status[r] # "NONE" /\ UNCHANGED executions
      BY <2>1 DEF Cancel, AfterCancel, Active
    <3>2. \A q \in Runs : status'[q] = "NONE" => status[q] = "NONE"
      BY <1>1, <3>1
    <3>. QED  BY <3>1, <3>2 DEF UnacceptedUnexecuted
  <2>2. CASE Enqueue(r) \/ Heartbeat(r)
    BY <1>3, <2>2 DEF Enqueue, Heartbeat
  <2>. QED  BY <1>4, <2>1, <2>2
<1>5. CASE Start \/ StopCall \/ StopReturn \/ UNCHANGED vars
  BY <1>3, <1>5 DEF Start, StopCall, StopReturn, vars
<1>6. ASSUME NEW w \in Workers, HandlerStep(w) \/ TimesOut(w) \/ Kill(w)
      PROVE  UnacceptedUnexecuted'
  BY <1>3, <1>6 DEF HandlerStep, HandlerEnds, TimesOut, Kill
<1>7. ASSUME NEW w \in Workers, WorkerStep(w), ~Execute(w), ~FinishForRecovery(w)
      PROVE  UnacceptedUnexecuted'
  <2>1. CASE DropCancelled(w) \/ PutBack(w) \/ WakeUp(w) \/ WorkerDies(w) \/ PutRetry(w)
    BY <1>3, <2>1 DEF DropCancelled, PutBack, WakeUp, WorkerDies, PutRetry
  <2>2. CASE FinishOk(w) \/ FinishFailed(w) \/ FinishCancelled(w) \/ Retry(w)
    <3>1. pc[w] = "wait" /\ UNCHANGED executions
      BY <2>2 DEF FinishOk, FinishFailed, FinishCancelled, Retry, Returns
    <3>2. RunOf(w) \in Runs
      BY <3>1 DEF IInv, WorkersOK, ExecutingHoldsLock, Executing, RunOf, Items
    <3>3. \E s \in Final \cup {"RETRYING"} : status' = [status EXCEPT ![RunOf(w)] = s]
      BY <2>2 DEF FinishOk, FinishFailed, FinishCancelled, Retry, SetStatus, Final
    <3>4. "NONE" \notin Final \cup {"RETRYING"}
      BY DEF Final
    <3>. QED  BY <1>3, <3>1, <3>2, <3>3, <3>4
  <2>. QED  BY <1>7, <2>1, <2>2 DEF WorkerStep
<1>. QED  BY <1>2, <1>4, <1>5, <1>6, <1>7, StepsUnrecovered

\* The initial queue is empty.
LEMMA InitPlaces ==
    Init => NothingDisturbed /\ PlacesOK /\ UnacceptedUnexecuted /\ StatusHasPlace
<1>. SUFFICES ASSUME Init
              PROVE  NothingDisturbed /\ PlacesOK /\ UnacceptedUnexecuted /\ StatusHasPlace
  OBVIOUS
<1>1. NothingDisturbed
  BY DEF Init, NothingDisturbed, NoRecovery
<1>2. QueueHoldsWaiting /\ ExecutingAsStatus
  BY DEF Init, QueueHoldsWaiting, ExecutingAsStatus, Executing
<1>3. UnacceptedUnexecuted /\ StatusHasPlace
  BY DEF Init, UnacceptedUnexecuted, StatusHasPlace
<1>. QED  BY <1>1, <1>2, <1>3 DEF PlacesOK

\* Without recovery no run is ever in two places, whatever is killed or stopped.
LEMMA OnceInvariant ==
    ASSUME Unrecovered
    PROVE  Spec => [](IInv /\ NoRecovery /\ UnacceptedUnexecuted /\ PlacesOK)
<1>1. ASSUME IInv, NoRecovery, UnacceptedUnexecuted, PlacesOK, [Next]_vars
      PROVE  NoRecovery' /\ UnacceptedUnexecuted' /\ PlacesOK'
  <2>1. ASSUME NEW w \in Workers, WorkerStep(w), ~FinishForRecovery(w) PROVE PlacesOK'
    BY <1>1, <2>1, CallersKeepPlaces, DropKeepsPlaces, PutBackKeepsPlaces,
       ExecuteKeepsPlaces, FinishKeepsPlaces, RetryKeepsPlaces, DeathsKeepPlaces
       DEF WorkerStep
  <2>2. ASSUME NEW r \in Runs, Enqueue(r) PROVE PlacesOK'
    BY <1>1, <2>2, EnqueueKeepsPlaces
  <2>3. ASSUME \/ \E r \in Runs : Cancel(r) \/ Heartbeat(r)
               \/ Start \/ UNCHANGED vars
               \/ \E w \in Workers : HandlerStep(w) \/ TimesOut(w)
        PROVE  PlacesOK'
    BY <1>1, <2>3, CallersKeepPlaces
  <2>4. ASSUME StopCall \/ StopReturn \/ \E w \in Workers : Kill(w) PROVE PlacesOK'
    BY <1>1, <2>4, DeathsKeepPlaces
  <2>. QED  BY <1>1, <2>1, <2>2, <2>3, <2>4, StepsUnrecovered, StaysUnexecuted
<1>2. IInv /\ NoRecovery /\ UnacceptedUnexecuted /\ PlacesOK /\ [Next]_vars
        => NoRecovery' /\ UnacceptedUnexecuted' /\ PlacesOK'
  BY <1>1
<1>3. Init => NoRecovery /\ UnacceptedUnexecuted /\ PlacesOK
  BY InitPlaces DEF NothingDisturbed
<1>. QED  BY <1>2, <1>3, InductiveInvariant, PTL DEF Spec

\* Undisturbed, the queue keeps every accepted run in its place.
LEMMA PlacesInvariant ==
    ASSUME Undisturbed
    PROVE  Spec => [](IInv /\ PlacesOK /\ StatusHasPlace)
<1>1. ASSUME IInv, UnacceptedUnexecuted, PlacesOK, NothingDisturbed, StatusHasPlace, [Next]_vars
      PROVE  NothingDisturbed' /\ StatusHasPlace'
  <2>1. ASSUME NEW w \in Workers, WorkerStep(w) PROVE StatusHasPlace'
    BY <1>1, <2>1, CallersKeepPlaces, DropKeepsPlaces, PutBackKeepsPlaces,
       ExecuteKeepsPlaces, FinishKeepsPlaces, RetryKeepsPlaces, WorkersSurvive
       DEF WorkerStep
  <2>2. ASSUME NEW r \in Runs, Enqueue(r) PROVE StatusHasPlace'
    BY <1>1, <2>2, EnqueueKeepsPlaces
  <2>3. ASSUME \/ \E r \in Runs : Cancel(r) \/ Heartbeat(r)
               \/ Start \/ UNCHANGED vars
               \/ \E w \in Workers : HandlerStep(w) \/ TimesOut(w)
        PROVE  StatusHasPlace'
    BY <1>1, <2>3, CallersKeepPlaces
  <2>. QED  BY <1>1, <2>1, <2>2, <2>3, OnlyTheseSteps, NothingDisturbs
<1>2. IInv /\ UnacceptedUnexecuted /\ PlacesOK /\ NothingDisturbed /\ StatusHasPlace
        /\ [Next]_vars => NothingDisturbed' /\ StatusHasPlace'
  BY <1>1
<1>3. Spec => [](IInv /\ NoRecovery /\ UnacceptedUnexecuted /\ PlacesOK)
  BY OnceInvariant DEF Undisturbed, Unrecovered
<1>. QED  BY <1>2, <1>3, InitPlaces, PTL DEF Spec

\* Undisturbed, no accepted run is lost or duplicated: a waiting one has exactly
\* one item or one blocked put, a running one exactly one worker, an ended none.
THEOREM OnePlaceEach ==
    ASSUME Undisturbed
    PROVE  Spec => []EveryRunInOnePlace
<1>1. ASSUME IInv, PlacesOK, StatusHasPlace, NEW r \in Runs
      PROVE  LET items == Cardinality({i \in DOMAIN queue : queue[i].run = r})
                 puts == Cardinality({w \in Workers : pc[w] = "put" /\ RunOf(w) = r})
                 runs == Cardinality({w \in Workers : pc[w] = "wait" /\ RunOf(w) = r})
             IN  /\ status[r] \in {"QUEUED", "RETRYING"} => items + puts = 1 /\ runs = 0
                 /\ status[r] = "RUNNING" => items + puts = 0 /\ runs = 1
                 /\ status[r] \in {"SUCCEEDED", "FAILED"} => items + puts + runs = 0
                 /\ status[r] = "CANCELLED" => items <= 1 /\ puts + runs = 0
  <2>. DEFINE I == {i \in DOMAIN queue : queue[i].run = r}
              P == {w \in Workers : pc[w] = "put" /\ RunOf(w) = r}
              R == {w \in Workers : pc[w] = "wait" /\ RunOf(w) = r}
  <2>1. I = {} \/ \E i : I = {i}
    BY <1>1 DEF PlacesOK, QueueHoldsWaiting
  <2>2. \A v, w \in Workers : v \in P \cup R /\ w \in P \cup R => v = w
    BY <1>1, RunInHand DEF Executing
  <2>3. /\ P = {} \/ \E w : P = {w}
        /\ R = {} \/ \E w : R = {w}
        /\ P = {} \/ R = {}
    <3>1. ASSUME NEW w \in P PROVE P = {w}
      BY <2>2, <3>1
    <3>2. ASSUME NEW w \in R PROVE R = {w}
      BY <2>2, <3>2
    <3>3. P = {} \/ R = {}
      <4>. SUFFICES ASSUME NEW v \in P, NEW w \in R PROVE FALSE
        OBVIOUS
      <4>1. v = w
        BY <2>2
      <4>. QED  BY <4>1
    <3>. QED  BY <3>1, <3>2, <3>3
  <2>4. /\ P # {} => status[r] = "RETRYING" /\ I = {}
        /\ R # {} => status[r] = "RUNNING" /\ I = {}
    BY <1>1 DEF PlacesOK, ExecutingAsStatus, QueueHoldsWaiting, Executing
  <2>5. I # {} => status[r] \in {"QUEUED", "RETRYING", "CANCELLED"}
    BY <1>1 DEF PlacesOK, QueueHoldsWaiting
  <2>6. /\ status[r] = "QUEUED" => I # {}
        /\ status[r] = "RETRYING" => I # {} \/ P # {}
        /\ status[r] = "RUNNING" => R # {}
    BY <1>1 DEF PlacesOK, StatusHasPlace, Queued, InHand
  <2>. HIDE DEF I, P, R
  <2>7. /\ Cardinality({}) = 0
        /\ \A x : Cardinality({x}) = 1
    BY FS_EmptySet, FS_Singleton
  <2>8. /\ Cardinality(I) = IF I = {} THEN 0 ELSE 1
        /\ Cardinality(P) = IF P = {} THEN 0 ELSE 1
        /\ Cardinality(R) = IF R = {} THEN 0 ELSE 1
    <3>1. \A S : S = {} \/ (\E x : S = {x}) => Cardinality(S) = IF S = {} THEN 0 ELSE 1
      BY <2>7
    <3>. QED  BY <2>1, <2>3, <3>1
  <2>9. /\ status[r] \in {"QUEUED", "RETRYING"} => Cardinality(I) + Cardinality(P) = 1
                                                   /\ Cardinality(R) = 0
        /\ status[r] = "RUNNING" => Cardinality(I) + Cardinality(P) = 0 /\ Cardinality(R) = 1
        /\ status[r] \in {"SUCCEEDED", "FAILED"}
              => Cardinality(I) + Cardinality(P) + Cardinality(R) = 0
        /\ status[r] = "CANCELLED" => Cardinality(I) <= 1 /\ Cardinality(P) + Cardinality(R) = 0
    BY <2>4, <2>5, <2>6, <2>8
  <2>. QED  BY <2>9 DEF I, P, R
<1>2. IInv /\ PlacesOK /\ StatusHasPlace => EveryRunInOnePlace
  BY <1>1 DEF EveryRunInOnePlace
<1>. QED  BY <1>2, PlacesInvariant, PTL

\* Without recovery, every step of the queue is a step of RunLifecycle or leaves
\* statuses and executions alone.
LEMMA StepImplementsLifecycle ==
    ASSUME Unrecovered, IInv, NoRecovery, PlacesOK, [Next]_vars
    PROVE  [Lifecycle!Next]_<<status, executions>>
<1>. USE DEF Lifecycle!Next, Lifecycle!Become, Lifecycle!Final
<1>1. ASSUME NEW r \in Runs, Enqueue(r) PROVE Lifecycle!Accept(r)
  BY <1>1 DEF Enqueue, NewKey, Lifecycle!Accept
<1>2. ASSUME NEW r \in Runs, Cancel(r)
      PROVE  Lifecycle!Withdraw(r) \/ UNCHANGED <<status, executions>>
  <2>1. CASE status[r] = "QUEUED"
    BY <1>2, <2>1 DEF Cancel, AfterCancel, Lifecycle!Withdraw
  <2>2. CASE status[r] # "QUEUED"
    <3>1. status' = [status EXCEPT ![r] = status[r]]
      BY <1>2, <2>2 DEF Cancel, AfterCancel
    <3>2. status' = status
      BY <3>1 DEF IInv
    <3>. QED  BY <1>2, <3>2 DEF Cancel
  <2>. QED  BY <2>1, <2>2
<1>3. ASSUME NEW w \in Workers, Execute(w) PROVE Lifecycle!Begin(Head1)
  <2>1. /\ queue # <<>> /\ status[Head1] # "CANCELLED"
        /\ status' = [status EXCEPT ![Head1] = "RUNNING"]
        /\ executions' = [executions EXCEPT ![Head1] = @ + 1]
    BY <1>3 DEF Execute, Take, Withdrawn
  <2>2. /\ 1 \in DOMAIN queue /\ queue[1] = Head(queue) /\ Head(queue) \in Items
        /\ Head1 \in Runs
    BY <2>1, TailEntries, HeadIsItem DEF IInv
  <2>3. /\ status[Head1] \in {"QUEUED", "RETRYING"}
        /\ executions[Head1] + 1 = Head(queue).attempt
    BY <2>1, <2>2 DEF PlacesOK, QueueHoldsWaiting, Head1
  <2>4. executions[Head1] < MaxAttempts
    <3>1. Head(queue).attempt \in 1 .. MaxAttempts /\ executions[Head1] \in Nat
      BY <2>2 DEF Items, IInv
    <3>. QED  BY <2>3, <3>1
  <2>. QED  BY <2>1, <2>3, <2>4 DEF Lifecycle!Begin
<1>4. ASSUME NEW w \in Workers, FinishOk(w) \/ FinishFailed(w) \/ FinishCancelled(w)
      PROVE  RunOf(w) \in Runs /\ Lifecycle!End(RunOf(w))
  <2>1. /\ pc[w] = "wait" /\ executions' = executions
        /\ \E s \in Final : status' = [status EXCEPT ![RunOf(w)] = s]
    BY <1>4 DEF FinishOk, FinishFailed, FinishCancelled, Returns, SetStatus
  <2>2. RunOf(w) \in Runs /\ status[RunOf(w)] = "RUNNING"
    BY <2>1, RunInHand DEF PlacesOK, ExecutingAsStatus, Executing
  <2>. QED  BY <2>1, <2>2 DEF Lifecycle!End
<1>5. ASSUME NEW w \in Workers, Retry(w)
      PROVE  RunOf(w) \in Runs /\ Lifecycle!Retry(RunOf(w))
  <2>1. /\ pc[w] = "wait" /\ executions' = executions /\ AttemptsLeft(w)
        /\ status' = [status EXCEPT ![RunOf(w)] = "RETRYING"]
    BY <1>5 DEF Retry, Returns, SetStatus
  <2>2. RunOf(w) \in Runs /\ status[RunOf(w)] = "RUNNING"
    BY <2>1, RunInHand DEF PlacesOK, ExecutingAsStatus, Executing
  <2>3. executions[RunOf(w)] < MaxAttempts
    BY <2>1, RunInHand DEF AttemptsLeft, Executing
  <2>. QED  BY <2>1, <2>2, <2>3 DEF Lifecycle!Retry
<1>6. ASSUME NEW w \in Workers,
             \/ DropCancelled(w) \/ PutBack(w) \/ WakeUp(w) \/ PutRetry(w)
             \/ HandlerStep(w) \/ TimesOut(w) \/ WorkerDies(w) \/ Kill(w)
      PROVE  UNCHANGED <<status, executions>>
  BY <1>6 DEF DropCancelled, PutBack, WakeUp, PutRetry, HandlerStep, HandlerEnds, TimesOut,
              WorkerDies, Kill
<1>7. ASSUME (\E r \in Runs : Heartbeat(r)) \/ Start \/ StopCall \/ StopReturn \/ UNCHANGED vars
      PROVE  UNCHANGED <<status, executions>>
  BY <1>7 DEF Heartbeat, Start, StopCall, StopReturn, vars
<1>8. ASSUME NEW w \in Workers, Execute(w) PROVE Head1 \in Runs
  BY <1>8, HeadIsItem DEF IInv, Execute, Take
<1>. QED
  BY <1>1, <1>2, <1>3, <1>4, <1>5, <1>6, <1>7, <1>8, StepsUnrecovered
     DEF WorkerStep

\* Without recovery the queue implements RunLifecycle, whatever is killed, stopped
\* or restarted: a run waits, executes at most MaxAttempts times, ends once, and is
\* withdrawn only before it executes.
THEOREM RefinesLifecycle ==
    ASSUME Unrecovered
    PROVE  Spec => ImplementsLifecycle
<1>1. Init => Lifecycle!Init
  BY DEF Init, Lifecycle!Init
<1>2. IInv /\ NoRecovery /\ PlacesOK /\ [Next]_vars
        => [Lifecycle!Next]_<<status, executions>>
  BY StepImplementsLifecycle
<1>. QED
  BY <1>1, <1>2, OnceInvariant, PTL DEF Spec, ImplementsLifecycle, Lifecycle!Spec

-----------------------------------------------------------------------------
\* What callers may rely on follows from the abstract specification alone

\* The budget of RunLifecycle is never exceeded: recover_stale_runs, which
\* counts from the attempt that was enqueued, is the only way to break it.
THEOREM AttemptsAreBounded ==
    ASSUME Unrecovered
    PROVE  Spec => [](\A r \in Runs : executions[r] <= MaxAttempts)
<1>. DEFINE Bounded == \A r \in Runs : executions[r] <= MaxAttempts
<1>1. Lifecycle!Init => Bounded
  BY QueueAssumption DEF Lifecycle!Init
<1>2. ASSUME IInv, Bounded, [Lifecycle!Next]_<<status, executions>>
      PROVE  Bounded'
  <2>1. executions \in [Runs -> Nat] /\ MaxAttempts \in Nat
    BY <1>2, QueueAssumption DEF IInv
  <2>2. CASE UNCHANGED executions
    BY <1>2, <2>2
  <2>3. ASSUME NEW r \in Runs, Lifecycle!Begin(r) PROVE Bounded'
    <3>1. /\ executions[r] < MaxAttempts
          /\ executions' = [executions EXCEPT ![r] = @ + 1]
      BY <2>3 DEF Lifecycle!Begin
    <3>2. ASSUME NEW s \in Runs PROVE executions'[s] <= MaxAttempts
      BY <1>2, <2>1, <3>1, <3>2
    <3>. QED  BY <3>2
  <2>4. UNCHANGED executions \/ \E r \in Runs : Lifecycle!Begin(r)
    BY <1>2
       DEF Lifecycle!Next, Lifecycle!Accept, Lifecycle!Withdraw, Lifecycle!End, Lifecycle!Retry
  <2>. QED  BY <2>2, <2>3, <2>4
<1>3. IInv /\ Bounded /\ [Lifecycle!Next]_<<status, executions>> => Bounded'
  BY <1>2
<1>. HIDE DEF Bounded
<1>4. Spec => []Bounded
  BY <1>1, <1>3, RefinesLifecycle, InductiveInvariant, PTL
     DEF ImplementsLifecycle, Lifecycle!Spec
<1>. QED  BY <1>4 DEF Bounded

\* A run that has ended is neither executed again nor given another status.
THEOREM EndsOnce ==
    ASSUME Unrecovered
    PROVE  Spec => [][\A r \in Runs : status[r] \in Final
                        => status'[r] = status[r] /\ executions'[r] = executions[r]]_vars
<1>1. ASSUME IInv, [Lifecycle!Next]_<<status, executions>>, NEW r \in Runs, status[r] \in Final
      PROVE  status'[r] = status[r] /\ executions'[r] = executions[r]
  <2>1. /\ status \in [Runs -> Active \cup Final \cup {"NONE"}]
        /\ executions \in [Runs -> Nat]
    BY <1>1 DEF IInv
  <2>2. CASE UNCHANGED <<status, executions>>
    BY <2>2
  <2>3. ASSUME NEW s \in Runs,
               \/ Lifecycle!Accept(s) \/ Lifecycle!Withdraw(s) \/ Lifecycle!Begin(s)
               \/ Lifecycle!End(s) \/ Lifecycle!Retry(s)
        PROVE  status'[r] = status[r] /\ executions'[r] = executions[r]
    <3>1. /\ status[s] \in {"NONE", "QUEUED", "RUNNING", "RETRYING"}
          /\ \E to : status' = [status EXCEPT ![s] = to]
          /\ executions' \in {executions, [executions EXCEPT ![s] = @ + 1]}
      BY <2>3
         DEF Lifecycle!Accept, Lifecycle!Withdraw, Lifecycle!Begin, Lifecycle!End,
             Lifecycle!Retry, Lifecycle!Become
    <3>2. s # r
      BY <1>1, <3>1 DEF Final
    <3>. QED  BY <2>1, <3>1, <3>2
  <2>. QED  BY <1>1, <2>2, <2>3 DEF Lifecycle!Next
<1>2. IInv /\ [Lifecycle!Next]_<<status, executions>>
        => [\A r \in Runs : status[r] \in Final
              => status'[r] = status[r] /\ executions'[r] = executions[r]]_vars
  BY <1>1
<1>. QED
  BY <1>2, RefinesLifecycle, InductiveInvariant, PTL DEF ImplementsLifecycle, Lifecycle!Spec
=============================================================================
