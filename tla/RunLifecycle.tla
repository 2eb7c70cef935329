---------------------------- MODULE RunLifecycle ----------------------------
(***************************************************************************)
(* What an AgentRun queue promises about each run it accepted, without     *)
(* queue, workers or locks: a run waits, executes at most MaxAttempts      *)
(* times, and ends once (AgentRunStatus of src/core/queue/types.py).       *)
(***************************************************************************)
EXTENDS Naturals

CONSTANTS Runs, MaxAttempts

VARIABLES
    status,         \* "NONE" before the run is enqueued
    executions      \* how often its handler was started

Final == {"SUCCEEDED", "FAILED", "CANCELLED"}

Init ==
    /\ status = [r \in Runs |-> "NONE"]
    /\ executions = [r \in Runs |-> 0]

Become(r, from, to) ==
    /\ status[r] \in from
    /\ status' = [status EXCEPT ![r] = to]

Accept(r) == Become(r, {"NONE"}, "QUEUED") /\ UNCHANGED executions

\* A waiting run may be withdrawn before it ever executes.
Withdraw(r) == Become(r, {"QUEUED"}, "CANCELLED") /\ UNCHANGED executions

Begin(r) ==
    /\ executions[r] < MaxAttempts
    /\ Become(r, {"QUEUED", "RETRYING"}, "RUNNING")
    /\ executions' = [executions EXCEPT ![r] = @ + 1]

End(r) ==
    /\ \E final \in Final : Become(r, {"RUNNING"}, final)
    /\ UNCHANGED executions

Retry(r) ==
    /\ executions[r] < MaxAttempts
    /\ Become(r, {"RUNNING"}, "RETRYING")
    /\ UNCHANGED executions

Next == \E r \in Runs : Accept(r) \/ Withdraw(r) \/ Begin(r) \/ End(r) \/ Retry(r)

Spec == Init /\ [][Next]_<<status, executions>>

=============================================================================
