---------------------------- MODULE AgentRuntime ----------------------------
(***************************************************************************)
(* The bounded loop of one AgentRun (src/core/runtime/runtime.py):         *)
(* observe, plan, decide, act, observe the result, verify, report, under a *)
(* token budget, limits on iterations, tool calls and failures, stagnation *)
(* detection and a deadline, with an audit event around every step.        *)
(***************************************************************************)
EXTENDS ToolCall

CONSTANT LimitsOf   \* RuntimeLimits of each run

ASSUME RuntimeAssumption ==
    LimitsOf \in [AgentRuns -> [iterations : Nat \ {0}, calls : Nat, failures : Nat,
                                tokens : Nat \ {0}, window : Nat \ {0, 1}]]

VARIABLES
    pc,         \* step of each run
    loop,       \* its counters: _RunState and the stagnation detector
    ending,     \* status the report is about, then the status returned
    terminals   \* its terminal audit events

runtimeVars == <<pc, loop, ending, terminals>>

vars == <<workspaceVars, toolVars, runtimeVars>>

Steps == {"observe", "plan", "decide", "act", "verify", "report"}
Ends  == {"returned", "escaped", "cancelled"}

Status == {"COMPLETED", "ESCALATED", "FAILED", "LIMIT_REACHED", "TIMED_OUT", "AUDIT_FAILED", "none"}

Fresh == [iteration |-> 1, calls |-> 0, failures |-> 0, tokens |-> 0, streak |-> 0]

\* run returns or raises; _RunState goes with it
Leave(r, end) ==
    /\ pc' = [pc EXCEPT ![r] = end]
    /\ loop' = [loop EXCEPT ![r] = Fresh]

RuntimeInit(cast) ==
    /\ pc = [r \in AgentRuns |-> IF r \in cast THEN "observe" ELSE "absent"]
    /\ loop = [r \in AgentRuns |-> Fresh]
    /\ ending = [r \in AgentRuns |-> "none"]
    /\ terminals = [r \in AgentRuns |-> 0]

\* SQLAlchemyRuntimeAuditRecorder.record, for a terminal event
Announced(r) == terminals' = [terminals EXCEPT ![r] = @ + 1]

-----------------------------------------------------------------------------
\* _terminal, _terminal_failure, and the end of _finish: the terminal event and
\* the result; without the event the result says AUDIT_FAILED
Terminal(r, status) ==
    /\ Leave(r, "returned")
    /\ \/ /\ ending' = [ending EXCEPT ![r] = status]
          /\ Announced(r)
          /\ UNCHANGED excused
       \/ /\ Fails("audit")
          /\ ending' = [ending EXCEPT ![r] = "AUDIT_FAILED"]
          /\ excused' = excused \cup {r}
          /\ UNCHANGED terminals

Goto(r, step, counters) ==
    /\ pc' = [pc EXCEPT ![r] = step]
    /\ loop' = [loop EXCEPT ![r] = counters]
    /\ UNCHANGED <<ending, terminals, excused>>

\* _token_budget_reached
OutOfTokens(r, counters) == counters.tokens >= LimitsOf[r].tokens

\* _finish, up to the report
Finish(r, status, counters) ==
    IF OutOfTokens(r, counters) THEN Terminal(r, "LIMIT_REACHED")
    ELSE /\ pc' = [pc EXCEPT ![r] = "report"]
         /\ loop' = [loop EXCEPT ![r] = counters]
         /\ ending' = [ending EXCEPT ![r] = status]
         /\ UNCHANGED <<terminals, excused>>

\* The next round of the for loop, if there is one
NextIteration(r, counters) ==
    IF counters.iteration = LimitsOf[r].iterations
    THEN Terminal(r, "LIMIT_REACHED")
    ELSE Goto(r, "observe", [counters EXCEPT !.iteration = @ + 1])

Failed(r) == [loop[r] EXCEPT !.failures = @ + 1]

\* Slip: a failure budget that is used up is noticed one failure late.
FailedTooOften(r, counters) == counters.failures > LimitsOf[r].failures

TooManyFailures(r, counters) == counters.failures >= LimitsOf[r].failures

\* A reasoning step reports tokens, or fails
Spent(r) == {[loop[r] EXCEPT !.tokens = @ + t] : t \in {0, 1}}

RuntimeOnly == UNCHANGED <<workspaceVars, posture, backup, processes, openRows, stopAsked>>

-----------------------------------------------------------------------------
\* OBSERVE and PLAN
Think(r, step, next) ==
    /\ pc[r] = step
    /\ \E counters \in Spent(r) :
          IF OutOfTokens(r, counters) THEN Terminal(r, "LIMIT_REACHED")
          ELSE Goto(r, next, counters)
    /\ UNCHANGED call /\ RuntimeOnly

\* The reasoner fails in one of the three: a failure, and the next iteration
ThinkFails(r) ==
    /\ pc[r] \in {"observe", "plan", "decide"}
    /\ IF TooManyFailures(r, Failed(r)) THEN Finish(r, "FAILED", Failed(r))
       ELSE NextIteration(r, Failed(r))
    /\ UNCHANGED call /\ RuntimeOnly

\* DECIDE, for COMPLETE and ESCALATE
Decide(r, status) ==
    /\ pc[r] = "decide"
    /\ \E counters \in Spent(r) : Finish(r, status, counters)
    /\ UNCHANGED call /\ RuntimeOnly

MayCall(r, counters) == counters.calls < LimitsOf[r].calls

\* DECIDE, for a tool, up to the executor
Act(r, tool) ==
    /\ pc[r] = "decide"
    /\ \E counters \in Spent(r) :
          IF OutOfTokens(r, counters) \/ ~MayCall(r, counters)
          THEN Terminal(r, "LIMIT_REACHED") /\ UNCHANGED call
          ELSE /\ Goto(r, "act", [counters EXCEPT !.calls = @ + 1])
               /\ call' = [call EXCEPT ![r] = [NoCall EXCEPT !.stage = "begin", !.tool = tool]]
    /\ RuntimeOnly

\* The executor returns a result
ActReturns(r) ==
    /\ pc[r] = "act" /\ InStage(r, "replied")
    /\ LET reply == call[r].reply IN
       CASE reply = "succeeded" -> Goto(r, "verify", loop[r])
         [] reply \in {"denied", "approval"} -> Finish(r, "ESCALATED", loop[r])
         [] reply = "failed" ->
              IF TooManyFailures(r, Failed(r)) THEN Finish(r, "FAILED", Failed(r))
              ELSE Goto(r, "verify", Failed(r))
         [] OTHER -> FALSE
    /\ call' = [call EXCEPT ![r] = NoCall]
    /\ RuntimeOnly

\* ... or raises ToolAuditError: FAILED, with its terminal event
ActUnaudited(r) ==
    /\ pc[r] = "act" /\ InStage(r, "replied") /\ call[r].reply = "auditFailed"
    /\ Terminal(r, "AUDIT_FAILED")
    /\ call' = [call EXCEPT ![r] = NoCall]
    /\ RuntimeOnly

\* ... or any other ToolError, which nothing catches: run raises it
ActEscapes(r) ==
    /\ pc[r] = "act" /\ InStage(r, "replied") /\ call[r].reply = "compensation"
    /\ Leave(r, "escaped")
    /\ UNCHANGED <<ending, terminals, excused>>
    /\ call' = [call EXCEPT ![r] = NoCall]
    /\ RuntimeOnly

\* VERIFY, for COMPLETE and ESCALATE
Verified(r, status) ==
    /\ pc[r] = "verify"
    /\ \E counters \in Spent(r) : Finish(r, status, counters)
    /\ UNCHANGED call /\ RuntimeOnly

\* VERIFY, for CONTINUE, with the fingerprint of the last round or another one
VerifyContinues(r, same) ==
    /\ pc[r] = "verify"
    /\ \E spent \in Spent(r) :
          LET counters == [spent EXCEPT !.streak = IF same THEN @ + 1 ELSE 1]
          IN  IF OutOfTokens(r, counters) THEN Terminal(r, "LIMIT_REACHED")
              ELSE IF counters.streak >= LimitsOf[r].window
                   THEN Finish(r, "ESCALATED", counters)
                   ELSE NextIteration(r, counters)
    /\ same => loop[r].streak > 0
    /\ UNCHANGED call /\ RuntimeOnly

VerifyFails(r) ==
    /\ pc[r] = "verify"
    /\ IF TooManyFailures(r, Failed(r)) THEN Finish(r, "FAILED", Failed(r))
       ELSE NextIteration(r, Failed(r))
    /\ UNCHANGED call /\ RuntimeOnly

\* REPORT: its failure makes the run FAILED, whatever the status was
Report(r) ==
    /\ pc[r] = "report"
    /\ \/ Terminal(r, "FAILED")
       \/ \E counters \in Spent(r) :
             Terminal(r, IF OutOfTokens(r, counters) THEN "LIMIT_REACHED" ELSE ending[r])
    /\ UNCHANGED call /\ RuntimeOnly

\* _audit_step cannot write its event: AUDIT_FAILED, and no terminal event
StepUnaudited(r) ==
    /\ Fails("audit")
    /\ pc[r] \in Steps
    /\ pc[r] = "act" => call[r].stage = "replied" /\ call[r].reply \notin {"compensation", "interrupted"}
    /\ Leave(r, "returned")
    /\ ending' = [ending EXCEPT ![r] = "AUDIT_FAILED"]
    /\ excused' = excused \cup {r}
    /\ call' = [call EXCEPT ![r] = NoCall]
    /\ UNCHANGED terminals
    /\ RuntimeOnly

-----------------------------------------------------------------------------
\* record_cancellation (its failure is only logged), then CancelledError
Cancelled(r) ==
    /\ Leave(r, "cancelled")
    /\ \/ Announced(r) /\ UNCHANGED excused
       \/ Fails("audit") /\ excused' = excused \cup {r} /\ UNCHANGED terminals
    /\ UNCHANGED ending

\* TimeoutError: TIMED_OUT, unless its event cannot be written, which escapes
TimedOut(r) ==
    /\ \/ /\ Leave(r, "returned")
          /\ ending' = [ending EXCEPT ![r] = "TIMED_OUT"]
          /\ Announced(r)
          /\ UNCHANGED excused
       \/ /\ Fails("audit")
          /\ Leave(r, "escaped")
          /\ excused' = excused \cup {r}
          /\ UNCHANGED <<ending, terminals>>

\* The deadline or a cancellation reaches a run that awaits its reasoner
Interrupted(r, cause) ==
    /\ pc[r] \in Steps \ {"act"}
    /\ AskedToStop(r, cause)
    /\ IF cause = "cancel" THEN Cancelled(r) ELSE TimedOut(r)
    /\ UNCHANGED <<workspaceVars, posture, call, backup, processes, openRows>>

\* ... or a run whose tool call it went through first
ActInterrupted(r) ==
    /\ pc[r] = "act" /\ InStage(r, "replied") /\ call[r].reply = "interrupted"
    /\ IF call[r].cause = "cancel" THEN Cancelled(r) ELSE TimedOut(r)
    /\ call' = [call EXCEPT ![r] = NoCall]
    /\ UNCHANGED <<workspaceVars, posture, backup, processes, openRows, stopAsked>>

LoopStep(r) ==
    \/ Think(r, "observe", "plan") \/ Think(r, "plan", "decide") \/ ThinkFails(r)
    \/ \E status \in {"COMPLETED", "ESCALATED"} : Decide(r, status) \/ Verified(r, status)
    \/ \E tool \in Tools : Act(r, tool)
    \/ ActReturns(r) \/ ActUnaudited(r) \/ ActEscapes(r) \/ ActInterrupted(r)
    \/ \E same \in BOOLEAN : VerifyContinues(r, same)
    \/ VerifyFails(r) \/ Report(r)

RuntimeTypeOK ==
    /\ pc \in [AgentRuns -> Steps \cup Ends \cup {"absent", "dead"}]
    /\ loop \in [AgentRuns -> [iteration : Nat, calls : Nat, failures : Nat,
                               tokens : Nat, streak : Nat]]
    /\ ending \in [AgentRuns -> Status]
    /\ terminals \in [AgentRuns -> Nat]

=============================================================================
