------------------------- MODULE ToolRuntime_proofs -------------------------
(***************************************************************************)
(* Proofs about ToolRuntime, for every set of runs and managers, every     *)
(* policy, every limit and every combination of faults: its types, what    *)
(* the project lock protects, the accounting of runs and calls, what a     *)
(* cancellation leaves, the limits of the loop, and the refinement of      *)
(* ExclusiveWriter.                                                        *)
(***************************************************************************)
EXTENDS ToolRuntime, FiniteSetTheorems, TLAPS

\* A call exists exactly while its run is inside the executor.
CallsAreActs ==
    \A r \in AgentRuns : IF pc[r] = "act" THEN ~InStage(r, "none") ELSE call[r] = NoCall

\* Stages of a call between its RUNNING row and the row that closes it
Underway == {"run", "process", "stopping", "pending"}

\* An open row per authorized call, a terminal event per run that ended, and no
\* failure to write one that the run was not excused for.
RowsMatchCalls ==
    \A r \in AgentRuns : r \notin excused /\ pc[r] # "dead" =>
        /\ openRows[r] = IF call[r].stage \in Underway THEN 1 ELSE 0
        /\ terminals[r] = IF Ended(r) THEN 1 ELSE 0
        /\ InStage(r, "replied") => call[r].reply \notin {"compensation", "auditFailed"}

\* A run is excused only for the failure it ends with.
ExcusedAreOver ==
    \A r \in excused :
        \/ pc[r] \notin Steps
        \/ InStage(r, "replied") /\ call[r].reply \in {"compensation", "auditFailed"}

\* A run whose task was cancelled, and that has not left yet, is on its way.
StopIsUnderWay ==
    \A r \in stopAsked \ excused :
        \/ pc[r] \in {"cancelled", "dead"}
        \/ /\ pc[r] = "act" /\ call[r].cause = "cancel"
           /\ InStage(r, "stopping") \/ (InStage(r, "replied") /\ call[r].reply = "interrupted")

Counters == [iteration : Nat, calls : Nat, failures : Nat, tokens : Nat, streak : Nat]

\* What WithinLimits says of the counters of one step
Within(r, counters) ==
    /\ counters.tokens < LimitsOf[r].tokens
    /\ counters.failures < LimitsOf[r].failures \/ counters.failures = 0
    /\ counters.calls <= LimitsOf[r].calls
    /\ counters.streak < LimitsOf[r].window

\* One step of the loop of r: nobody else's loop moves, whoever ends announces
\* it or is excused, and whoever goes on is within the limits.
Moved(r) ==
    /\ pc' = [pc EXCEPT ![r] = pc'[r]] /\ pc'[r] \in Steps \cup Ends
    /\ loop' = [loop EXCEPT ![r] = loop'[r]] /\ loop'[r] \in Counters
    /\ ending' = [ending EXCEPT ![r] = ending'[r]] /\ ending'[r] \in Status
    /\ terminals' = [terminals EXCEPT ![r] = terminals'[r]] /\ terminals'[r] \in Nat
    /\ excused' = excused \/ (excused' = excused \cup {r} /\ pc'[r] \in Ends)
    /\ r \notin excused' => terminals'[r] = terminals[r] + IF pc'[r] \in Ends THEN 1 ELSE 0
    /\ pc'[r] \in Steps \ {"report"} => Within(r, loop'[r])

\* A call of r that starts or is over
Recalled(r) ==
    \/ pc'[r] # "act" /\ call' = [call EXCEPT ![r] = NoCall]
    \/ /\ pc'[r] = "act"
       /\ \E tool \in Tools :
             call' = [call EXCEPT ![r] = [NoCall EXCEPT !.stage = "begin", !.tool = tool]]

\* What a step of the loop, a deadline or a cancellation does to a run that is
\* not inside a tool.
LoopMove(r) ==
    /\ UNCHANGED <<workspaceVars, posture, backup, processes, openRows>>
    /\ pc[r] \in Steps /\ (pc[r] = "act" => InStage(r, "replied"))
    /\ Moved(r)
    /\ Recalled(r)
    /\ stopAsked' \in {stopAsked, stopAsked \cup {r}}
    /\ r \in excused' => pc'[r] \notin Steps
    /\ r \in stopAsked' \ (stopAsked \cup excused') => pc'[r] = "cancelled"
    /\ /\ pc[r] = "act" /\ call[r].reply = "interrupted" /\ call[r].cause = "cancel"
       /\ r \notin excused'
       => pc'[r] = "cancelled"

\* What a step of the executor or of a tool, a deadline or a cancellation does
\* to a run that is inside a call.
CallMove(r) ==
    /\ UNCHANGED <<runtimeVars, posture>>
    /\ ~InStage(r, "none") /\ (InStage(r, "begin") => Admit(r) \/ CallUnaudited(r))
    /\ call' = [call EXCEPT ![r] = call'[r]] /\ ~InStage(r, "none")'
    /\ call'[r] \in [stage : Stages, tool : Tools, cause : Causes, reply : Replies]
    /\ openRows' = [openRows EXCEPT ![r] = openRows'[r]] /\ openRows'[r] \in Nat
    /\ \/ /\ excused' = excused
          /\ openRows'[r] + (IF call[r].stage \in Underway THEN 1 ELSE 0)
                = openRows[r] + (IF call'[r].stage \in Underway THEN 1 ELSE 0)
          /\ InStage(r, "replied")' => call'[r].reply \notin {"compensation", "auditFailed"}
          /\ \/ stopAsked' = stopAsked
             \/ stopAsked' = stopAsked \cup {r} /\ call'[r].cause = "cancel"
          /\ InStage(r, "stopping") \/ r \in stopAsked' \ stopAsked =>
                 /\ call[r].cause = "cancel" => call'[r].cause = "cancel"
                 /\ call'[r].cause = "cancel" =>
                       InStage(r, "stopping")' \/ (InStage(r, "replied")' /\ call'[r].reply = "interrupted")
       \/ /\ excused' = excused \cup {r}
          /\ InStage(r, "replied")' /\ call'[r].reply \in {"compensation", "auditFailed"}
          /\ stopAsked' \in {stopAsked, stopAsked \cup {r}}

Commanding(r) == call[r].stage \in {"process", "stopping"}

\* r is at a point of a tool where it has the project lock.
AtTool(r) ==
    \/ Commanding(r)
    \/ call[r].stage \in {"pending", "audited"} /\ HasTransaction(r)

Working == {"create", "import", "trash", "remove"}

\* Who holds the lock is known from where the runs and the managers are.
HoldersAreAtWork ==
    /\ \A a, b \in holds : a = b
    /\ holds # {} => locked
    /\ \A r \in AgentRuns : r \in holds <=> AtTool(r)
    /\ \A m \in Managers : m \in holds <=> mgr[m] \in Working

\* A lock that its holder's process took to the grave: nobody can acquire it,
\* and nobody has it to release it.
LockIsOrphaned == locked /\ holds = {}

\* What is in flight belongs to the holder of the lock, or to a dead run behind
\* a lock that nobody can take; at most one mutation is in flight.
EffectsAreOwned ==
    /\ \A r \in AgentRuns : HasTransaction(r) =>
          call[r].stage \in {"pending", "audited"} \/ (pc[r] = "dead" /\ LockIsOrphaned)
    /\ \A r, s \in AgentRuns : HasTransaction(r) /\ HasTransaction(s) => r = s
    /\ \A r \in processes :
          "file" \in broken \/ Commanding(r) \/ (pc[r] = "dead" /\ LockIsOrphaned)

\* The recorded root is there, up to the step of a cleanup that comes next.
RootIsRecorded ==
    /\ \/ "record" \in broken \/ disk.root = recorded \/ LockIsOrphaned
       \/ \E m \in Managers : At(m, "remove")
    /\ \A m \in Managers : At(m, "remove") => ~disk.root

\* What a step inside a call does to the lock and to what the lock protects:
\* nothing, take it and begin, or end and give it back.
Keeps(r) ==
    /\ UNCHANGED <<locked, holds, disk, broken, backup, processes>>
    /\ AtTool(r)' = AtTool(r) /\ Commanding(r)' = Commanding(r)

Takes(r) ==
    /\ AcquireLock(r) /\ AtTool(r)' /\ ~AtTool(r)
    /\ disk' \in [root : BOOLEAN, file : Content, repo : Repository] /\ disk'.root = disk.root
    /\ UNCHANGED broken
    /\ \/ backup' = [backup EXCEPT ![r] = disk.file] /\ UNCHANGED processes /\ ~Commanding(r)'
       \/ UNCHANGED backup /\ processes' = processes \cup {r} /\ Commanding(r)'

Gives(r) ==
    /\ ReleaseLock(r) /\ AtTool(r) /\ ~AtTool(r)' /\ ~Commanding(r)'
    /\ backup' = [backup EXCEPT ![r] = NoBackup]
    /\ broken' \in {broken, broken \cup {"file"}}
    /\ processes' \in {processes, processes \ {r}}
    /\ Commanding(r) /\ r \in processes' => "file" \in broken'
    /\ \/ disk' = disk /\ (HasTransaction(r) => InStage(r, "audited") \/ "file" \in broken')
       \/ /\ HasTransaction(r) /\ InStage(r, "pending")
          /\ disk' = [disk EXCEPT !.file = backup[r]]

ToolMove(r) ==
    /\ Keeps(r) \/ Takes(r) \/ Gives(r)
    /\ UNCHANGED <<mgr, recorded, staging, trash>>
    /\ areas' \subseteq areas \cup {r}

USE WorkspaceAssumption, ToolAssumption, RuntimeAssumption, CastAssumption

-----------------------------------------------------------------------------
\* The loop of a run

\* A terminal event ends the run.
LEMMA TerminalMoves ==
    ASSUME RuntimeTypeOK, NEW r \in AgentRuns, NEW status \in Status, Terminal(r, status)
    PROVE  Moved(r) /\ pc'[r] \in Ends
BY DEF RuntimeTypeOK, Terminal, Leave, Announced, Moved, Counters, Fresh, Status, Steps, Ends

\* The next step of the same iteration
LEMMA GotoMoves ==
    ASSUME RuntimeTypeOK, NEW r \in AgentRuns, NEW step \in Steps, NEW c \in Counters,
           step # "report" => Within(r, c), Goto(r, step, c)
    PROVE  Moved(r) /\ pc'[r] = step
BY DEF RuntimeTypeOK, Goto, Moved, Counters, Steps, Ends, Within

\* The report, or the end of a run without tokens for it
LEMMA FinishMoves ==
    ASSUME RuntimeTypeOK, NEW r \in AgentRuns, NEW status \in Status, NEW c \in Counters,
           Finish(r, status, c)
    PROVE  Moved(r) /\ pc'[r] # "act"
<1>1. CASE OutOfTokens(r, c)
  <2>1. Terminal(r, "LIMIT_REACHED")
    BY <1>1 DEF Finish
  <2>. QED BY <2>1, TerminalMoves DEF Status, Ends
<1>2. CASE ~OutOfTokens(r, c)
  BY <1>2 DEF RuntimeTypeOK, Finish, Moved, Counters, Steps, Ends
<1>. QED BY <1>1, <1>2

\* The next iteration, or the end of a run without one
LEMMA NextMoves ==
    ASSUME RuntimeTypeOK, NEW r \in AgentRuns, NEW c \in Counters, Within(r, c),
           NextIteration(r, c)
    PROVE  Moved(r) /\ pc'[r] # "act"
<1>1. CASE c.iteration = LimitsOf[r].iterations
  <2>1. Terminal(r, "LIMIT_REACHED")
    BY <1>1 DEF NextIteration
  <2>. QED BY <2>1, TerminalMoves DEF Status, Ends
<1>2. CASE c.iteration # LimitsOf[r].iterations
  <2>. DEFINE d == [c EXCEPT !.iteration = @ + 1]
  <2>1. d \in Counters /\ Within(r, d)
    BY DEF Counters, Within
  <2>2. Goto(r, "observe", d)
    BY <1>2 DEF NextIteration
  <2>3. "observe" \in Steps
    BY DEF Steps
  <2>. HIDE DEF d
  <2>. QED BY <2>1, <2>2, <2>3, GotoMoves
<1>. QED BY <1>1, <1>2

\* What a reasoning step leaves of the counters is within the limits that are
\* checked before the run goes on.
LEMMA SpentIsCounted ==
    ASSUME RuntimeTypeOK, NEW r \in AgentRuns
    PROVE  /\ Spent(r) \subseteq Counters
           /\ Failed(r) \in Counters
           /\ pc[r] \in Steps \ {"report"} /\ WithinLimits
              => /\ \A c \in Spent(r) : ~OutOfTokens(r, c) => Within(r, c)
                 /\ ~TooManyFailures(r, Failed(r)) => Within(r, Failed(r))
<1>. USE DEF RuntimeTypeOK, Counters
<1>1. loop[r] \in Counters /\ LimitsOf[r].tokens \in Nat /\ LimitsOf[r].failures \in Nat
  OBVIOUS
<1>2. Spent(r) \subseteq Counters /\ Failed(r) \in Counters
  <2>. HIDE DEF RuntimeTypeOK
  <2>1. ASSUME NEW c \in Spent(r) PROVE c \in Counters
    <3>1. PICK t \in {0, 1} : c = [loop[r] EXCEPT !.tokens = @ + t]
      BY <2>1 DEF Spent
    <3>2. \A k \in Counters : [k EXCEPT !.tokens = @ + t] \in Counters
      OBVIOUS
    <3>. HIDE DEF Counters
    <3>. QED BY <1>1, <3>1, <3>2
  <2>2. Failed(r) \in Counters
    <3>1. \A k \in Counters : [k EXCEPT !.failures = @ + 1] \in Counters
      OBVIOUS
    <3>. HIDE DEF Counters
    <3>. QED BY <1>1, <3>1 DEF Failed
  <2>. QED BY <2>1, <2>2
<1>3. ASSUME pc[r] \in Steps \ {"report"}, WithinLimits
      PROVE  /\ \A c \in Spent(r) : ~OutOfTokens(r, c) => Within(r, c)
             /\ ~TooManyFailures(r, Failed(r)) => Within(r, Failed(r))
  <2>1. Within(r, loop[r])
    BY <1>3 DEF WithinLimits, Within
  <2>2. ASSUME NEW c \in Spent(r), ~OutOfTokens(r, c)
        PROVE  Within(r, c)
    <3>1. PICK t \in {0, 1} : c = [loop[r] EXCEPT !.tokens = @ + t]
      BY DEF Spent
    <3>2. /\ c.tokens \in Nat /\ c.tokens < LimitsOf[r].tokens
          /\ c.calls = loop[r].calls /\ c.failures = loop[r].failures /\ c.streak = loop[r].streak
      BY <1>1, <2>2, <3>1 DEF OutOfTokens
    <3>. QED BY <2>1, <3>2 DEF Within
  <2>3. ~TooManyFailures(r, Failed(r)) => Within(r, Failed(r))
    BY <1>1, <2>1 DEF Failed, TooManyFailures, Within
  <2>. QED BY <2>2, <2>3
<1>. QED BY <1>2, <1>3

\* A cancellation or the deadline ends the run.
LEMMA LeavingMoves ==
    ASSUME RuntimeTypeOK, NEW r \in AgentRuns
    PROVE  /\ Cancelled(r) => Moved(r) /\ pc'[r] = "cancelled"
           /\ TimedOut(r) => Moved(r) /\ pc'[r] \in Ends \ {"act"}
BY DEF RuntimeTypeOK, Cancelled, TimedOut, Leave, Announced, Moved, Counters, Fresh, Status, Steps, Ends

\* Every step of the loop is a LoopMove.
LEMMA LoopSteps ==
    ASSUME TypeOK, CallsAreActs, RowsMatchCalls, ExcusedAreOver, StopIsUnderWay, WithinLimits,
           NEW r \in AgentRuns,
           \/ LoopStep(r) \/ StepUnaudited(r)
           \/ \E cause \in {"timeout", "cancel"} : Interrupted(r, cause)
    PROVE  LoopMove(r)
<1>. USE SpentIsCounted DEF TypeOK
<1>. DEFINE Idle == /\ UNCHANGED call
                    /\ pc[r] \in Steps \ {"act"}
<1>0. pc[r] \in Steps \ {"act"} => call[r] = NoCall /\ r \notin excused
  BY DEF CallsAreActs, ExcusedAreOver, InStage, NoCall
<1>1. ASSUME Idle, Moved(r), pc'[r] # "act", RuntimeOnly
      PROVE  LoopMove(r)
  <2>1. r \in excused' => pc'[r] \notin Steps
    BY <1>0, <1>1 DEF Moved, Steps, Ends
  <2>. QED BY <1>0, <1>1, <2>1 DEF LoopMove, Recalled, RuntimeOnly, ToolTypeOK
<1>2. ASSUME NEW step \in {"observe", "plan", "decide"}, NEW next \in {"plan", "decide"},
             Think(r, step, next)
      PROVE  LoopMove(r)
  <2>1. Idle /\ RuntimeOnly /\ pc[r] \in Steps \ {"report"}
    BY <1>2 DEF Think, Steps
  <2>2. PICK c \in Spent(r) : IF OutOfTokens(r, c) THEN Terminal(r, "LIMIT_REACHED") ELSE Goto(r, next, c)
    BY <1>2 DEF Think
  <2>3. Moved(r) /\ pc'[r] # "act"
    BY <2>1, <2>2, TerminalMoves, GotoMoves DEF Status, Steps, Ends
  <2>. QED BY <1>1, <2>1, <2>3
<1>3. ASSUME ThinkFails(r) \/ VerifyFails(r)
      PROVE  LoopMove(r)
  <2>1. Idle /\ RuntimeOnly /\ pc[r] \in Steps \ {"report"}
    BY <1>3 DEF ThinkFails, VerifyFails, Steps
  <2>2. IF TooManyFailures(r, Failed(r)) THEN Finish(r, "FAILED", Failed(r)) ELSE NextIteration(r, Failed(r))
    BY <1>3 DEF ThinkFails, VerifyFails
  <2>3. Moved(r) /\ pc'[r] # "act"
    BY <2>1, <2>2, FinishMoves, NextMoves DEF Status
  <2>. QED BY <1>1, <2>1, <2>3
<1>4. ASSUME NEW status \in {"COMPLETED", "ESCALATED"}, Decide(r, status) \/ Verified(r, status)
      PROVE  LoopMove(r)
  <2>1. Idle /\ RuntimeOnly
    BY <1>4 DEF Decide, Verified, Steps
  <2>2. PICK c \in Spent(r) : Finish(r, status, c)
    BY <1>4 DEF Decide, Verified
  <2>3. Moved(r) /\ pc'[r] # "act"
    BY <2>2, FinishMoves DEF Status
  <2>. QED BY <1>1, <2>1, <2>3
<1>5. ASSUME NEW tool \in Tools, Act(r, tool)
      PROVE  LoopMove(r)
  <2>1. RuntimeOnly /\ pc[r] = "decide"
    BY <1>5 DEF Act
  <2>2. PICK c \in Spent(r) :
           IF OutOfTokens(r, c) \/ ~MayCall(r, c)
           THEN Terminal(r, "LIMIT_REACHED") /\ UNCHANGED call
           ELSE /\ Goto(r, "act", [c EXCEPT !.calls = @ + 1])
                /\ call' = [call EXCEPT ![r] = [NoCall EXCEPT !.stage = "begin", !.tool = tool]]
    BY <1>5 DEF Act
  <2>3. CASE OutOfTokens(r, c) \/ ~MayCall(r, c)
    BY <1>1, <2>1, <2>2, <2>3, TerminalMoves DEF Status, Steps, Ends
  <2>4. CASE ~OutOfTokens(r, c) /\ MayCall(r, c)
    <3>. DEFINE d == [c EXCEPT !.calls = @ + 1]
    <3>1. d \in Counters /\ Within(r, d)
      BY <2>1, <2>4 DEF Counters, Within, MayCall, Steps
    <3>2. Goto(r, "act", d) /\ "act" \in Steps
      BY <2>2, <2>4 DEF Steps
    <3>. HIDE DEF d
    <3>3. Moved(r) /\ pc'[r] = "act"
      BY <3>1, <3>2, GotoMoves
    <3>4. Recalled(r)
      BY <2>2, <2>4, <3>3 DEF Recalled
    <3>5. r \notin excused'
      BY <1>0, <2>1, <3>2 DEF Goto, Steps
    <3>. QED BY <2>1, <3>3, <3>4, <3>5 DEF LoopMove, RuntimeOnly, Steps
  <2>. QED BY <2>3, <2>4
<1>6. ASSUME NEW same \in BOOLEAN, VerifyContinues(r, same)
      PROVE  LoopMove(r)
  <2>1. Idle /\ RuntimeOnly /\ pc[r] \in Steps \ {"report"}
    BY <1>6 DEF VerifyContinues, Steps
  <2>2. PICK spent \in Spent(r) :
           LET c == [spent EXCEPT !.streak = IF same THEN @ + 1 ELSE 1]
           IN  IF OutOfTokens(r, c) THEN Terminal(r, "LIMIT_REACHED")
               ELSE IF c.streak >= LimitsOf[r].window THEN Finish(r, "ESCALATED", c)
               ELSE NextIteration(r, c)
    BY <1>6 DEF VerifyContinues
  <2>. DEFINE c == [spent EXCEPT !.streak = IF same THEN @ + 1 ELSE 1]
  <2>3. c \in Counters
    BY DEF Counters
  <2>4. ~OutOfTokens(r, c) /\ ~(c.streak >= LimitsOf[r].window) => Within(r, c)
    BY <2>1 DEF Counters, Within, OutOfTokens
  <2>5. IF OutOfTokens(r, c) THEN Terminal(r, "LIMIT_REACHED")
        ELSE IF c.streak >= LimitsOf[r].window THEN Finish(r, "ESCALATED", c)
        ELSE NextIteration(r, c)
    BY <2>2
  <2>. HIDE DEF c
  <2>6. Moved(r) /\ pc'[r] # "act"
    BY <2>3, <2>4, <2>5, TerminalMoves, FinishMoves, NextMoves DEF Status, Ends
  <2>. QED BY <1>1, <2>1, <2>6
<1>7. ASSUME Report(r)
      PROVE  LoopMove(r)
  <2>1. Idle /\ RuntimeOnly
    BY <1>7 DEF Report, Steps
  <2>2. \E status \in Status : Terminal(r, status)
    BY <1>7 DEF Report, RuntimeTypeOK, Status
  <2>. QED BY <1>1, <2>1, <2>2, TerminalMoves DEF Ends
<1>. DEFINE Leaving == /\ pc[r] = "act" /\ InStage(r, "replied")
                       /\ call' = [call EXCEPT ![r] = NoCall]
<1>8. ASSUME Leaving, RuntimeOnly, Moved(r), pc'[r] # "act", call[r].reply # "interrupted",
             call[r].reply \in {"compensation", "auditFailed"} => pc'[r] \in Ends
      PROVE  LoopMove(r)
  <2>1. r \in excused' => pc'[r] \notin Steps
    BY <1>8 DEF Moved, ExcusedAreOver, Steps, Ends
  <2>. QED BY <1>8, <2>1 DEF LoopMove, Recalled, RuntimeOnly, Steps
<1>9. ASSUME ActReturns(r)
      PROVE  LoopMove(r)
  <2>1. Leaving /\ RuntimeOnly
    BY <1>9 DEF ActReturns
  <2>2. /\ loop[r] \in Counters
        /\ Within(r, loop[r])
        /\ ~TooManyFailures(r, Failed(r)) => Within(r, Failed(r))
    BY <2>1 DEF RuntimeTypeOK, Counters, WithinLimits, Within, Steps
  <2>3. /\ call[r].reply \notin {"interrupted", "compensation", "auditFailed"}
        /\ \/ Goto(r, "verify", loop[r])
           \/ Finish(r, "ESCALATED", loop[r])
           \/ IF TooManyFailures(r, Failed(r)) THEN Finish(r, "FAILED", Failed(r))
              ELSE Goto(r, "verify", Failed(r))
    BY <1>9 DEF ActReturns
  <2>4. Moved(r) /\ pc'[r] # "act"
    BY <2>2, <2>3, FinishMoves, GotoMoves DEF Status, Steps
  <2>. QED BY <1>8, <2>1, <2>3, <2>4
<1>10. ASSUME ActUnaudited(r)
       PROVE  LoopMove(r)
  <2>1. Leaving /\ RuntimeOnly /\ Terminal(r, "AUDIT_FAILED") /\ call[r].reply # "interrupted"
    BY <1>10 DEF ActUnaudited
  <2>. QED BY <1>8, <2>1, TerminalMoves DEF Status, Ends
<1>11. ASSUME ActEscapes(r)
       PROVE  LoopMove(r)
  <2>1. Leaving /\ RuntimeOnly /\ call[r].reply # "interrupted" /\ r \in excused
    BY <1>11 DEF ActEscapes, RowsMatchCalls
  <2>2. Moved(r) /\ pc'[r] \in Ends /\ pc'[r] # "act"
    BY <1>11, <2>1 DEF ActEscapes, RuntimeTypeOK, Leave, Moved, Counters, Fresh, Steps, Ends
  <2>. QED BY <1>8, <2>1, <2>2
<1>12. ASSUME ActInterrupted(r)
       PROVE  LoopMove(r)
  <2>1. /\ Leaving
        /\ UNCHANGED <<workspaceVars, posture, backup, processes, openRows, stopAsked>>
        /\ IF call[r].cause = "cancel" THEN Cancelled(r) ELSE TimedOut(r)
    BY <1>12 DEF ActInterrupted
  <2>. QED BY <2>1, LeavingMoves DEF LoopMove, Recalled, Steps, Ends
<1>13. ASSUME StepUnaudited(r)
       PROVE  LoopMove(r)
  <2>1. /\ RuntimeOnly /\ pc[r] \in Steps /\ (pc[r] = "act" => InStage(r, "replied"))
        /\ call' = [call EXCEPT ![r] = NoCall] /\ r \in excused' /\ pc'[r] = "returned"
    BY <1>13 DEF StepUnaudited, InStage, RuntimeTypeOK, Leave
  <2>2. Moved(r)
    BY <1>13, <2>1 DEF StepUnaudited, RuntimeTypeOK, Leave, Moved, Counters, Fresh, Status, Steps, Ends
  <2>. QED BY <2>1, <2>2 DEF LoopMove, Recalled, RuntimeOnly, Steps
<1>14. ASSUME NEW cause \in {"timeout", "cancel"}, Interrupted(r, cause)
       PROVE  LoopMove(r)
  <2>1. /\ Idle
        /\ UNCHANGED <<workspaceVars, posture, backup, processes, openRows>>
        /\ IF cause = "cancel" THEN Cancelled(r) ELSE TimedOut(r)
        /\ stopAsked' = IF cause = "cancel" THEN stopAsked \cup {r} ELSE stopAsked
    BY <1>14 DEF Interrupted, AskedToStop
  <2>2. call' = [call EXCEPT ![r] = NoCall]
    BY <2>1 DEF CallsAreActs, ToolTypeOK
  <2>. QED BY <2>1, <2>2, LeavingMoves DEF LoopMove, Recalled, Steps, Ends
<1>. QED
  BY <1>2, <1>3, <1>4, <1>5, <1>6, <1>7, <1>9, <1>10, <1>11, <1>12, <1>13, <1>14 DEF LoopStep

-----------------------------------------------------------------------------
\* A call

\* What the executor does with the policy's answer
LEMMA AdmitAnswers ==
    ASSUME NEW r \in AgentRuns, Admit(r)
    PROVE  Authorized(r) \/ \E reply \in {"failed", "approval", "denied"} : Refused(r, reply)
<1>1. CASE call[r].tool \notin ToolsOf[r]
  BY <1>1 DEF Admit
<1>2. CASE call[r].tool \in ToolsOf[r]
  <2>1. PICK answer \in Evaluate(RequestOf(r), DecisionFor(r)) :
           CASE answer = "ALLOW" -> Authorized(r) \/ Refused(r, "failed")
             [] answer = "ASK"   -> Refused(r, "approval")
             [] answer = "DENY"  -> Refused(r, "denied")
             [] OTHER            -> Fails("audit") /\ Refused(r, "failed")
    BY <1>2 DEF Admit
  <2>. QED BY <2>1
<1>. QED BY <1>1, <1>2

\* Every step inside a call is a CallMove.
LEMMA CallSteps ==
    ASSUME TypeOK, CallsAreActs, RowsMatchCalls, ExcusedAreOver, NEW r \in AgentRuns,
           \/ CallStep(r) \/ CallUnaudited(r)
           \/ \E cause \in {"profile", "tool", "timeout", "cancel"} : CommandInterrupted(r, cause)
           \/ \E cause \in {"timeout", "cancel"} : InterruptPending(r, cause),
           UNCHANGED runtimeVars,
           pc[r] = "act", ~InStage(r, "replied")
    PROVE  CallMove(r)
<1>. USE DEF TypeOK, ToolTypeOK
<1>0. /\ call[r] \in [stage : Stages, tool : Tools, cause : Causes, reply : Replies]
      /\ r \notin excused
      /\ openRows[r] = IF call[r].stage \in Underway THEN 1 ELSE 0
      /\ ~InStage(r, "none")
  BY DEF RowsMatchCalls, ExcusedAreOver, CallsAreActs, Steps
<1>a. ASSUME NEW reply \in Replies, Reply(r, reply)
      PROVE  /\ call' = [call EXCEPT ![r] = call'[r]]
             /\ call'[r] \in [stage : Stages, tool : Tools, cause : Causes, reply : Replies]
             /\ call'[r].stage = "replied" /\ call'[r].reply = reply /\ call'[r].cause = call[r].cause
  BY <1>0, <1>a DEF Reply, Stages
<1>b. ASSUME NEW stage \in Stages \ {"none"}, Stage(r, stage)
      PROVE  /\ call' = [call EXCEPT ![r] = call'[r]]
             /\ call'[r] \in [stage : Stages, tool : Tools, cause : Causes, reply : Replies]
             /\ call'[r].stage = stage /\ call'[r].cause = call[r].cause
  BY <1>0, <1>b DEF Stage
<1>1. ASSUME Admit(r)
      PROVE  CallMove(r)
  <2>1. Authorized(r) \/ \E reply \in {"failed", "approval", "denied"} : Refused(r, reply)
    BY <1>1, AdmitAnswers
  <2>2. CASE Authorized(r)
    <3>1. /\ Stage(r, "run") /\ InStage(r, "begin")
          /\ openRows' = [openRows EXCEPT ![r] = @ + 1]
          /\ UNCHANGED <<posture, excused, stopAsked>>
      BY <2>2 DEF Authorized
    <3>2. /\ call' = [call EXCEPT ![r] = call'[r]]
          /\ call'[r] \in [stage : Stages, tool : Tools, cause : Causes, reply : Replies]
          /\ call'[r].stage = "run" /\ call'[r].cause = call[r].cause
      BY <1>b, <3>1 DEF Stages
    <3>. QED BY <1>0, <1>1, <3>1, <3>2 DEF CallMove, InStage, Underway
  <2>3. ASSUME NEW reply \in {"failed", "approval", "denied"}, Refused(r, reply)
        PROVE  CallMove(r)
    <3>1. Reply(r, reply) \/ Reply(r, "auditFailed")
      BY <2>3 DEF Refused
    <3>2. /\ call' = [call EXCEPT ![r] = call'[r]]
          /\ call'[r] \in [stage : Stages, tool : Tools, cause : Causes, reply : Replies]
          /\ InStage(r, "replied")' /\ InStage(r, "begin")
      BY <1>a, <2>3, <3>1 DEF Replies, InStage, Refused
    <3>3. CASE openRows' = openRows /\ Reply(r, reply) /\ excused' = excused
      BY <1>0, <1>1, <1>a, <2>3, <3>2, <3>3 DEF Refused, CallMove, InStage, Underway, Replies
    <3>4. CASE /\ openRows' = [openRows EXCEPT ![r] = @ + 1] /\ excused' = excused \cup {r}
               /\ Reply(r, "auditFailed")
      BY <1>0, <1>1, <1>a, <2>3, <3>2, <3>4 DEF Refused, CallMove, InStage, Replies
    <3>. QED BY <2>3, <3>3, <3>4 DEF Refused
  <2>. QED BY <2>1, <2>2, <2>3
<1>2. ASSUME CallUnaudited(r)
      PROVE  CallMove(r)
  <2>1. /\ Reply(r, "auditFailed") /\ InStage(r, "begin") /\ excused' = excused \cup {r}
        /\ UNCHANGED <<posture, openRows, stopAsked>>
    BY <1>2 DEF CallUnaudited
  <2>2. /\ call' = [call EXCEPT ![r] = call'[r]]
        /\ call'[r] \in [stage : Stages, tool : Tools, cause : Causes, reply : Replies]
        /\ call'[r].stage = "replied" /\ call'[r].reply = "auditFailed"
    BY <1>a, <2>1 DEF Replies
  <2>. QED BY <1>0, <1>2, <2>1, <2>2 DEF CallMove, InStage
<1>3. ASSUME FinishAudit(r, "failed"), call[r].stage \in {"run", "pending"}, UNCHANGED <<posture, stopAsked>>
      PROVE  CallMove(r)
  <2>1. CASE openRows' = [openRows EXCEPT ![r] = @ - 1] /\ Reply(r, "failed") /\ excused' = excused
    <3>1. /\ call' = [call EXCEPT ![r] = call'[r]]
          /\ call'[r] \in [stage : Stages, tool : Tools, cause : Causes, reply : Replies]
          /\ call'[r].stage = "replied" /\ call'[r].reply = "failed"
      BY <1>a, <2>1 DEF Replies
    <3>. QED BY <1>0, <1>3, <2>1, <3>1 DEF CallMove, InStage, Underway
  <2>2. CASE openRows' = openRows /\ Reply(r, "auditFailed") /\ excused' = excused \cup {r}
    <3>1. /\ call' = [call EXCEPT ![r] = call'[r]]
          /\ call'[r] \in [stage : Stages, tool : Tools, cause : Causes, reply : Replies]
          /\ call'[r].stage = "replied" /\ call'[r].reply = "auditFailed"
      BY <1>a, <2>2 DEF Replies
    <3>. QED BY <1>0, <1>3, <2>2, <3>1 DEF CallMove, InStage
  <2>. QED BY <1>3, <2>1, <2>2 DEF FinishAudit
<1>4. ASSUME NEW stage \in {"pending", "process"}, Stage(r, stage), call[r].stage \in {"run", "process"},
             UNCHANGED <<posture, openRows, excused, stopAsked>>
      PROVE  CallMove(r)
  <2>1. /\ call' = [call EXCEPT ![r] = call'[r]]
        /\ call'[r] \in [stage : Stages, tool : Tools, cause : Causes, reply : Replies]
        /\ call'[r].stage = stage /\ call'[r].cause = call[r].cause
    BY <1>b, <1>4 DEF Stages
  <2>. QED BY <1>0, <1>4, <2>1 DEF CallMove, InStage, Underway
<1>5. ASSUME Mutate(r)
      PROVE  CallMove(r)
  BY <1>4, <1>5 DEF Mutate, InStage
<1>6. ASSUME MutateFails(r) \/ CommandUnavailable(r)
      PROVE  CallMove(r)
  BY <1>3, <1>6 DEF MutateFails, CommandUnavailable, InStage
<1>7. ASSUME Read(r) \/ GitRead(r)
      PROVE  CallMove(r)
  BY <1>3, <1>4, <1>7 DEF Read, GitRead, Reading, InStage
<1>8. ASSUME StartCommand(r) \/ CommandExits(r)
      PROVE  CallMove(r)
  BY <1>4, <1>8 DEF StartCommand, CommandExits, InStage
<1>9. ASSUME CommandStopped(r)
      PROVE  CallMove(r)
  <2>1. Reply(r, StopReply(r)) \/ Reply(r, "auditFailed")
    BY <1>9 DEF CommandStopped, FinishAudit
  <2>2. /\ call' = [call EXCEPT ![r] = call'[r]]
        /\ call'[r] \in [stage : Stages, tool : Tools, cause : Causes, reply : Replies]
        /\ InStage(r, "replied")' /\ call'[r].cause = call[r].cause
    BY <1>a, <2>1 DEF StopReply, Replies, InStage
  <2>3. CASE /\ openRows' = [openRows EXCEPT ![r] = @ - 1]
             /\ Reply(r, StopReply(r)) /\ excused' = excused
    <3>1. call'[r].reply = IF call[r].cause \in {"cancel", "timeout"} THEN "interrupted" ELSE "failed"
      BY <1>a, <2>3 DEF StopReply, Replies
    <3>. QED BY <1>0, <1>9, <2>2, <2>3, <3>1 DEF CommandStopped, CallMove, InStage, Underway
  <2>4. CASE excused' = excused \cup {r} /\ openRows' = openRows /\ Reply(r, "auditFailed")
    BY <1>0, <1>a, <1>9, <2>2, <2>4 DEF CommandStopped, CallMove, InStage, Replies
  <2>. QED BY <1>9, <2>3, <2>4 DEF CommandStopped, FinishAudit
<1>10. ASSUME RollbackTorn(r), call[r].stage \in {"run", "pending"}, UNCHANGED posture,
              stopAsked' \in {stopAsked, stopAsked \cup {r}}
       PROVE  CallMove(r)
  BY <1>0, <1>10 DEF RollbackTorn, CallMove, Reply, InStage, Stages, Replies
<1>11. ASSUME AbandonCall(r)
       PROVE  CallMove(r)
  BY <1>3, <1>10, <1>11 DEF AbandonCall, InStage
<1>12. ASSUME AuditSuccess(r)
       PROVE  CallMove(r)
  <2>1. /\ Stage(r, "audited") /\ InStage(r, "pending")
        /\ openRows' = [openRows EXCEPT ![r] = @ - 1]
        /\ UNCHANGED <<posture, excused, stopAsked>>
    BY <1>12 DEF AuditSuccess
  <2>2. /\ call' = [call EXCEPT ![r] = call'[r]]
        /\ call'[r] \in [stage : Stages, tool : Tools, cause : Causes, reply : Replies]
        /\ call'[r].stage = "audited" /\ call'[r].cause = call[r].cause
    BY <1>b, <2>1 DEF Stages
  <2>. QED BY <1>0, <2>1, <2>2 DEF CallMove, InStage, Underway
<1>13. ASSUME AuditSuccessFails(r)
       PROVE  CallMove(r)
  <2>1. CASE RollbackTorn(r)
    BY <1>10, <1>13, <2>1 DEF AuditSuccessFails, InStage
  <2>2. CASE ~RollbackTorn(r)
    <3>1. /\ Reply(r, "auditFailed") /\ InStage(r, "pending") /\ excused' = excused \cup {r}
          /\ UNCHANGED <<posture, openRows, stopAsked>>
      BY <1>13, <2>2 DEF AuditSuccessFails
    <3>2. /\ call' = [call EXCEPT ![r] = call'[r]]
          /\ call'[r] \in [stage : Stages, tool : Tools, cause : Causes, reply : Replies]
          /\ call'[r].stage = "replied" /\ call'[r].reply = "auditFailed"
      BY <1>a, <3>1 DEF Replies
    <3>. QED BY <1>0, <3>1, <3>2 DEF CallMove, InStage
  <2>. QED BY <2>1, <2>2
<1>14. ASSUME CommitCall(r)
       PROVE  CallMove(r)
  <2>1. CASE Reply(r, "succeeded") /\ excused' = excused
    BY <1>0, <1>a, <1>14, <2>1 DEF CommitCall, CallMove, InStage, Underway, Replies
  <2>2. CASE Reply(r, "compensation") /\ excused' = excused \cup {r}
    BY <1>0, <1>a, <1>14, <2>2 DEF CommitCall, CallMove, InStage, Replies
  <2>. QED BY <1>14, <2>1, <2>2 DEF CommitCall
<1>15. ASSUME NEW cause \in {"profile", "tool", "timeout", "cancel"}, CommandInterrupted(r, cause)
       PROVE  CallMove(r)
  BY <1>0, <1>15 DEF CommandInterrupted, AskedToStop, CallMove, InStage, Underway, Stages, Causes
<1>16. ASSUME NEW cause \in {"timeout", "cancel"}, InterruptPending(r, cause)
       PROVE  CallMove(r)
  <2>1. CASE RollbackTorn(r)
    BY <1>10, <1>16, <2>1 DEF InterruptPending, AskedToStop, InStage
  <2>2. CASE ~RollbackTorn(r)
    <3>1. CASE /\ openRows' = [openRows EXCEPT ![r] = @ - 1] /\ excused' = excused
               /\ call' = [call EXCEPT ![r].stage = "replied", ![r].reply = "interrupted", ![r].cause = cause]
      <4>1. /\ call' = [call EXCEPT ![r] = call'[r]]
            /\ call'[r] = [call[r] EXCEPT !.stage = "replied", !.reply = "interrupted", !.cause = cause]
        BY <3>1
      <4>2. /\ call'[r] \in [stage : Stages, tool : Tools, cause : Causes, reply : Replies]
            /\ call'[r].stage = "replied" /\ call'[r].reply = "interrupted" /\ call'[r].cause = cause
        BY <1>0, <4>1 DEF Stages, Replies, Causes
      <4>. QED BY <1>0, <1>16, <3>1, <4>1, <4>2 DEF InterruptPending, AskedToStop, CallMove, InStage, Underway
    <3>2. CASE Reply(r, "auditFailed") /\ excused' = excused \cup {r} /\ openRows' = openRows
      BY <1>0, <1>16, <1>a, <3>2 DEF InterruptPending, AskedToStop, CallMove, InStage, Replies
    <3>. QED BY <1>16, <2>2, <3>1, <3>2 DEF InterruptPending
  <2>. QED BY <2>1, <2>2
<1>. QED
  BY <1>1, <1>2, <1>5, <1>6, <1>7, <1>8, <1>9, <1>11, <1>12, <1>13, <1>14, <1>15, <1>16 DEF CallStep

-----------------------------------------------------------------------------
\* The lock

\* Every step inside a call is a ToolMove.
LEMMA ToolSteps ==
    ASSUME TypeOK, HoldersAreAtWork, EffectsAreOwned, NEW r \in AgentRuns,
           \/ CallStep(r) \/ CallUnaudited(r)
           \/ \E cause \in {"profile", "tool", "timeout", "cancel"} : CommandInterrupted(r, cause)
           \/ \E cause \in {"timeout", "cancel"} : InterruptPending(r, cause),
           pc[r] = "act", CallMove(r)
    PROVE  ToolMove(r)
<1>. USE DEF TypeOK, ToolTypeOK, WorkspaceTypeOK
<1>0. /\ HasTransaction(r) => call[r].stage \in {"pending", "audited"} /\ AtTool(r)
      /\ AtTool(r) <=> r \in holds
      /\ call' = [call EXCEPT ![r] = call'[r]]
  BY DEF HoldersAreAtWork, EffectsAreOwned, CallMove, AtTool
<1>1. ASSUME UNCHANGED <<locked, holds, disk, staging, trash, mgr, recorded, broken, backup, processes>>,
             areas' \subseteq areas \cup {r},
             call[r].stage \in {"begin", "run"},
             call'[r].stage \in {"run", "pending", "replied"}
      PROVE  ToolMove(r)
  BY <1>0, <1>1 DEF ToolMove, Keeps, AtTool, Commanding, HasTransaction
<1>. DEFINE Staged(stage) == call'[r].stage = stage
<1>a. ASSUME NEW stage, Stage(r, stage)
      PROVE  Staged(stage)
  BY <1>a DEF Stage
<1>b. ASSUME NEW reply, Reply(r, reply)
      PROVE  Staged("replied")
  BY <1>b DEF Reply
<1>c. ASSUME NEW reply, FinishAudit(r, reply) \/ Refused(r, reply)
      PROVE  Staged("replied")
  BY <1>b, <1>c DEF FinishAudit, Refused
<1>2. ASSUME Admit(r)
      PROVE  ToolMove(r)
  <2>1. Authorized(r) \/ \E reply : Refused(r, reply)
    BY <1>2, AdmitAnswers
  <2>2. /\ UNCHANGED <<workspaceVars, backup, processes>>
        /\ call[r].stage = "begin"
        /\ call'[r].stage \in {"run", "replied"}
    BY <1>a, <1>c, <2>1 DEF Authorized, Refused, InStage
  <2>. QED BY <1>1, <2>2 DEF workspaceVars
<1>3. ASSUME CallUnaudited(r) \/ MutateFails(r) \/ Read(r) \/ GitRead(r) \/ CommandUnavailable(r)
      PROVE  ToolMove(r)
  BY <1>1, <1>3, <1>a, <1>b, <1>c
     DEF CallUnaudited, MutateFails, Read, GitRead, Reading, CommandUnavailable, workspaceVars, InStage
<1>4. ASSUME Mutate(r)
      PROVE  ToolMove(r)
  <2>1. Staged("pending") /\ InStage(r, "run") /\ AcquireLock(r)
    BY <1>4, <1>a DEF Mutate
  <2>2. /\ backup' = [backup EXCEPT ![r] = disk.file] /\ UNCHANGED <<processes, broken>>
        /\ UNCHANGED <<mgr, recorded, staging, trash>> /\ areas' = areas \cup {r}
    BY <1>4 DEF Mutate
  <2>3. HasTransaction(r)'
    BY <2>2 DEF HasTransaction
  <2>4. AtTool(r)' /\ ~AtTool(r)
    BY <1>0, <2>1, <2>3 DEF AtTool, Commanding, HasTransaction, InStage
  <2>5. PICK content \in Mutated(r, call[r].tool) : disk' = [disk EXCEPT !.file = content]
    BY <1>4 DEF Mutate
  <2>6. content \in Content
    BY <2>5 DEF Mutated, Content
  <2>7. disk' \in [root : BOOLEAN, file : Content, repo : Repository] /\ disk'.root = disk.root
    BY <2>5, <2>6
  <2>. QED BY <2>1, <2>2, <2>4, <2>7 DEF ToolMove, Takes, Commanding
<1>5. ASSUME StartCommand(r)
      PROVE  ToolMove(r)
  <2>1. Staged("process") /\ InStage(r, "run") /\ AcquireLock(r)
    BY <1>5, <1>a DEF StartCommand
  <2>2. Commanding(r)' /\ AtTool(r)' /\ ~AtTool(r)
    BY <2>1 DEF AtTool, Commanding, InStage
  <2>3. disk' \in [root : BOOLEAN, file : Content, repo : Repository] /\ disk'.root = disk.root
    <3>1. disk' = disk \/ disk' = [disk EXCEPT !.repo = "separated"]
      BY <1>5 DEF StartCommand, SeparateGit
    <3>2. /\ disk \in [root : BOOLEAN, file : Content, repo : Repository]
          /\ "separated" \in Repository
      BY DEF WorkspaceTypeOK, Repository
    <3>. QED BY <3>1, <3>2
  <2>. QED BY <1>5, <2>1, <2>2, <2>3 DEF ToolMove, Takes, StartCommand
<1>6. ASSUME CommandExits(r) \/ CommandStopped(r)
      PROVE  ToolMove(r)
  <2>1. Staged("pending") \/ Staged("replied")
    BY <1>6, <1>a, <1>c DEF CommandExits, CommandStopped
  <2>2. /\ Commanding(r) /\ ReleaseLock(r)
        /\ UNCHANGED <<disk, staging, trash, areas, mgr, recorded, backup>>
        /\ processes' \in {processes, processes \ {r}}
        /\ broken' = IF r \in processes' THEN broken \cup {"file"} ELSE broken
    BY <1>6 DEF CommandExits, CommandStopped, Commanding, InStage
  <2>3. ~HasTransaction(r)
    BY <1>0, <2>2 DEF Commanding
  <2>. QED BY <2>1, <2>2, <2>3 DEF ToolMove, Gives, AtTool, Commanding, HasTransaction
<1>7. ASSUME AuditSuccess(r)
      PROVE  ToolMove(r)
  <2>1. Staged("audited") /\ InStage(r, "pending")
    BY <1>7, <1>a DEF AuditSuccess
  <2>. QED BY <1>7, <2>1 DEF AuditSuccess, ToolMove, Keeps, AtTool, Commanding, HasTransaction,
                             InStage, workspaceVars
<1>8. ASSUME NEW cause, CommandInterrupted(r, cause)
      PROVE  ToolMove(r)
  <2>1. Staged("stopping") /\ Commanding(r)
    BY <1>8 DEF CommandInterrupted, InStage, Commanding
  <2>. QED BY <1>8, <2>1 DEF CommandInterrupted, ToolMove, Keeps, AtTool, Commanding, workspaceVars
<1>9. ASSUME HasTransaction(r), ReleaseLock(r), call[r].stage \in {"pending", "audited"}, Staged("replied"),
             backup' = [backup EXCEPT ![r] = NoBackup],
             areas' \subseteq areas, UNCHANGED <<mgr, recorded, staging, trash, processes>>,
             \/ disk' = disk /\ broken' = broken /\ InStage(r, "audited")
             \/ disk' = disk /\ broken' = broken \cup {"file"}
             \/ disk' = [disk EXCEPT !.file = backup[r]] /\ broken' = broken /\ InStage(r, "pending")
      PROVE  ToolMove(r)
  BY <1>9 DEF ToolMove, Gives, AtTool, Commanding
<1>10. ASSUME RollbackTorn(r), call[r].stage \in {"run", "pending"},
              UNCHANGED <<staging, trash, mgr, recorded, processes>>
       PROVE  ToolMove(r)
  BY <1>0, <1>9, <1>10, <1>b DEF RollbackTorn, AtTool, Commanding
<1>11. ASSUME Undo(r), call[r].stage \in {"run", "pending"}, Staged("replied"),
              UNCHANGED <<staging, trash, mgr, recorded, processes>>
       PROVE  ToolMove(r)
  <2>1. CASE HasTransaction(r)
    <3>1. InStage(r, "pending")
      BY <1>0, <1>11, <2>1 DEF AtTool, Commanding, InStage
    <3>2. /\ disk' = [disk EXCEPT !.file = backup[r]] /\ broken' = broken
          /\ areas' \subseteq areas /\ ReleaseLock(r)
          /\ backup' = [backup EXCEPT ![r] = NoBackup]
      BY <1>11, <2>1 DEF Undo, RollbackTransaction
    <3>3. call[r].stage \in {"pending", "audited"}
      BY <3>1 DEF InStage
    <3>. QED BY <1>9, <1>11, <2>1, <3>1, <3>2, <3>3
  <2>2. CASE ~HasTransaction(r)
    BY <1>1, <1>11, <2>2 DEF Undo, ToolMove, Keeps, AtTool, Commanding, HasTransaction
  <2>. QED BY <2>1, <2>2
<1>12. ASSUME AbandonCall(r) \/ AuditSuccessFails(r)
       PROVE  ToolMove(r)
  BY <1>10, <1>11, <1>12, <1>b, <1>c DEF AbandonCall, AuditSuccessFails, InStage
<1>13. ASSUME NEW cause, InterruptPending(r, cause)
       PROVE  ToolMove(r)
  <2>1. RollbackTorn(r) \/ (Undo(r) /\ Staged("replied"))
    BY <1>13, <1>b DEF InterruptPending
  <2>. QED BY <1>10, <1>11, <1>13, <2>1 DEF InterruptPending, InStage
<1>14. ASSUME CommitCall(r)
       PROVE  ToolMove(r)
  <2>1. Staged("replied") /\ InStage(r, "audited") /\ UNCHANGED <<staging, trash, mgr, recorded, processes>>
    BY <1>14, <1>b DEF CommitCall
  <2>2. CASE HasTransaction(r)
    BY <1>9, <1>14, <2>1, <2>2 DEF CommitCall, CommitTransaction, InStage
  <2>3. CASE ~HasTransaction(r)
    BY <1>14, <2>1, <2>3 DEF CommitCall, ToolMove, Keeps, AtTool, Commanding, HasTransaction, InStage
  <2>. QED BY <2>2, <2>3
<1>. QED
  BY <1>2, <1>3, <1>4, <1>5, <1>6, <1>7, <1>8, <1>12, <1>13, <1>14 DEF CallStep

-----------------------------------------------------------------------------
\* The inductive invariant: what concerns the runs and their calls, and what
\* concerns the lock and the worktree.
RunsInv ==
    /\ ToolTypeOK /\ RuntimeTypeOK
    /\ CallsAreActs /\ RowsMatchCalls /\ ExcusedAreOver /\ StopIsUnderWay
    /\ WithinLimits

LockInv == WorkspaceTypeOK /\ HoldersAreAtWork /\ EffectsAreOwned /\ RootIsRecorded

IInv == RunsInv /\ LockInv

\* The invariant holds before anything happened.
LEMMA InitInv == Init => IInv
<1>. SUFFICES ASSUME Init PROVE IInv
  OBVIOUS
<1>. USE DEF Init, WorkspaceInit, ToolInit, RuntimeInit
<1>1. ToolTypeOK /\ RuntimeTypeOK
  BY DEF ToolTypeOK, RuntimeTypeOK, NoCall, Stages, Tools, Reads, Causes, Replies, Fresh, Steps, Ends, Status
<1>2. CallsAreActs /\ RowsMatchCalls /\ ExcusedAreOver /\ StopIsUnderWay
  BY DEF CallsAreActs, RowsMatchCalls, ExcusedAreOver, StopIsUnderWay, NoCall, InStage, Underway, Ended, Ends
<1>3. WithinLimits
  <2>. SUFFICES ASSUME NEW r \in AgentRuns PROVE Within(r, loop[r])
    BY DEF WithinLimits, Within
  <2>1. loop[r] = Fresh
    OBVIOUS
  <2>2. LimitsOf[r] \in [iterations : Nat \ {0}, calls : Nat, failures : Nat,
                         tokens : Nat \ {0}, window : Nat \ {0, 1}]
    OBVIOUS
  <2>. QED BY <2>1, <2>2 DEF Within, Fresh
<1>4. WorkspaceTypeOK
  <2>1. disk \in [root : BOOLEAN, file : Content, repo : Repository] /\ recorded \in BOOLEAN
    <3>1. /\ NoWorkspace \in [root : BOOLEAN, file : Content, repo : Repository]
          /\ [root |-> TRUE, file |-> "base", repo |-> "inside"] \in [root : BOOLEAN, file : Content, repo : Repository]
      BY DEF NoWorkspace, Content, Repository
    <3>2. disk \in [root : BOOLEAN, file : Content, repo : Repository]
      BY <3>1
    <3>. QED BY <3>2
  <2>2. mgr \in [Managers -> {"absent", "idle", "create", "import", "trash", "remove", "done", "dead"}]
    OBVIOUS
  <2>. QED BY <2>1, <2>2 DEF WorkspaceTypeOK
<1>5. HoldersAreAtWork
  BY DEF HoldersAreAtWork, AtTool, Commanding, HasTransaction, NoCall, Working
<1>6. EffectsAreOwned
  BY DEF EffectsAreOwned, HasTransaction
<1>7. RootIsRecorded
  BY DEF RootIsRecorded, At
<1>. QED BY <1>1, <1>2, <1>3, <1>4, <1>5, <1>6, <1>7 DEF IInv, RunsInv, LockInv

\* A step of the loop keeps the runs' part.
LEMMA LoopKeepsRuns ==
    ASSUME RunsInv, NEW r \in AgentRuns, LoopMove(r)
    PROVE  RunsInv'
<1>. USE DEF RunsInv
<1>1. /\ \A s \in AgentRuns \ {r} :
            pc'[s] = pc[s] /\ loop'[s] = loop[s] /\ terminals'[s] = terminals[s] /\ call'[s] = call[s]
      /\ openRows' = openRows
      /\ excused' \in {excused, excused \cup {r}} /\ stopAsked' \in {stopAsked, stopAsked \cup {r}}
  <2>1. \A s \in AgentRuns \ {r} :
           pc'[s] = pc[s] /\ loop'[s] = loop[s] /\ terminals'[s] = terminals[s]
    BY DEF LoopMove, Moved, RuntimeTypeOK
  <2>2. \A s \in AgentRuns \ {r} : call'[s] = call[s]
    <3>1. PICK c : call' = [call EXCEPT ![r] = c]
      BY DEF LoopMove, Recalled
    <3>. QED BY <3>1 DEF ToolTypeOK
  <2>3. openRows' = openRows /\ stopAsked' \in {stopAsked, stopAsked \cup {r}}
    BY DEF LoopMove
  <2>4. excused' \in {excused, excused \cup {r}}
    BY DEF LoopMove, Moved
  <2>. QED BY <2>1, <2>2, <2>3, <2>4
<1>2. \/ pc'[r] # "act" /\ call'[r] = NoCall
      \/ pc'[r] = "act" /\ InStage(r, "begin")'
  <2>1. pc'[r] # "act" /\ call' = [call EXCEPT ![r] = NoCall] => call'[r] = NoCall
    BY DEF ToolTypeOK
  <2>2. ASSUME NEW tool, call' = [call EXCEPT ![r] = [NoCall EXCEPT !.stage = "begin", !.tool = tool]]
        PROVE  call'[r].stage = "begin"
    BY <2>2 DEF ToolTypeOK, NoCall
  <2>. QED BY <2>1, <2>2 DEF LoopMove, Recalled, InStage
<1>3. /\ pc[r] \in Steps /\ (pc[r] # "act" => call[r] = NoCall) /\ (pc[r] = "act" => InStage(r, "replied"))
      /\ pc'[r] \in Steps \cup Ends
      /\ r \notin excused' => terminals'[r] = terminals[r] + IF pc'[r] \in Ends THEN 1 ELSE 0
      /\ pc'[r] \in Steps \ {"report"} => Within(r, loop'[r])
  BY DEF LoopMove, Moved, CallsAreActs
<1>4. ToolTypeOK'
  <2>1. call' \in [AgentRuns -> [stage : Stages, tool : Tools, cause : Causes, reply : Replies]]
    <3>1. /\ NoCall \in [stage : Stages, tool : Tools, cause : Causes, reply : Replies]
          /\ \A tool \in Tools : [NoCall EXCEPT !.stage = "begin", !.tool = tool]
                \in [stage : Stages, tool : Tools, cause : Causes, reply : Replies]
      BY DEF NoCall, Stages, Reads, Tools, Causes, Replies
    <3>2. PICK c \in [stage : Stages, tool : Tools, cause : Causes, reply : Replies] :
             call' = [call EXCEPT ![r] = c]
      BY <3>1 DEF LoopMove, Recalled
    <3>. QED BY <3>2 DEF ToolTypeOK
  <2>. QED BY <1>1, <2>1 DEF ToolTypeOK, LoopMove
<1>5. RuntimeTypeOK'
  <2>0. /\ pc' = [pc EXCEPT ![r] = pc'[r]] /\ pc'[r] \in Steps \cup Ends
        /\ loop' = [loop EXCEPT ![r] = loop'[r]] /\ loop'[r] \in Counters
        /\ ending' = [ending EXCEPT ![r] = ending'[r]] /\ ending'[r] \in Status
        /\ terminals' = [terminals EXCEPT ![r] = terminals'[r]] /\ terminals'[r] \in Nat
    BY DEF LoopMove, Moved
  <2>1. pc' \in [AgentRuns -> Steps \cup Ends \cup {"absent", "dead"}]
    BY <2>0 DEF RuntimeTypeOK
  <2>2. loop' \in [AgentRuns -> Counters]
    BY <2>0 DEF RuntimeTypeOK, Counters
  <2>3. ending' \in [AgentRuns -> Status] /\ terminals' \in [AgentRuns -> Nat]
    BY <2>0 DEF RuntimeTypeOK
  <2>. QED BY <2>1, <2>2, <2>3 DEF RuntimeTypeOK, Counters
<1>6. CallsAreActs'
  BY <1>1, <1>2 DEF CallsAreActs, InStage
<1>7. RowsMatchCalls'
  <2>1. r \notin excused' =>
           /\ openRows'[r] = 0 /\ terminals'[r] = IF pc'[r] \in Ends THEN 1 ELSE 0
           /\ call'[r].stage \in {"none", "begin"}
    BY <1>1, <1>2, <1>3 DEF RowsMatchCalls, InStage, NoCall, Underway, Ended, Steps, Ends
  <2>. QED BY <1>1, <2>1 DEF RowsMatchCalls, InStage, Underway, Ended
<1>8. ExcusedAreOver'
  <2>1. r \in excused' => pc'[r] \notin Steps
    BY DEF LoopMove
  <2>. QED BY <1>1, <2>1 DEF ExcusedAreOver, InStage, ToolTypeOK
<1>9. StopIsUnderWay'
  <2>1. r \in stopAsked' \ excused' => pc'[r] = "cancelled"
    BY <1>1, <1>3 DEF LoopMove, StopIsUnderWay, InStage, Steps
  <2>. QED BY <1>1, <2>1 DEF StopIsUnderWay, InStage, ToolTypeOK
<1>10. WithinLimits'
  BY <1>1, <1>3 DEF WithinLimits, Within
<1>. QED BY <1>4, <1>5, <1>6, <1>7, <1>8, <1>9, <1>10

\* So does a step inside a call ...
LEMMA CallKeepsRuns ==
    ASSUME RunsInv, NEW r \in AgentRuns, CallMove(r), pc[r] = "act", ~InStage(r, "replied"),
           backup' \in [AgentRuns -> Content \cup {NoBackup}], processes' \subseteq AgentRuns
    PROVE  RunsInv'
<1>. USE DEF RunsInv
<1>1. /\ \A s \in AgentRuns \ {r} : openRows'[s] = openRows[s] /\ call'[s] = call[s]
      /\ excused' \in {excused, excused \cup {r}} /\ stopAsked' \in {stopAsked, stopAsked \cup {r}}
      /\ pc' = pc /\ loop' = loop /\ terminals' = terminals /\ posture' = posture /\ ending' = ending
      /\ ~InStage(r, "none")'
  BY DEF CallMove, ToolTypeOK, runtimeVars
<1>2. ToolTypeOK'
  <2>1. call' \in [AgentRuns -> [stage : Stages, tool : Tools, cause : Causes, reply : Replies]]
    BY DEF CallMove, ToolTypeOK
  <2>2. openRows' \in [AgentRuns -> Nat]
    BY DEF CallMove, ToolTypeOK
  <2>. QED BY <1>1, <2>1, <2>2 DEF ToolTypeOK
<1>3. RuntimeTypeOK' /\ WithinLimits'
  BY <1>1 DEF RuntimeTypeOK, WithinLimits
<1>4. CallsAreActs'
  BY <1>1 DEF CallsAreActs, InStage
<1>5. r \notin excused
  BY DEF ExcusedAreOver, Steps
<1>6. RowsMatchCalls'
  <2>1. r \notin excused' => /\ openRows'[r] = IF call'[r].stage \in Underway THEN 1 ELSE 0
                             /\ InStage(r, "replied")' => call'[r].reply \notin {"compensation", "auditFailed"}
    BY <1>5 DEF CallMove, RowsMatchCalls, ToolTypeOK
  <2>. QED BY <1>1, <2>1 DEF RowsMatchCalls, InStage, Ended
<1>7. ExcusedAreOver'
  <2>1. r \in excused' => InStage(r, "replied")' /\ call'[r].reply \in {"compensation", "auditFailed"}
    BY <1>5 DEF CallMove
  <2>. QED BY <1>1, <2>1 DEF ExcusedAreOver, InStage, ToolTypeOK
<1>8. StopIsUnderWay'
  <2>1. ASSUME r \in stopAsked' \ excused'
        PROVE  /\ call'[r].cause = "cancel"
               /\ InStage(r, "stopping")' \/ (InStage(r, "replied")' /\ call'[r].reply = "interrupted")
    BY <1>5, <2>1 DEF CallMove, StopIsUnderWay
  <2>. QED BY <1>1, <2>1 DEF StopIsUnderWay, InStage, ToolTypeOK
<1>. QED BY <1>2, <1>3, <1>4, <1>6, <1>7, <1>8

\* What the manager, or somebody who changes a grant, leaves of the runs
LEMMA OthersKeepRuns ==
    ASSUME RunsInv, UNCHANGED <<call, backup, processes, openRows, excused, stopAsked, runtimeVars>>,
           posture' \in [AgentRuns -> {"granted", "revoked", "unscoped", "demoted"}]
    PROVE  RunsInv'
BY DEF RunsInv, ToolTypeOK, RuntimeTypeOK, CallsAreActs, RowsMatchCalls, ExcusedAreOver, StopIsUnderWay,
       WithinLimits, InStage, Ended, runtimeVars

\* ... and the death of the worker, which excuses nobody.
LEMMA DeathKeepsRuns ==
    ASSUME RunsInv, WorkerDies
    PROVE  RunsInv'
<1>. USE DEF RunsInv, WorkerDies
<1>1. /\ \A r \in AgentRuns : /\ pc'[r] = IF pc[r] \in Steps THEN "dead" ELSE pc[r]
                              /\ call'[r] = NoCall /\ loop'[r] = Fresh
      /\ UNCHANGED <<posture, backup, processes, openRows, excused, stopAsked, ending, terminals>>
  BY DEF Running
<1>2. ToolTypeOK'
  BY DEF ToolTypeOK, NoCall, Stages, Tools, Reads, Causes, Replies
<1>3. RuntimeTypeOK'
  BY DEF RuntimeTypeOK, Running, Fresh
<1>4. \A r \in AgentRuns : pc'[r] \notin Steps
  BY <1>1 DEF Steps
<1>5. CallsAreActs' /\ WithinLimits' /\ ExcusedAreOver'
  BY <1>1, <1>4 DEF CallsAreActs, WithinLimits, ExcusedAreOver, Steps, ToolTypeOK
<1>6. RowsMatchCalls'
  BY <1>1, <1>4 DEF RowsMatchCalls, CallsAreActs, NoCall, InStage, Underway, Ended, Steps, Ends
<1>7. StopIsUnderWay'
  BY <1>1 DEF StopIsUnderWay, ToolTypeOK, Steps
<1>. QED BY <1>2, <1>3, <1>5, <1>6, <1>7

-----------------------------------------------------------------------------
\* A step of the loop leaves the lock, and the run it is about has no effect
\* in flight.
LEMMA LoopKeepsLock ==
    ASSUME LockInv, TypeOK, CallsAreActs, NEW r \in AgentRuns, LoopMove(r)
    PROVE  LockInv'
<1>. USE DEF LockInv
<1>1. /\ UNCHANGED <<workspaceVars, backup, processes>>
      /\ \A s \in AgentRuns \ {r} : call'[s] = call[s] /\ pc'[s] = pc[s]
      /\ call[r].stage \in {"none", "replied"} /\ pc[r] # "dead"
  <2>1. UNCHANGED <<workspaceVars, backup, processes>>
    BY DEF LoopMove
  <2>2. \A s \in AgentRuns \ {r} : call'[s] = call[s] /\ pc'[s] = pc[s]
    BY DEF LoopMove, Moved, Recalled, TypeOK, ToolTypeOK, RuntimeTypeOK
  <2>3. call[r].stage \in {"none", "replied"} /\ pc[r] # "dead"
    BY DEF LoopMove, CallsAreActs, InStage, NoCall, Steps
  <2>. QED BY <2>1, <2>2, <2>3
<1>2. call'[r].stage \in {"none", "begin"}
  <2>1. CASE call' = [call EXCEPT ![r] = NoCall]
    BY <2>1 DEF TypeOK, ToolTypeOK, NoCall
  <2>2. ASSUME NEW tool, call' = [call EXCEPT ![r] = [NoCall EXCEPT !.stage = "begin", !.tool = tool]]
        PROVE  call'[r].stage = "begin"
    BY <2>2 DEF TypeOK, ToolTypeOK, NoCall
  <2>. QED BY <2>1, <2>2 DEF LoopMove, Recalled
<1>3. /\ ~AtTool(r) /\ ~AtTool(r)' /\ ~Commanding(r) /\ ~Commanding(r)'
      /\ \A s \in AgentRuns : (AtTool(s)' <=> AtTool(s)) /\ (Commanding(s)' <=> Commanding(s))
  BY <1>1, <1>2 DEF AtTool, Commanding, HasTransaction
<1>4. WorkspaceTypeOK'
  BY <1>1 DEF WorkspaceTypeOK, workspaceVars
<1>5. HoldersAreAtWork'
  BY <1>1, <1>3 DEF HoldersAreAtWork, workspaceVars
<1>6. EffectsAreOwned'
  <2>1. ~HasTransaction(r) /\ (r \in processes => "file" \in broken)
    BY <1>1, <1>3 DEF EffectsAreOwned
  <2>2. \A s \in AgentRuns : HasTransaction(s)' <=> HasTransaction(s)
    BY <1>1 DEF HasTransaction
  <2>3. processes \subseteq AgentRuns
    BY DEF TypeOK, ToolTypeOK
  <2>. QED BY <1>1, <1>3, <2>1, <2>2, <2>3 DEF EffectsAreOwned, LockIsOrphaned, workspaceVars
<1>7. RootIsRecorded'
  BY <1>1 DEF RootIsRecorded, LockIsOrphaned, At, workspaceVars
<1>. QED BY <1>4, <1>5, <1>6, <1>7

\* A step inside a call takes the lock only when it is free, and gives it back
\* only with what was in flight.
LEMMA CallKeepsLock ==
    ASSUME LockInv, TypeOK, NEW r \in AgentRuns, ToolMove(r), pc[r] = "act", pc' = pc,
           \A s \in AgentRuns \ {r} : call'[s] = call[s]
    PROVE  /\ LockInv'
           /\ backup' \in [AgentRuns -> Content \cup {NoBackup}] /\ processes' \subseteq AgentRuns
<1>. USE DEF LockInv
<1>1. /\ backup \in [AgentRuns -> Content \cup {NoBackup}] /\ processes \subseteq AgentRuns
      /\ disk \in [root : BOOLEAN, file : Content, repo : Repository]
      /\ UNCHANGED <<mgr, recorded, staging, trash>> /\ areas' \subseteq AgentRuns
  BY DEF TypeOK, ToolTypeOK, WorkspaceTypeOK, ToolMove
<1>2. CASE Keeps(r)
  <2>1. /\ UNCHANGED <<locked, holds, disk, broken, backup, processes>>
        /\ \A s \in AgentRuns : (AtTool(s)' <=> AtTool(s)) /\ (Commanding(s)' <=> Commanding(s))
        /\ \A s \in AgentRuns : HasTransaction(s)' <=> HasTransaction(s)
    BY <1>2 DEF Keeps, AtTool, Commanding, HasTransaction
  <2>2. WorkspaceTypeOK' /\ HoldersAreAtWork' /\ RootIsRecorded'
    BY <1>1, <2>1 DEF WorkspaceTypeOK, HoldersAreAtWork, RootIsRecorded, LockIsOrphaned, At
  <2>3. \A s \in AgentRuns : HasTransaction(s) /\ ~(pc[s] = "dead" /\ LockIsOrphaned)
                           => call'[s].stage \in {"pending", "audited"}
    BY <2>1 DEF EffectsAreOwned, AtTool, Commanding
  <2>4. EffectsAreOwned'
    BY <1>1, <2>1, <2>3 DEF EffectsAreOwned, LockIsOrphaned
  <2>. QED BY <1>1, <2>1, <2>2, <2>4
<1>3. CASE Takes(r)
  <2>. USE <1>3 DEF Takes
  <2>1. /\ ~locked /\ holds = {} /\ locked' /\ holds' = {r}
        /\ \A m \in Managers : mgr[m] \notin Working /\ m # r
        /\ \A s \in AgentRuns : ~AtTool(s) /\ ~Commanding(s) /\ ~HasTransaction(s)
    BY DEF AcquireLock, HoldersAreAtWork, EffectsAreOwned, LockIsOrphaned, AtTool
  <2>2. \A s \in AgentRuns \ {r} : ~AtTool(s)' /\ ~Commanding(s)' /\ ~HasTransaction(s)'
    BY <1>1, <2>1 DEF AtTool, Commanding, HasTransaction
  <2>3. backup' \in [AgentRuns -> Content \cup {NoBackup}] /\ processes' \subseteq AgentRuns
    BY <1>1
  <2>4. WorkspaceTypeOK'
    BY <1>1, <2>1 DEF WorkspaceTypeOK, Actors
  <2>5. HoldersAreAtWork'
    BY <1>1, <2>1, <2>2 DEF HoldersAreAtWork
  <2>6. HasTransaction(r)' => call'[r].stage \in {"pending", "audited"}
    BY <1>1, <2>1 DEF HasTransaction, AtTool, Commanding
  <2>7. EffectsAreOwned'
    BY <1>1, <2>1, <2>2, <2>6 DEF EffectsAreOwned, LockIsOrphaned
  <2>8. RootIsRecorded'
    BY <1>1, <2>1 DEF RootIsRecorded, LockIsOrphaned, At, Working
  <2>. QED BY <2>3, <2>4, <2>5, <2>7, <2>8
<1>4. CASE Gives(r)
  <2>. USE <1>4 DEF Gives
  <2>1. /\ locked /\ holds = {r} /\ locked' = FALSE /\ holds' = {}
        /\ \A m \in Managers : mgr[m] \notin Working
        /\ \A s \in AgentRuns \ {r} : ~AtTool(s) /\ ~Commanding(s) /\ ~HasTransaction(s)
    BY DEF ReleaseLock, HoldersAreAtWork, EffectsAreOwned, LockIsOrphaned, AtTool
  <2>2. \A s \in AgentRuns : ~AtTool(s)' /\ ~Commanding(s)' /\ ~HasTransaction(s)'
    BY <1>1, <2>1 DEF AtTool, Commanding, HasTransaction
  <2>3. backup' \in [AgentRuns -> Content \cup {NoBackup}] /\ processes' \subseteq AgentRuns
    BY <1>1
  <2>4. disk' \in [root : BOOLEAN, file : Content, repo : Repository] /\ disk'.root = disk.root
    BY <1>1 DEF HasTransaction
  <2>5. WorkspaceTypeOK'
    BY <1>1, <2>1, <2>4 DEF WorkspaceTypeOK
  <2>6. HoldersAreAtWork'
    BY <1>1, <2>1, <2>2 DEF HoldersAreAtWork
  <2>7. EffectsAreOwned'
    <3>1. \A s \in processes' : "file" \in broken'
      BY <1>1, <2>1 DEF EffectsAreOwned, LockIsOrphaned
    <3>. QED BY <2>2, <3>1 DEF EffectsAreOwned
  <2>8. RootIsRecorded'
    BY <1>1, <2>1, <2>4 DEF RootIsRecorded, LockIsOrphaned, At, Working
  <2>. QED BY <2>3, <2>5, <2>6, <2>7, <2>8
<1>. QED BY <1>2, <1>3, <1>4 DEF ToolMove

-----------------------------------------------------------------------------
\* The manager

\* What a step of a manager does to the lock and to what the lock protects.
ManagerMove(m) ==
    /\ UNCHANGED <<toolVars, runtimeVars>>
    /\ \E step \in {"create", "import", "trash", "remove", "done", "dead"} :
          mgr' = [mgr EXCEPT ![m] = step]
    /\ disk' \in [root : BOOLEAN, file : Content, repo : Repository]
    /\ staging' \subseteq staging \cup {m} /\ UNCHANGED areas
    /\ trash' \in BOOLEAN /\ recorded' \in BOOLEAN
    /\ broken \subseteq broken' /\ broken' \subseteq broken \cup {"trash", "repo", "record"}
    /\ \/ /\ mgr[m] \notin Working /\ mgr'[m] \notin Working
          /\ UNCHANGED <<locked, holds, disk, recorded, broken>>
       \/ /\ mgr[m] \notin Working /\ mgr'[m] \in Working \ {"remove"} /\ AcquireLock(m)
          /\ disk'.root = disk.root /\ UNCHANGED <<recorded, broken>>
       \/ /\ mgr[m] \in Working /\ mgr'[m] = "remove"
          /\ UNCHANGED <<locked, holds, broken>> /\ ~disk'.root
       \/ /\ mgr[m] \in Working /\ mgr'[m] \notin Working /\ ReleaseLock(m)
          /\ "record" \in broken' \/ disk'.root = recorded'
       \/ /\ mgr[m] \in Working /\ mgr'[m] = "dead"
          /\ holds' = holds \ {m} /\ UNCHANGED <<locked, disk, recorded, broken>>

\* Every step of a manager is a ManagerMove.
LEMMA ManagerSteps ==
    ASSUME WorkspaceTypeOK, HoldersAreAtWork, RootIsRecorded, NEW m \in Managers,
           ManagerStep(m) \/ ManagerEvent(m), UNCHANGED <<toolVars, runtimeVars>>
    PROVE  ManagerMove(m)
<1>. USE DEF WorkspaceTypeOK, Becomes, At, Working
<1>0. /\ m \in holds <=> mgr[m] \in Working
      /\ mgr[m] \in Working \ {"remove"} => "record" \in broken \/ disk.root = recorded
  BY DEF HoldersAreAtWork, RootIsRecorded, LockIsOrphaned
<1>1. ASSUME ManagerRefused(m) \/ CleanupFindsNothing(m)
      PROVE  ManagerMove(m)
  <2>1. /\ mgr[m] = "idle" /\ m \notin holds /\ mgr' = [mgr EXCEPT ![m] = "done"]
        /\ UNCHANGED <<disk, staging, trash, areas, recorded, broken>>
    BY <1>0, <1>1 DEF ManagerRefused, CleanupFindsNothing
  <2>2. holds' = holds /\ locked' = locked
    <3>1. CASE ManagerRefused(m)
      <4>1. holds' = holds \ {m} /\ locked' = locked
        BY <2>1, <3>1 DEF ManagerRefused, ReleaseLock
      <4>. QED BY <2>1, <4>1
    <3>2. CASE CleanupFindsNothing(m)
      BY <3>2 DEF CleanupFindsNothing
    <3>. QED BY <1>1, <3>1, <3>2
  <2>. QED BY <2>1, <2>2 DEF ManagerMove
<1>2. ASSUME CreateWorkspace(m) \/ AttachOrClone(m)
      PROVE  ManagerMove(m)
  BY <1>2 DEF CreateWorkspace, AttachOrClone, StartProvision, CreateStaging, ManagerMove
<1>3. ASSUME Populating(m)
      PROVE  /\ mgr[m] \in Working \ {"remove"}
             /\ Promoted(m) \in [root : {TRUE}, file : Content, repo : Repository]
  BY <1>3 DEF Populating, Promoted, NoWorkspace, Content, Repository
<1>4. ASSUME Provisioned(m)
      PROVE  ManagerMove(m)
  BY <1>3, <1>4 DEF Provisioned, ManagerMove
<1>5. ASSUME ProvisionUnrecorded(m)
      PROVE  ManagerMove(m)
  BY <1>0, <1>3, <1>5 DEF ProvisionUnrecorded, ManagerMove
<1>6. ASSUME ProvisionFails(m)
      PROVE  ManagerMove(m)
  BY <1>0, <1>3, <1>6 DEF ProvisionFails, DiscardStaging, ManagerMove
<1>7. ASSUME StartCleanup(m)
      PROVE  ManagerMove(m)
  BY <1>7 DEF StartCleanup, ManagerMove, Repository
<1>8. ASSUME MoveToTrash(m)
      PROVE  ManagerMove(m)
  BY <1>8 DEF MoveToTrash, ManagerMove, NoWorkspace, Content, Repository
<1>9. ASSUME MoveToTrashFails(m)
      PROVE  ManagerMove(m)
  BY <1>0, <1>9 DEF MoveToTrashFails, ManagerMove
<1>10. ASSUME RemoveTrash(m)
       PROVE  ManagerMove(m)
  BY <1>10 DEF RemoveTrash, RecordCleanup, RootIsRecorded, ManagerMove
<1>11. ASSUME ManagerDies(m)
       PROVE  ManagerMove(m)
  BY <1>11 DEF ManagerDies, ManagerMove
<1>. QED
  BY <1>1, <1>2, <1>4, <1>5, <1>6, <1>7, <1>8, <1>9, <1>10, <1>11 DEF ManagerStep, ManagerEvent

\* A manager gives the lock back with the root as it recorded it, and takes it
\* with itself when it dies.
LEMMA ManagersKeepLock ==
    ASSUME LockInv, TypeOK, CallsAreActs, NEW m \in Managers, ManagerMove(m)
    PROVE  LockInv'
<1>. USE DEF LockInv
<1>1. /\ UNCHANGED <<call, backup, processes, pc>>
      /\ \A s \in AgentRuns : (AtTool(s)' <=> AtTool(s)) /\ (Commanding(s)' <=> Commanding(s))
      /\ \A s \in AgentRuns : HasTransaction(s)' <=> HasTransaction(s)
      /\ \A w \in Managers \ {m} : mgr'[w] = mgr[w]
      /\ \A s \in AgentRuns : s # m
  BY DEF ManagerMove, toolVars, runtimeVars, AtTool, Commanding, HasTransaction, WorkspaceTypeOK
<1>2. \A s \in AgentRuns : HasTransaction(s) \/ Commanding(s) => s \in holds \/ (pc[s] = "dead" /\ LockIsOrphaned)
  BY DEF EffectsAreOwned, HoldersAreAtWork, AtTool
<1>3. m \in holds <=> mgr[m] \in Working
  BY DEF HoldersAreAtWork
<1>4. locked' \in BOOLEAN /\ holds' \subseteq holds \cup {m}
  BY DEF ManagerMove, AcquireLock, ReleaseLock, WorkspaceTypeOK
<1>5. WorkspaceTypeOK'
  <2>1. mgr' \in [Managers -> {"absent", "idle", "create", "import", "trash", "remove", "done", "dead"}]
    BY DEF ManagerMove, WorkspaceTypeOK
  <2>. QED BY <1>4, <2>1 DEF ManagerMove, WorkspaceTypeOK, Actors
<1>6. HoldersAreAtWork'
  <2>1. mgr' = [mgr EXCEPT ![m] = mgr'[m]]
    BY DEF ManagerMove, WorkspaceTypeOK
  <2>2. CASE holds' = holds /\ locked' = locked /\ (mgr'[m] \in Working <=> mgr[m] \in Working)
    BY <1>1, <2>2 DEF HoldersAreAtWork
  <2>3. CASE AcquireLock(m) /\ mgr'[m] \in Working
    BY <1>1, <2>3 DEF AcquireLock, HoldersAreAtWork
  <2>4. CASE /\ m \in holds /\ holds' = holds \ {m} /\ mgr'[m] \notin Working
    BY <1>1, <2>4 DEF HoldersAreAtWork
  <2>. QED BY <1>3, <2>2, <2>3, <2>4 DEF ManagerMove, ReleaseLock, Working
<1>7. EffectsAreOwned'
  <2>1. LockIsOrphaned => UNCHANGED <<locked, holds>>
    BY <1>3 DEF LockIsOrphaned, ManagerMove, AcquireLock
  <2>2. "file" \in broken' <=> "file" \in broken
    BY DEF ManagerMove
  <2>3. processes \subseteq AgentRuns
    BY DEF TypeOK, ToolTypeOK
  <2>. QED BY <1>1, <2>1, <2>2, <2>3 DEF EffectsAreOwned, LockIsOrphaned
<1>8. RootIsRecorded'
  <2>1. mgr[m] \in Working => \A w \in Managers \ {m} : mgr'[w] \notin Working
    BY <1>1, <1>3 DEF HoldersAreAtWork
  <2>2. \A w \in Managers : At(w, "remove") => w \in holds /\ holds # {}
    BY DEF HoldersAreAtWork, At, Working
  <2>3. CASE mgr[m] \notin Working /\ mgr'[m] \notin Working
    BY <1>1, <2>3 DEF ManagerMove, RootIsRecorded, LockIsOrphaned, At, Working
  <2>4. CASE mgr[m] \notin Working /\ mgr'[m] \in Working
    BY <1>1, <2>2, <2>4 DEF ManagerMove, RootIsRecorded, LockIsOrphaned, At, Working, AcquireLock, HoldersAreAtWork
  <2>5. CASE mgr[m] \in Working /\ mgr'[m] = "remove"
    BY <2>1, <2>5 DEF ManagerMove, RootIsRecorded, At, Working
  <2>6. CASE mgr[m] \in Working /\ mgr'[m] = "dead"
    BY <1>3, <2>1, <2>6 DEF ManagerMove, RootIsRecorded, LockIsOrphaned, At, Working, HoldersAreAtWork
  <2>7. CASE mgr[m] \in Working /\ mgr'[m] = "done"
    BY <2>1, <2>7 DEF ManagerMove, RootIsRecorded, At, Working
  <2>. QED BY <2>3, <2>4, <2>5, <2>6, <2>7 DEF ManagerMove, WorkspaceTypeOK, Working
<1>. QED BY <1>5, <1>6, <1>7, <1>8

-----------------------------------------------------------------------------
\* The rest of the environment

\* A worker that dies with the lock leaves it to nobody.
LEMMA DeathKeepsLock ==
    ASSUME LockInv, TypeOK, CallsAreActs, WorkerDies
    PROVE  LockInv'
<1>. USE DEF LockInv
<1>1. /\ \A r \in AgentRuns : /\ pc'[r] = IF pc[r] \in Steps THEN "dead" ELSE pc[r]
                              /\ call'[r] = NoCall
                              /\ HasTransaction(r)' <=> HasTransaction(r)
      /\ UNCHANGED <<locked, disk, staging, trash, areas, mgr, recorded, broken, backup, processes>>
      /\ holds' = holds \ AgentRuns
  BY DEF WorkerDies, Running, HasTransaction
<1>2. \A r \in AgentRuns : ~AtTool(r)' /\ ~Commanding(r)' /\ (AtTool(r) => pc[r] = "act")
  BY <1>1 DEF AtTool, Commanding, NoCall, CallsAreActs, InStage
<1>3. \A r \in AgentRuns : HasTransaction(r) \/ Commanding(r)
                           => (r \in holds /\ pc[r] = "act") \/ (pc[r] = "dead" /\ LockIsOrphaned)
  BY <1>2 DEF EffectsAreOwned, HoldersAreAtWork, AtTool
<1>4. \A r \in AgentRuns \cap holds : locked /\ holds = {r} /\ LockIsOrphaned'
  BY <1>1 DEF HoldersAreAtWork, LockIsOrphaned
<1>5. LockIsOrphaned => LockIsOrphaned'
  BY <1>1 DEF LockIsOrphaned
<1>6. WorkspaceTypeOK'
  BY <1>1 DEF WorkspaceTypeOK
<1>7. HoldersAreAtWork'
  BY <1>1, <1>2 DEF HoldersAreAtWork
<1>8. EffectsAreOwned'
  <2>1. \A r \in AgentRuns : HasTransaction(r) \/ Commanding(r) => pc'[r] = "dead" /\ LockIsOrphaned'
    BY <1>1, <1>3, <1>4, <1>5 DEF Steps
  <2>2. \A r \in AgentRuns : pc[r] = "dead" => pc'[r] = "dead"
    BY <1>1
  <2>3. processes \subseteq AgentRuns
    BY DEF TypeOK, ToolTypeOK
  <2>. QED BY <1>1, <1>5, <2>1, <2>2, <2>3 DEF EffectsAreOwned
<1>9. RootIsRecorded'
  <2>1. CASE \E r \in AgentRuns : r \in holds
    BY <1>1, <1>4, <2>1 DEF RootIsRecorded, At
  <2>2. CASE \A r \in AgentRuns : r \notin holds
    BY <1>1, <1>5, <2>2 DEF RootIsRecorded, At
  <2>. QED BY <2>1, <2>2
<1>. QED BY <1>6, <1>7, <1>8, <1>9

\* A process that writes leaves the lock as it is.
LEMMA CommandKeepsLock ==
    ASSUME LockInv, TypeOK, NEW r \in AgentRuns, CommandWrites(r), UNCHANGED runtimeVars
    PROVE  LockInv'
<1>1. /\ UNCHANGED <<locked, holds, staging, trash, areas, mgr, recorded, broken, call, backup, processes, pc>>
      /\ disk' = [disk EXCEPT !.file = "generated"]
  BY DEF CommandWrites, toolVars, runtimeVars
<1>2. disk' \in [root : BOOLEAN, file : Content, repo : Repository] /\ disk'.root = disk.root
  BY <1>1 DEF LockInv, WorkspaceTypeOK, Content
<1>. QED
  BY <1>1, <1>2 DEF LockInv, WorkspaceTypeOK, HoldersAreAtWork, EffectsAreOwned, RootIsRecorded, LockIsOrphaned,
                    AtTool, Commanding, HasTransaction, At

\* What a step about a run is, for the invariant and for the properties below.
RunMove(r) ==
    \/ LoopMove(r)
    \/ pc[r] = "act" /\ ~InStage(r, "replied") /\ CallMove(r) /\ ToolMove(r)
    \/ CommandWrites(r) /\ UNCHANGED runtimeVars
    \/ \E p \in {"revoked", "unscoped", "demoted"} : ChangePosture(r, p) /\ UNCHANGED runtimeVars

\* Every step is one of the kinds above.
LEMMA StepKinds ==
    ASSUME IInv, Next
    PROVE  \/ \E r \in AgentRuns : RunMove(r)
           \/ \E m \in Managers : ManagerMove(m)
           \/ WorkerDies
<1>. USE DEF IInv, RunsInv, LockInv
<1>0. TypeOK
  BY DEF TypeOK
<1>1. ASSUME NEW r \in AgentRuns, RunStep(r) \/ RunEvent(r)
      PROVE  RunMove(r)
  <2>1. CASE \/ LoopStep(r) \/ StepUnaudited(r)
             \/ \E cause \in {"timeout", "cancel"} : Interrupted(r, cause)
    BY <1>0, <2>1, LoopSteps DEF RunMove
  <2>2. CASE /\ \/ CallStep(r) \/ CallUnaudited(r)
                \/ \E cause \in {"profile", "tool", "timeout", "cancel"} : CommandInterrupted(r, cause)
                \/ \E cause \in {"timeout", "cancel"} : InterruptPending(r, cause)
             /\ UNCHANGED runtimeVars
    <3>1. ~InStage(r, "none") /\ ~InStage(r, "replied")
      BY <2>2 DEF CallStep, Admit, Authorized, Refused, Mutate, MutateFails, Read, GitRead, Reading,
                  StartCommand, CommandUnavailable, CommandExits, CommandStopped, AbandonCall, AuditSuccess,
                  AuditSuccessFails, CommitCall, CallUnaudited, CommandInterrupted, InterruptPending, InStage
    <3>2. pc[r] = "act"
      BY <3>1 DEF CallsAreActs, NoCall, InStage
    <3>3. CallMove(r)
      BY <1>0, <2>2, <3>1, <3>2, CallSteps
    <3>4. ToolMove(r)
      BY <1>0, <2>2, <3>2, <3>3, ToolSteps
    <3>. QED BY <3>1, <3>2, <3>3, <3>4 DEF RunMove
  <2>. QED BY <1>1, <2>1, <2>2 DEF RunStep, RunEvent, RunMove
<1>2. ASSUME NEW m \in Managers, ManagerStep(m) \/ ManagerEvent(m), UNCHANGED <<toolVars, runtimeVars>>
      PROVE  ManagerMove(m)
  BY <1>2, ManagerSteps
<1>. QED BY <1>1, <1>2 DEF Next

\* The invariant is inductive.
LEMMA NextInv == IInv /\ [Next]_vars => IInv'
<1>. SUFFICES ASSUME IInv, [Next]_vars PROVE IInv'
  OBVIOUS
<1>0. TypeOK /\ RunsInv /\ LockInv /\ CallsAreActs
  BY DEF IInv, RunsInv, LockInv, TypeOK
<1>1. ASSUME NEW r \in AgentRuns, LoopMove(r)
      PROVE  IInv'
  BY <1>0, <1>1, LoopKeepsRuns, LoopKeepsLock DEF IInv
<1>2. ASSUME NEW r \in AgentRuns, pc[r] = "act", ~InStage(r, "replied"), CallMove(r), ToolMove(r)
      PROVE  IInv'
  <2>1. pc' = pc /\ \A s \in AgentRuns \ {r} : call'[s] = call[s]
    BY <1>0, <1>2 DEF CallMove, runtimeVars, TypeOK, ToolTypeOK
  <2>. QED BY <1>0, <1>2, <2>1, CallKeepsRuns, CallKeepsLock DEF IInv
<1>3. ASSUME NEW r \in AgentRuns, CommandWrites(r), UNCHANGED runtimeVars
      PROVE  IInv'
  <2>1. RunsInv'
    BY <1>0, <1>3, OthersKeepRuns DEF CommandWrites, toolVars, TypeOK, ToolTypeOK
  <2>. QED BY <1>0, <1>3, <2>1, CommandKeepsLock DEF IInv
<1>4. ASSUME NEW r \in AgentRuns, NEW p \in {"revoked", "unscoped", "demoted"}, ChangePosture(r, p),
             UNCHANGED runtimeVars
      PROVE  IInv'
  <2>1. posture' \in [AgentRuns -> {"granted", "revoked", "unscoped", "demoted"}]
    BY <1>0, <1>4 DEF ChangePosture, TypeOK, ToolTypeOK
  <2>2. RunsInv'
    BY <1>0, <1>4, <2>1, OthersKeepRuns DEF ChangePosture
  <2>3. UNCHANGED <<workspaceVars, call, backup, processes, pc>>
    BY <1>4 DEF ChangePosture, runtimeVars
  <2>4. LockInv'
    BY <1>0, <2>3 DEF LockInv, WorkspaceTypeOK, HoldersAreAtWork, EffectsAreOwned, RootIsRecorded, LockIsOrphaned,
                      AtTool, Commanding, HasTransaction, At, workspaceVars
  <2>. QED BY <2>2, <2>4 DEF IInv
<1>5. ASSUME NEW m \in Managers, ManagerMove(m)
      PROVE  IInv'
  <2>1. RunsInv'
    BY <1>0, <1>5, OthersKeepRuns DEF ManagerMove, toolVars, TypeOK, ToolTypeOK
  <2>. QED BY <1>0, <1>5, <2>1, ManagersKeepLock DEF IInv
<1>6. ASSUME WorkerDies
      PROVE  IInv'
  BY <1>0, <1>6, DeathKeepsRuns, DeathKeepsLock DEF IInv
<1>7. CASE UNCHANGED vars
  <2>1. RunsInv'
    BY <1>0, <1>7, OthersKeepRuns DEF vars, toolVars, TypeOK, ToolTypeOK
  <2>2. LockInv'
    BY <1>0, <1>7 DEF LockInv, WorkspaceTypeOK, HoldersAreAtWork, EffectsAreOwned, RootIsRecorded, LockIsOrphaned,
                      AtTool, Commanding, HasTransaction, At, vars, workspaceVars, toolVars, runtimeVars
  <2>. QED BY <2>1, <2>2 DEF IInv
<1>. QED
  BY <1>1, <1>2, <1>3, <1>4, <1>5, <1>6, <1>7, StepKinds DEF RunMove

\* The invariant holds in every reachable state.
THEOREM Invariance == Spec => []IInv
<1>1. Init => IInv
  BY InitInv
<1>2. IInv /\ [Next]_vars => IInv'
  BY NextInv
<1>. QED BY <1>1, <1>2, PTL DEF Spec

-----------------------------------------------------------------------------
\* The properties

\* Every variable has its type in every reachable state.
THEOREM TypeCorrect == Spec => []TypeOK
<1>1. IInv => TypeOK
  BY DEF IInv, RunsInv, LockInv, TypeOK
<1>. QED BY <1>1, Invariance, PTL

\* The lock has one holder at most, who is at work, and what is in flight is
\* the holder's (acquire_lock and release_lock around every tool and every
\* manager operation).
THEOREM OneHolder == Spec => []LockProtects
<1>1. IInv => LockProtects
  <2>. SUFFICES ASSUME IInv PROVE LockProtects
    OBVIOUS
  <2>. USE DEF IInv, RunsInv, LockInv
  <2>1. Cardinality(holds) <= 1
    <3>1. CASE holds = {}
      <4>1. Cardinality(holds) = 0
        BY <3>1, FS_EmptySet, Zenon
      <4>. QED BY <4>1
    <3>2. CASE holds # {}
      <4>0. PICK a \in holds : TRUE
        BY <3>2
      <4>1. holds = {a}
        BY <4>0 DEF HoldersAreAtWork
      <4>2. Cardinality(holds) = 1
        BY <4>1, FS_Singleton, Zenon
      <4>. QED BY <4>2
    <3>. QED BY <3>1, <3>2
  <2>2. \A r \in AgentRuns : AtTool(r) => pc[r] = "act"
    BY DEF AtTool, Commanding, CallsAreActs, NoCall
  <2>3. \A r \in AgentRuns : Running(r) /\ HasTransaction(r) => r \in holds
    BY DEF Running, Steps, EffectsAreOwned, HoldersAreAtWork, AtTool
  <2>4. "file" \notin broken => \A r \in processes : r \in holds \/ pc[r] = "dead"
    BY DEF EffectsAreOwned, HoldersAreAtWork, AtTool, ToolTypeOK
  <2>. QED BY <2>1, <2>2, <2>3, <2>4 DEF LockProtects, HoldersAreAtWork, Working
<1>. QED BY <1>1, Invariance, PTL

\* A run that ended closed the rows of its calls and announced its end once,
\* unless a write or a compensation failed (ToolExecutor.execute and the
\* terminal events of AgentRuntime.run).
THEOREM RunsAccount == Spec => []EndedRunsAreAccounted
<1>1. IInv => EndedRunsAreAccounted
  BY DEF IInv, RunsInv, EndedRunsAreAccounted, RowsMatchCalls, CallsAreActs, Ended, Ends, NoCall, Underway
<1>. QED BY <1>1, Invariance, PTL

\* While nobody has the lock, the root is there exactly if the lifecycle audit
\* says so (LocalWorkspaceManager).
THEOREM RootsAreRecorded == Spec => []RecordedRootIsThere
<1>1. IInv => RecordedRootIsThere
  BY DEF IInv, LockInv, RecordedRootIsThere, RootIsRecorded, LockIsOrphaned, HoldersAreAtWork, At, Working
<1>. QED BY <1>1, Invariance, PTL

\* A run whose task was cancelled is cancelled, or on its way there
\* (record_cancellation, _stop_process and the rollback on CancelledError).
THEOREM CancellationIsFinal == Spec => []CancellationWins
<1>1. IInv => CancellationWins
  BY DEF IInv, RunsInv, CancellationWins, StopIsUnderWay, InStage
<1>. QED BY <1>1, Invariance, PTL

\* No step starts beyond RuntimeLimits (AgentRuntime.run).
THEOREM LimitsHold == Spec => []WithinLimits
<1>1. IInv => WithinLimits
  BY DEF IInv, RunsInv
<1>. QED BY <1>1, Invariance, PTL

\* A mutation in flight stays only if its call was audited as SUCCEEDED, or the
\* compensation itself failed (_LocalMutationTransaction, _commit, _rollback).
THEOREM EffectsAudited == Spec => EffectsAreAudited
<1>. DEFINE Audit == \A r \in AgentRuns :
          HasTransaction(r) /\ backup'[r] = NoBackup /\ "file" \notin broken'
              => IF InStage(r, "audited") THEN disk'.file = disk.file
                 ELSE disk'.file = backup[r]
<1>1. ASSUME IInv, [Next]_vars
      PROVE  [Audit]_vars
  <2>. SUFFICES ASSUME Next, NEW r \in AgentRuns, HasTransaction(r), backup'[r] = NoBackup,
                       "file" \notin broken'
                PROVE  IF InStage(r, "audited") THEN disk'.file = disk.file ELSE disk'.file = backup[r]
    BY <1>1
  <2>1. backup' # backup
    BY DEF HasTransaction
  <2>2. PICK s \in AgentRuns : ToolMove(s)
    BY <1>1, <2>1, StepKinds DEF RunMove, LoopMove, CommandWrites, ChangePosture, ManagerMove, WorkerDies, toolVars
  <2>3. /\ backup \in [AgentRuns -> Content \cup {NoBackup}]
        /\ disk \in [root : BOOLEAN, file : Content, repo : Repository]
    BY <1>1 DEF IInv, RunsInv, LockInv, ToolTypeOK, WorkspaceTypeOK
  <2>4. Gives(s) /\ s = r
    BY <2>1, <2>2, <2>3 DEF ToolMove, Keeps, Takes, Gives, HasTransaction
  <2>5. \/ disk' = disk /\ InStage(r, "audited")
        \/ InStage(r, "pending") /\ disk' = [disk EXCEPT !.file = backup[r]]
    BY <2>4 DEF Gives
  <2>. QED BY <2>3, <2>5 DEF InStage
<1>2. IInv /\ [Next]_vars => [Audit]_vars
  BY <1>1
<1>. QED BY <1>2, Invariance, PTL DEF Spec, EffectsAreAudited

\* Scope and grants come before autonomy and risk.
LEMMA DeveloperDenies ==
    ASSUME NEW c, NEW scoped \in BOOLEAN, NEW granted, NEW autonomy,
           ~scoped \/ ~(c.required \subseteq granted)
    PROVE  DeveloperPolicy(c, scoped, granted, autonomy) = "DENY"
BY DEF DeveloperPolicy

\* The policies deny a call whose grants or scope are gone.
LEMMA RevokedIsDenied ==
    ASSUME NEW r \in AgentRuns, posture[r] \in {"revoked", "unscoped"}
    PROVE  DecisionFor(r) = "DENY"
<1>. DEFINE c == RequestOf(r)
            scoped == posture[r] # "unscoped"
            granted == IF posture[r] = "revoked" THEN {} ELSE c.required
<1>1. c.required # {}
  BY DEF RequestOf
<1>2. ~scoped \/ (granted = {} /\ ~(c.required \subseteq granted))
  BY <1>1
<1>3. \A autonomy : DeveloperPolicy(c, scoped, granted, autonomy) = "DENY"
  BY <1>2, DeveloperDenies
<1>4. QAPolicy(c, scoped, granted) = "DENY"
  BY <1>2 DEF QAPolicy, QACapability
<1>5. SecurityPolicy(c, scoped, granted) = "DENY"
  BY <1>1, <1>2 DEF SecurityPolicy
<1>. QED BY <1>3, <1>4, <1>5 DEF DecisionFor

\* A call whose grants or scope are gone is not authorized.
LEMMA RevokedNotAuthorized ==
    ASSUME NEW r \in AgentRuns, ToolTypeOK, posture[r] \in {"revoked", "unscoped"}, Admit(r)
    PROVE  call'[r].stage # "run"
<1>1. CASE call[r].tool \notin ToolsOf[r]
  BY <1>1 DEF Admit, Refused, Reply, ToolTypeOK
<1>2. CASE call[r].tool \in ToolsOf[r]
  <2>1. PICK answer \in Evaluate(RequestOf(r), DecisionFor(r)) :
           CASE answer = "ALLOW" -> Authorized(r) \/ Refused(r, "failed")
             [] answer = "ASK"   -> Refused(r, "approval")
             [] answer = "DENY"  -> Refused(r, "denied")
             [] OTHER            -> Fails("audit") /\ Refused(r, "failed")
    BY <1>2 DEF Admit
  <2>2. answer \in {"DENY", "error"}
    BY RevokedIsDenied DEF Evaluate, Audited
  <2>3. \E reply : Refused(r, reply)
    BY <2>1, <2>2
  <2>. QED BY <2>3 DEF Refused, Reply, ToolTypeOK
<1>. QED BY <1>1, <1>2

\* No tool is authorized for a run whose grants or scope are gone at the moment
\* of the call (PermissionEngine.evaluate inside ToolExecutor.execute).
THEOREM RevokedRefused == Spec => RevokedRunsAreRefused
<1>. DEFINE Refusal == \A r \in AgentRuns :
          InStage(r, "begin") /\ posture[r] \in {"revoked", "unscoped"} => call'[r].stage # "run"
<1>1. ASSUME IInv, [Next]_vars
      PROVE  [Refusal]_vars
  <2>. SUFFICES ASSUME Next, NEW r \in AgentRuns, InStage(r, "begin"), posture[r] \in {"revoked", "unscoped"}
                PROVE  call'[r].stage # "run"
    BY <1>1
  <2>. USE <1>1 DEF IInv, RunsInv
  <2>1. CASE call'[r] = call[r]
    BY <2>1 DEF InStage
  <2>2. CASE WorkerDies
    BY <2>2 DEF WorkerDies, NoCall
  <2>3. CASE \E m \in Managers : ManagerMove(m)
    BY <2>1, <2>3 DEF ManagerMove, toolVars
  <2>4. ASSUME NEW s \in AgentRuns, RunMove(s)
        PROVE  call'[r].stage # "run"
    <3>1. pc[r] = "act"
      BY DEF CallsAreActs, InStage, NoCall
    <3>2. CASE s # r
      BY <2>1, <2>4, <3>2 DEF RunMove, LoopMove, Recalled, CallMove, CommandWrites, ChangePosture, toolVars, ToolTypeOK
    <3>3. CASE s = r /\ CallMove(r)
      <4>1. Admit(r) \/ CallUnaudited(r)
        BY <3>3 DEF CallMove
      <4>2. CASE CallUnaudited(r)
        BY <4>2 DEF CallUnaudited, Reply, ToolTypeOK
      <4>3. CASE Admit(r)
        BY <4>3, RevokedNotAuthorized
      <4>. QED BY <4>1, <4>2, <4>3
    <3>. QED BY <2>1, <2>4, <3>1, <3>2, <3>3 DEF RunMove, LoopMove, CommandWrites, ChangePosture, InStage, toolVars
  <2>. QED BY <2>2, <2>3, <2>4, StepKinds
<1>2. IInv /\ [Next]_vars => [Refusal]_vars
  BY <1>1
<1>. QED BY <1>2, Invariance, PTL DEF Spec, RevokedRunsAreRefused

-----------------------------------------------------------------------------
\* The refinement of ExclusiveWriter

\* Settled and Writer before and after a step: CHOOSE picks the one run with a
\* transaction, and the one holder.
LEMMA SettledIs ==
    ASSUME \A r, s \in AgentRuns : HasTransaction(r) /\ HasTransaction(s) => r = s
    PROVE  /\ \A r \in AgentRuns : HasTransaction(r) => Settled = [disk EXCEPT !.file = backup[r]]
           /\ (\A r \in AgentRuns : ~HasTransaction(r)) => Settled = disk
<1>1. ASSUME NEW r \in AgentRuns, HasTransaction(r)
      PROVE  Settled = [disk EXCEPT !.file = backup[r]]
  <2>1. (CHOOSE x \in AgentRuns : HasTransaction(x)) = r
    BY <1>1
  <2>. QED BY <1>1, <2>1 DEF Settled
<1>2. ASSUME \A r \in AgentRuns : ~HasTransaction(r)
      PROVE  Settled = disk
  BY <1>2 DEF Settled
<1>. QED BY <1>1, <1>2

\* The same of the state after the step
LEMMA SettledNext ==
    ASSUME \A r, s \in AgentRuns : HasTransaction(r)' /\ HasTransaction(s)' => r = s
    PROVE  /\ \A r \in AgentRuns : HasTransaction(r)' => Settled' = [disk' EXCEPT !.file = backup'[r]]
           /\ (\A r \in AgentRuns : ~HasTransaction(r)') => Settled' = disk'
<1>1. ASSUME NEW r \in AgentRuns, HasTransaction(r)'
      PROVE  Settled' = [disk' EXCEPT !.file = backup'[r]]
  <2>1. (CHOOSE x \in AgentRuns : HasTransaction(x)') = r
    BY <1>1
  <2>. QED BY <1>1, <2>1 DEF Settled
<1>2. ASSUME \A r \in AgentRuns : ~HasTransaction(r)'
      PROVE  Settled' = disk'
  BY <1>2 DEF Settled
<1>. QED BY <1>1, <1>2

\* The writer is the holder, nobody, or a dead one.
LEMMA WriterIs ==
    /\ ~locked => Writer = Nobody
    /\ LockIsOrphaned => Writer = Orphaned
    /\ \A a \in Actors : locked /\ holds = {a} => Writer = a
<1>1. ASSUME NEW a \in Actors, locked, holds = {a}
      PROVE  Writer = a
  <2>1. (CHOOSE x \in Actors : x \in holds) = a
    BY <1>1
  <2>. QED BY <1>1, <2>1 DEF Writer
<1>. QED BY <1>1 DEF Writer, LockIsOrphaned

\* The same of the state after the step
LEMMA WriterNext ==
    /\ ~locked' => Writer' = Nobody
    /\ LockIsOrphaned' => Writer' = Orphaned
    /\ \A a \in Actors : locked' /\ holds' = {a} => Writer' = a
<1>1. ASSUME NEW a \in Actors, locked', holds' = {a}
      PROVE  Writer' = a
  <2>1. (CHOOSE x \in Actors : x \in holds') = a
    BY <1>1
  <2>. QED BY <1>1, <2>1 DEF Writer
<1>. QED BY <1>1 DEF Writer, LockIsOrphaned

\* Whoever is in holds is the writer.
LEMMA HolderIsWriter ==
    ASSUME WorkspaceTypeOK, HoldersAreAtWork, NEW a \in holds
    PROVE  locked /\ holds = {a} /\ a \in Actors /\ Writer = a
<1>1. locked /\ holds = {a} /\ a \in Actors
  BY DEF WorkspaceTypeOK, HoldersAreAtWork
<1>. QED BY <1>1, WriterIs

\* The step of the abstract specification that a step inside a call is.
LEMMA ToolRefines ==
    ASSUME IInv, NEW r \in AgentRuns, ToolMove(r)
    PROVE  [Worktree!Next]_<<Settled, Writer, "file" \in broken>>
<1>. USE DEF IInv, RunsInv, LockInv
<1>0. r \in Actors
  BY DEF Actors
<1>1. CASE Keeps(r)
  BY <1>1 DEF Keeps, Settled, Writer, HasTransaction
<1>2. CASE Takes(r)
  <2>1. ~locked /\ holds = {} /\ locked' /\ holds' = {r}
    BY <1>2 DEF Takes, AcquireLock, HoldersAreAtWork
  <2>2. Writer = Nobody /\ Writer' = r
    BY <1>0, <2>1, WriterIs, WriterNext
  <2>3. UNCHANGED ("file" \in broken)
    BY <1>2 DEF Takes
  <2>. QED BY <1>0, <2>2, <2>3 DEF Worktree!Next, Worktree!Begin
<1>3. CASE Gives(r)
  <2>1. r \in holds /\ locked' = FALSE
    BY <1>3 DEF Gives, ReleaseLock, HoldersAreAtWork
  <2>2. Writer = r /\ Writer' = Nobody
    BY <2>1, HolderIsWriter, WriterNext
  <2>3. ("file" \in broken)' \in {"file" \in broken, TRUE}
    BY <1>3 DEF Gives
  <2>. QED BY <1>0, <2>2, <2>3 DEF Worktree!Next, Worktree!Finish
<1>. QED BY <1>1, <1>2, <1>3 DEF ToolMove

\* A process that writes is the writer's, a dead writer's, or a stray of one
\* that said so.
LEMMA CommandRefines ==
    ASSUME IInv, NEW r \in AgentRuns, CommandWrites(r)
    PROVE  [Worktree!Next]_<<Settled, Writer, "file" \in broken>>
<1>. USE DEF IInv, RunsInv, LockInv
<1>1. Writer' = Writer /\ ("file" \in broken)' = ("file" \in broken)
  BY DEF CommandWrites, Writer
<1>2. CASE "file" \in broken
  BY <1>1, <1>2 DEF Worktree!Next, Worktree!Torn
<1>3. CASE Commanding(r)
  <2>1. r \in holds /\ r \in Actors
    BY <1>3 DEF HoldersAreAtWork, AtTool, Actors
  <2>. QED BY <1>1, <2>1, HolderIsWriter DEF Worktree!Next, Worktree!Work
<1>4. CASE LockIsOrphaned
  BY <1>1, <1>4, WriterIs DEF Worktree!Next, Worktree!Orphan
<1>. QED BY <1>2, <1>3, <1>4 DEF CommandWrites, EffectsAreOwned

\* The manager is a writer like the others.
LEMMA ManagerRefines ==
    ASSUME IInv, NEW m \in Managers, ManagerMove(m)
    PROVE  [Worktree!Next]_<<Settled, Writer, "file" \in broken>>
<1>. USE DEF IInv, RunsInv, LockInv
<1>1. UNCHANGED backup /\ ("file" \in broken)' = ("file" \in broken) /\ m \in Actors
  BY DEF ManagerMove, toolVars, Actors
<1>2. mgr[m] \in Working => m \in holds /\ Writer = m /\ holds = {m} /\ locked
  BY HolderIsWriter DEF HoldersAreAtWork
<1>3. CASE UNCHANGED <<locked, holds, disk>>
  BY <1>1, <1>3 DEF Settled, Writer, HasTransaction
<1>4. CASE AcquireLock(m)
  <2>1. ~locked /\ holds = {} /\ locked' /\ holds' = {m}
    BY <1>4 DEF AcquireLock, HoldersAreAtWork
  <2>. QED BY <1>1, <2>1, WriterIs, WriterNext DEF Worktree!Next, Worktree!Begin
<1>5. CASE mgr[m] \in Working /\ UNCHANGED <<locked, holds>>
  <2>1. Writer' = Writer
    BY <1>5 DEF Writer
  <2>. QED BY <1>1, <1>2, <1>5, <2>1 DEF Worktree!Next, Worktree!Work
<1>6. CASE mgr[m] \in Working /\ ReleaseLock(m)
  <2>1. locked' = FALSE
    BY <1>2, <1>6 DEF ReleaseLock
  <2>. QED BY <1>1, <1>2, <1>6, <2>1, WriterNext DEF Worktree!Next, Worktree!Finish
<1>7. CASE mgr[m] \in Working /\ holds' = holds \ {m} /\ UNCHANGED <<locked, disk>>
  <2>1. LockIsOrphaned'
    BY <1>2, <1>7 DEF LockIsOrphaned
  <2>2. Settled' = Settled
    BY <1>1, <1>7 DEF Settled, HasTransaction
  <2>. QED BY <1>1, <1>2, <1>7, <2>1, <2>2, WriterNext DEF Worktree!Next, Worktree!Die
<1>. QED BY <1>3, <1>4, <1>5, <1>6, <1>7 DEF ManagerMove

\* The worker dies with the lock, or without it.
LEMMA DeathRefines ==
    ASSUME IInv, WorkerDies
    PROVE  [Worktree!Next]_<<Settled, Writer, "file" \in broken>>
<1>. USE DEF IInv, RunsInv, LockInv
<1>1. /\ UNCHANGED <<locked, disk, broken, backup>> /\ holds' = holds \ AgentRuns
      /\ Settled' = Settled /\ ("file" \in broken)' = ("file" \in broken)
  BY DEF WorkerDies, Settled, HasTransaction
<1>2. CASE \E r \in AgentRuns : r \in holds
  <2>1. PICK r \in AgentRuns : r \in holds
    BY <1>2
  <2>2. Writer = r /\ r \in Actors /\ LockIsOrphaned'
    BY <1>1, <2>1, HolderIsWriter DEF LockIsOrphaned
  <2>. QED BY <1>1, <2>2, WriterNext DEF Worktree!Next, Worktree!Die
<1>3. CASE \A r \in AgentRuns : r \notin holds
  <2>1. UNCHANGED <<locked, holds>>
    BY <1>1, <1>3
  <2>2. Writer' = Writer
    BY <2>1 DEF Writer
  <2>. QED BY <1>1, <2>2
<1>. QED BY <1>2, <1>3

\* The project lock gives the worktree one writer at a time: ToolRuntime
\* implements ExclusiveWriter.
THEOREM WorkspaceRefinement == Spec => WorkspaceHasOneWriter
<1>1. Init => Worktree!Init
  BY WriterIs DEF Init, WorkspaceInit, Worktree!Init
<1>2. IInv /\ [Next]_vars => [Worktree!Next]_<<Settled, Writer, "file" \in broken>>
  <2>. SUFFICES ASSUME IInv, [Next]_vars PROVE [Worktree!Next]_<<Settled, Writer, "file" \in broken>>
    OBVIOUS
  <2>1. CASE UNCHANGED <<locked, holds, disk, broken, backup>>
    BY <2>1 DEF Settled, Writer, HasTransaction
  <2>2. ASSUME NEW r \in AgentRuns, RunMove(r)
        PROVE  [Worktree!Next]_<<Settled, Writer, "file" \in broken>>
    BY <2>1, <2>2, ToolRefines, CommandRefines DEF RunMove, LoopMove, ChangePosture, workspaceVars
  <2>3. CASE UNCHANGED vars
    BY <2>1, <2>3 DEF vars, workspaceVars, toolVars
  <2>. QED BY <2>2, <2>3, StepKinds, ManagerRefines, DeathRefines
<1>. QED BY <1>1, <1>2, Invariance, PTL DEF Spec, WorkspaceHasOneWriter, Worktree!Spec
=============================================================================
