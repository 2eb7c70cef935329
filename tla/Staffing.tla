------------------------------ MODULE Staffing ------------------------------
(***************************************************************************)
(* Matching workstreams to company agents and scheduling them over several *)
(* projects: AgentMatcher, ProjectScheduler (core/agent_registry,          *)
(* core/scheduling).  The candidates are registry snapshots the caller     *)
(* took earlier: what they say of an agent may be out of date.             *)
(***************************************************************************)
EXTENDS EngineeringStage, SequencesExt

CONSTANTS
    RankedAgents,    \* company agents in the order the matching score gives
    RankedRequests,  \* assignment requests in scheduling order: by priority,
                     \* then project, then task
    MatchLimit,      \* matches retained for one request
    MaxHistory       \* bound: assignments in one scheduler's history

VARIABLES
    active,          \* _active_by_agent: the active assignment of an agent
    history          \* _history: every assignment made, in order

staffingVars == <<active, history>>

Agents == ToSet(RankedAgents)
Projects == {RankedRequests[i].project : i \in DOMAIN RankedRequests}
Tasks == {RankedRequests[i].task : i \in DOMAIN RankedRequests}

Assignments ==
    [agent : Agents, project : Projects, task : Tasks, id : Nat, status : {"ACTIVE", "RELEASED"}]

ASSUME StaffingAssumption ==
    /\ RankedAgents \in Seq(Agents)
    /\ RankedRequests \in Seq([project : Projects, task : Tasks])
    /\ MatchLimit \in Nat \ {0} /\ MaxHistory \in Nat
    /\ Nil \notin Assignments

InitStaffing ==
    /\ active = [a \in Agents |-> Nil]
    /\ history = <<>>

\* What keeps a candidate from a request: availability, capabilities,
\* permissions, autonomy, seniority or a missing estimate; one reason stands
\* for all of them.
Rejections == {{}, {"rejected"}}

\* AgentMatcher.match: the ranks of the candidates without a rejection reason,
\* the best of them as far as the request's limit.
Matches(reasons) ==
    LET fit == {i \in DOMAIN RankedAgents : reasons[RankedAgents[i]] = {}}
    IN  {i \in fit : Cardinality({j \in fit : j <= i}) <= MatchLimit}

Claimed(assignments) == {a \in Agents : assignments[a] # Nil}

Assignment(agent, request, id) ==
    [agent |-> agent, project |-> request.project, task |-> request.task, id |-> id,
     status |-> "ACTIVE"]

\* A new assignment of the best of some ranked agents
Assign(state, request, ranks) ==
    LET new == Assignment(RankedAgents[Min(ranks)], request, Len(state.history))
    IN  [active  |-> [state.active EXCEPT ![new.agent] = new],
         history |-> Append(state.history, new)]

\* Mutant: the best match gets the task, claimed or not.
PlaceClaimed(state, request, reasons) ==
    IF Matches(reasons) = {} THEN state ELSE Assign(state, request, Matches(reasons))

\* One request of a scheduling pass: the best match nobody has claimed, or
\* no assignment at all.
Place(state, request, reasons) ==
    LET free == {i \in Matches(reasons) : RankedAgents[i] \notin Claimed(state.active)}
    IN  IF free = {} THEN state ELSE Assign(state, request, free)

\* ProjectScheduler.schedule over some requests, in scheduling order.
Schedule ==
    \E wanted \in SUBSET DOMAIN RankedRequests,
       reasons \in [Projects -> [Agents -> Rejections]] :
        LET after[n \in 0..Len(RankedRequests)] ==
                IF n = 0 THEN [active |-> active, history |-> history]
                ELSE IF n \notin wanted THEN after[n - 1]
                ELSE Place(after[n - 1], RankedRequests[n], reasons[RankedRequests[n].project])
            placed == after[Len(RankedRequests)]
        IN  /\ Len(placed.history) <= MaxHistory
            /\ active' = placed.active
            /\ history' = placed.history
            /\ UNCHANGED <<returned, work, events, lapses>>

\* Mutant: released assignments disappear from the history.
ReleaseForgets(p) ==
    LET freed == {a \in Agents : active[a] # Nil /\ active[a].project = p}
    IN  /\ freed # {}
        /\ active' = [a \in Agents |-> IF a \in freed THEN Nil ELSE active[a]]
        /\ history' = SelectSeq(history, LAMBDA h : \A a \in freed : active[a] # h)
        /\ UNCHANGED <<returned, work, events, lapses>>

\* ProjectScheduler.release_project: the active assignments of the project
\* end and are marked so in the history.
ReleaseProject(p) ==
    LET freed == {a \in Agents : active[a] # Nil /\ active[a].project = p}
    IN  /\ freed # {}
        /\ active' = [a \in Agents |-> IF a \in freed THEN Nil ELSE active[a]]
        /\ history' = [i \in DOMAIN history |->
              IF \E a \in freed : active[a] = history[i]
              THEN [history[i] EXCEPT !.status = "RELEASED"] ELSE history[i]]
        /\ UNCHANGED <<returned, work, events, lapses>>

\* The stage's operation has its assignments, or none were possible.
StaffingDone ==
    /\ Answer
    /\ UNCHANGED <<active, history, work, events, lapses>>

\* The scheduler's two records tell one story however passes and releases
\* alternate: an agent has at most one active entry in the history, and it is
\* the very assignment the scheduler holds the agent for.  An agent assigned
\* twice, or freed in one record only, breaks it.
LedgerAgrees ==
    /\ \A i, j \in DOMAIN history :
          /\ i # j
          /\ history[i].status = "ACTIVE" /\ history[j].status = "ACTIVE"
          => history[i].agent # history[j].agent
    /\ \A a \in Agents : active[a] # Nil =>
          \E i \in DOMAIN history : history[i] = active[a]
    /\ \A i \in DOMAIN history :
          history[i].status = "ACTIVE" => active[history[i].agent] = history[i]
=============================================================================
