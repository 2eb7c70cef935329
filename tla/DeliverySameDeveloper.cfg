\* Three Developer runs, two of which name the same Developer, a QA run and a Security
\* run of that Developer's work, people handing the task back and on.  A caller that
\* keeps its session open makes others roll back and lose escalations: these two
\* faults stand for it here.
SPECIFICATION FairSpec
CONSTANTS
    d1 = d1
    d2 = d2
    d3 = d3
    q1 = q1
    q2 = q2
    s1 = s1
    s2 = s2
    alice = alice
    bob = bob
    c1 = c1
    c2 = c2
    DevRuns = {d1, d2, d3}
    QARuns = {q1}
    SecRuns = {s1}
    NoRun = NoRun
    Developers = {alice, bob}
    NoAgent = NoAgent
    DeveloperOf <- SharedDeveloper
    Faults = {"rolledBack", "lostAck", "escalationLost", "interrupt"}
    MaxCycles = 1
    QAClaims = {c1}
    QAClaimOf <- RetriedQA
    SecClaims = {s1}
    SecClaimOf <- OwnSec
    MaxMoves = 2
INVARIANTS
    EvidenceIsCurrent
    NeverAbandoned
PROPERTIES
    OnlyOwnerCommits
    OnlyOvertakenQAIsStale
    DeliveryLeavesDevelopment
CHECK_DEADLOCK FALSE
