\* Two QA claims; the task comes back to WAITING_QA with new work.
SPECIFICATION Spec
CONSTANTS
    d1 = d1
    d2 = d2
    d3 = d3
    q1 = q1
    q2 = q2
    s1 = s1
    s2 = s2
    alice = alice
    bob = bob
    c1 = c1
    c2 = c2
    DevRuns = {d1, d2}
    QARuns = {q1, q2}
    SecRuns = {s1}
    NoRun = NoRun
    Developers = {alice, bob}
    NoAgent = NoAgent
    DeveloperOf <- SameDeveloper
    Faults = {}
    MaxCycles = 1
    QAClaims = {c1, c2}
    QAClaimOf <- DistinctQA
    SecClaims = {s1}
    SecClaimOf <- OwnSec
    MaxMoves = 3
PROPERTIES
    NoStaleQAVerdict
CHECK_DEADLOCK FALSE
