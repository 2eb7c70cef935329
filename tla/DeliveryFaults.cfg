\* Two runs of each stage for one Developer, two review cycles, every fault, people
\* moving the task.  The QA runs retry one claim, each Security run has its own.
SPECIFICATION Spec
CONSTANTS
    d1 = d1
    d2 = d2
    d3 = d3
    q1 = q1
    q2 = q2
    s1 = s1
    s2 = s2
    alice = alice
    bob = bob
    c1 = c1
    c2 = c2
    DevRuns = {d1, d2}
    QARuns = {q1, q2}
    SecRuns = {s1, s2}
    NoRun = NoRun
    Developers = {alice, bob}
    NoAgent = NoAgent
    DeveloperOf <- SameDeveloper
    Faults = {"rolledBack", "lostAck", "escalationLost", "interrupt", "openSession"}
    MaxCycles = 2
    QAClaims = {c1}
    QAClaimOf <- RetriedQA
    SecClaims = {s1, s2}
    SecClaimOf <- OwnSec
    MaxMoves = 2
SYMMETRY StageSymmetry
INVARIANTS
    TypeOK
    ClaimsMatched
    OneOpenSecurityClaim
PROPERTIES
    ImplementsLifecycle
    ParkedStaysParked
CHECK_DEADLOCK FALSE
