SPECIFICATION Spec
CONSTANTS
    a1 = a1  a2 = a2  c1 = c1  c2 = c2
    Nil = Nil
    OldHead = OldHead
    NewHead = NewHead
    Profiles = {"pytest", "npm-test"}
    Domains = {"backend", "frontend"}
    Workstreams = {"w1", "w2"}
    Unknown = "w9"
    MaxPerDomain = 1
    RankedAgents <- TwoAgents
    RankedRequests <- Requests
    MatchLimit = 1
    MaxHistory = 3
    MaxFindings = 1
    MaxLapses = 2
    MaxRecords = 2
    Team = {a1, a2}
    Closers = {c1, c2}
    Own = c1
INVARIANTS
    TypeOK
    PlanIsSettled
    LedgerAgrees
    VerdictsRestOnEvidence
    MergeWasApproved
    AuditTellsTheRun
PROPERTIES
    ClosesOnce
CHECK_DEADLOCK FALSE
