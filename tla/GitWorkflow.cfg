SPECIFICATION Spec
CONSTANTS
    w1 = w1  w2 = w2
    Instances = {w1, w2}
    TaskBranches = {"a", "b"}
    Base = "main"
    Contents = {"base", "safe", "other", "secret"}
    Pristine = "base"
    Numstat <- LineCounts
    Outsider = Outsider
    Secrets = {"secret"}
    Grants <- ActorGrants
    Faults = {"interrupt", "audit", "crash"}
    MaxCommits = 4
    MaxMeddling = 2
    BranchesOf <- ActorBranches
    CallsOf <- ActorCalls
INVARIANTS
    TypeOK
    ReportedCommitIsOwn
    CommitsLandOnTheirBranch
    IndexSettles
    PassDescribesItsHead
CHECK_DEADLOCK FALSE
