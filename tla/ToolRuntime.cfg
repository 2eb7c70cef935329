SPECIFICATION Spec
CONSTANTS
    dev = dev  dev2 = dev2  qa = qa  sec = sec  m1 = m1  m2 = m2
    AgentRuns = {dev, dev2, qa, sec}
    Managers = {m1, m2}
    Nobody = Nobody  Orphaned = Orphaned  NoBackup = NoBackup
    Faults = {"disk", "audit", "overgrown", "cancel", "crash", "stray"}
    RoleOf <- Roles
    ToolsOf <- DeclaredTools
    AutonomyOf <- Autonomy
    LimitsOf <- Limits
    Casts <- SmallCasts
INVARIANTS
    TypeOK
    LockProtects
    EndedRunsAreAccounted
    RecordedRootIsThere
    CancellationWins
    WithinLimits
PROPERTIES
    WorkspaceHasOneWriter
    EffectsAreAudited
    RevokedRunsAreRefused
CHECK_DEADLOCK FALSE
