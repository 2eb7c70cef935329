SPECIFICATION Spec
CONSTANTS
    r1 = r1  r2 = r2  r3 = r3
    t1 = t1  t2 = t2
    Runs = {r1, r2}
    Tasks = {t1, t2}
    Workers = {w1, w2}
    TaskOf <- SharedTask
    NoWorker = NoWorker  NoRun = NoRun
    MaxSize = 1
    MaxAttempts = 2
    Events = {"cancel", "retry", "timeout", "kill", "stop", "recover"}
    MaxDisturbances = 2
INVARIANTS
    TypeOK
    TaskExclusion
PROPERTIES
    CancelledBeforeStartNeverRuns
CHECK_DEADLOCK FALSE
