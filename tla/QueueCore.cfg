SPECIFICATION FairSpec
CONSTANTS
    r1 = r1  r2 = r2  r3 = r3
    t1 = t1  t2 = t2
    Runs = {r1, r2, r3}
    Tasks = {t1, t2}
    Workers = {w1, w2}
    TaskOf <- SharedTask
    NoWorker = NoWorker  NoRun = NoRun
    MaxSize = 3
    MaxAttempts = 2
    Events = {"cancel", "retry", "timeout"}
    MaxDisturbances = 0
INVARIANT
    EveryRunInOnePlace
PROPERTIES
    ImplementsLifecycle
    EveryRunEnds
CHECK_DEADLOCK FALSE
