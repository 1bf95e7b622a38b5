SPECIFICATION FairSpec
CONSTANTS
    u1 = u1
    c1 = c1
    NoRun = NoRun
    Runs = {u1, c1}
    KindOf <- MCKindOf
    Requests = {q1}
    MaxStalledCount = 1
    MaxTroubles = 2
CHECK_DEADLOCK FALSE
INVARIANTS CompletedIsWhole NoOrphan
PROPERTIES LifecycleWhileCalm EveryRunEnds KeyLeavesRedis
