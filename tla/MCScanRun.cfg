SPECIFICATION FairSpec
CONSTANTS
    Scans = {s1}
    Workers = {w1, w2}
    Requests = {q1}
    Findings = {f1}
    NoScan = NoScan
    NoWorker = NoWorker
    MaxStalledCount = 1
    MaxCrashes = 2
    MaxLockLosses = 1
    MaxFaults = 1
CHECK_DEADLOCK FALSE
INVARIANTS ExecutorOwnsJob NoOrphan CheckoutReleased StartedOnce
PROPERTIES CompletedIsBacked EventuallyOver AbortLeavesNoTrace
