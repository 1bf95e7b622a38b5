SPECIFICATION Spec
CONSTANTS
    Scans = {s1}
    Workers = {w1}
    Requests = {q1}
    Findings = {f1, f2}
    NoScan = NoScan
    NoWorker = NoWorker
    MaxStalledCount = 1
    MaxCrashes = 0
    MaxLockLosses = 0
    MaxFaults = 0
CHECK_DEADLOCK FALSE
INVARIANT CancelledNotPersisted
