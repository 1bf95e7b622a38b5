SPECIFICATION MCSpec
CONSTANTS
    e1 = e1
    e2 = e2
    e3 = e3
    s1 = s1
    s2 = s2
    Executions = {e1, e2, e3}
    Scans = {s1, s2}
    ScanOf <- MCScanOf
    Fingerprints = {f1, f2}
    MaxTimeouts = 1
    Runs = {r1, r2}
    Browses = {b1, b2}
    First = r1
    None = None
    MayFail = TRUE
INVARIANTS SightingsHaveHistory ExecutionIsRecorded CronRowsTell
PROPERTIES ExecutionsEnd EveryBrowseAnswered PageSettles
CHECK_DEADLOCK FALSE
