SPECIFICATION Spec
CONSTANTS
    p1 = p1
    p2 = p2
    p3 = p3
    lock = lock
    code = code
    Plugins = {p1, p2, p3}
    Files = {lock, code}
    GlobFiles <- MCGlobFiles
    WritesMayFail = TRUE
CHECK_DEADLOCK FALSE
INVARIANT AbortStopsEveryPlugin
