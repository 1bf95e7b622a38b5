SPECIFICATION MCSpec
CONSTANTS
    p1 = p1
    p2 = p2
    p3 = p3
    lock = lock
    code = code
    Plugins = {p1, p2, p3}
    Files = {lock, code}
    GlobFiles <- MCGlobFiles
    WritesMayFail = TRUE
    t1 = t1
    t2 = t2
    SubBatches <- MCSubBatches
    PanelAdmin <- MCPanelAdmin
    Quarantined = {q1}
    Requested <- MCRequested
    u1 = u1
    u2 = u2
    u3 = u3
    SourceFiles <- MCSourceFiles
    Typed = {u2, u3}
    Cap = 2
    MaxAttempts = 2
    MaxRuns = 2
    MaxEdits = 1
    Names = {"f", "g"}
    MaxStatements = 3
    Paths <- MCPaths
    Prefixes <- MCPrefixes
    MaxLines = 3
INVARIANTS NothingLeftRunning ProgressAddsUp RowsAreTrue NothingFlushedIsLost
INVARIANTS FreshOutput SignaturesAreTheExports GateIsHonest
PROPERTIES EnginesEnd
CHECK_DEADLOCK FALSE
