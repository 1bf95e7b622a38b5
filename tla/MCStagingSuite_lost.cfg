SPECIFICATION Spec
CONSTANTS
    t1 = t1
    t2 = t2
    t3 = t3
    q1 = q1
    SubBatches <- MCSubBatches
    PanelAdmin <- MCPanelAdmin
    Quarantined = {q1}
    Requested <- MCRequested
INVARIANT FailsWithoutResults
CHECK_DEADLOCK FALSE
