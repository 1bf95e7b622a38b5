SPECIFICATION Spec
CONSTANTS
    Runs = {r1, r2}
    First = r1
    None = None
    MayFail = FALSE
INVARIANT FullResultShown
CHECK_DEADLOCK FALSE
