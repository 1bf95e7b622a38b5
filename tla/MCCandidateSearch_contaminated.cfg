SPECIFICATION Spec
CONSTANTS
    Pool <- MCPool
    EngineersOnly = 2
    Wrong = 1
    MaxFaults = 1
INVARIANT NothingContaminated
CHECK_DEADLOCK FALSE
