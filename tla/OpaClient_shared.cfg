CONSTANTS
    c1 = c1  c2 = c2  c3 = c3  c4 = c4
    None = None
    Callers = {c1, c2}
    Threshold = 1
    Cooldown = 1
    MaxRetries = 1
    Horizon = 2
    Shared = TRUE
SPECIFICATION FairSpec
INVARIANT TypeOK
INVARIANT DecisionIsOwnAnswer
INVARIANT RetriesOnlyUnreached
INVARIANT OpenIsJustified
PROPERTY EveryCallEnds
CHECK_DEADLOCK FALSE
