CONSTANTS
    c1 = c1  c2 = c2  c3 = c3  c4 = c4
    None = None
    Callers = {c1, c2, c3}
    Threshold = 1
    Cooldown = 1
    MaxRetries = 0
    Horizon = 1
    Shared = TRUE
SPECIFICATION Spec
SYMMETRY Symmetry
INVARIANT RacesResolveToDecisions
CHECK_DEADLOCK FALSE
