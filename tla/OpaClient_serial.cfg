CONSTANTS
    c1 = c1  c2 = c2  c3 = c3  c4 = c4
    None = None
    Callers = {c1, c2, c3, c4}
    Threshold = 2
    Cooldown = 1
    MaxRetries = 1
    Horizon = 1
    Shared = FALSE
SPECIFICATION Spec
SYMMETRY Symmetry
INVARIANT CountersTellState
PROPERTY ImplementsBreaker
CHECK_DEADLOCK FALSE
