CONSTANTS
    r1 = r1  r2 = r2  r3 = r3  r4 = r4
    None = None
    Reqs = {r1, r2, r3}
    Endpoint <- Checks
    Threads = 2
SPECIFICATION FairSpec
PROPERTY EveryRequestServed
CHECK_DEADLOCK FALSE
