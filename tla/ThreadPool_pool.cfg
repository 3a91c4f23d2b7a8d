CONSTANTS
    r1 = r1  r2 = r2  r3 = r3  r4 = r4
    None = None
    Reqs = {r1, r2, r3, r4}
    Endpoint <- Mixed
    Threads = 3
SPECIFICATION FairSpec
INVARIANT TypeOK
INVARIANT LockHeldAcrossJobs
INVARIANT NeverWedged
PROPERTY EveryRequestServed
CHECK_DEADLOCK FALSE
