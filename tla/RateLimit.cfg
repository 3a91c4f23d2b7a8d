CONSTANTS
    c1 = c1  c2 = c2  c3 = c3  c4 = c4
    org1 = org1  org2 = org2
    None = None
    Callers = {c1, c2, c3, c4}
    Orgs = {org1, org2}
    OrgOf <- ThreeAndOne
    Capacity = 2
    Cost = 2
    Refill = 1
    Horizon = 3
SPECIFICATION FairSpec
INVARIANT TypeOK
INVARIANT OneBucketPerOrg
INVARIANT BucketExclusive
INVARIANT RateBound
INVARIANT RefusedOnlyWhenSpent
PROPERTY EveryCallDecided
CHECK_DEADLOCK FALSE
