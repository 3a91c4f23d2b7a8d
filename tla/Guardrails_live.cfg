CONSTANTS
    r1 = r1  r2 = r2  r3 = r3  r4 = r4
    org1 = org1  org2 = org2  sysA = sysA  sysB = sysB
    None = None
    Reqs = {r1, r2, r3}
    Orgs = {org1}
    Systems = {sysA}
    ObligationIds = {}
    Owner <- OneOwner
    Horizon = 0
    Faults = {"commit", "refresh"}
SPECIFICATION FairSpec
PROPERTY EveryRequestAnswered
CHECK_DEADLOCK FALSE
