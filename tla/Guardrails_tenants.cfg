CONSTANTS
    r1 = r1  r2 = r2  r3 = r3  r4 = r4
    org1 = org1  org2 = org2  sysA = sysA  sysB = sysB
    None = None
    Reqs = {r1, r2, r3}
    Orgs = {org1, org2}
    Systems = {sysA, sysB}
    ObligationIds = {"ob1"}
    Owner <- TwoOwners
    Horizon = 0
    Faults = {"commit", "refresh"}
SPECIFICATION Spec
SYMMETRY Symmetry
INVARIANT AllOrNothing
INVARIANT Isolation
PROPERTY ProvenanceKept
CHECK_DEADLOCK FALSE
