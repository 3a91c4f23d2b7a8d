CONSTANTS
    r1 = r1  r2 = r2  r3 = r3  r4 = r4
    org1 = org1  org2 = org2  sysA = sysA  sysB = sysB
    None = None
    Reqs = {r1, r2, r3, r4}
    Orgs = {org1}
    Systems = {sysA}
    ObligationIds = {}
    Owner <- OneOwner
    Horizon = 1
    Faults = {"commit", "refresh"}
SPECIFICATION Spec
SYMMETRY Symmetry
INVARIANT TypeOK
INVARIANT MutualExclusion
INVARIANT TipHeld
INVARIANT ChainIntegrity
INVARIANT TrailsAgree
INVARIANT AuditContinuity
INVARIANT NeverRegresses
INVARIANT ReadersSeePrefix
CHECK_DEADLOCK FALSE
PROPERTY ImplementsLedger
