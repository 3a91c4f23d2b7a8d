CONSTANTS
    c1 = c1  c2 = c2  c3 = c3
    None = None
    Calls = {c1, c2, c3}
    Zones = {"utc+5", "utc-5"}
    SignerZone = "utc+5"
    Keys = {"signer", "other"}
    SignerKey = "signer"
    MaxChanges = 1
SPECIFICATION FairSpec
INVARIANT TypeOK
INVARIANT SignedChain
INVARIANT OneReceiptPerCall
INVARIANT PassedMeansVouchedFor
INVARIANT FailureIsPlaced
PROPERTY EveryCallReturns
