SPECIFICATION Spec
CONSTANTS
    Joiners = {j1, j2}
    Self = e
    HubKey = hubkey
    NoEntry = noentry
    MaxActive = 2
    Profiles = {"interactive", "asynchronous"}
    Ttl <- MCTtl
    MaxTime = 2
    MaxSecrets = 3
    MaxNonces = 4
SYMMETRY MCSymmetry
INVARIANTS
    TypeOK
    WithinCapacity
    CodesAreSingleUse
    PairsOnlyBeforeExpiry
    OneSignaturePerPairing
PROPERTY SignsLatestPairing
CHECK_DEADLOCK FALSE
