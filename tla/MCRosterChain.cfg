SPECIFICATION Spec
CONSTANTS
    Numbers = {n1, n2, n3}
    HubKey = hubkey
    HubNode = hubnode
    MaxVersion = 3
    MaxPairings = 2
    MaxSigned = 5
    MaxEdits = 1
SYMMETRY MCSymmetry
INVARIANTS
    VerifyMatchesHistory
    MembersAcceptOnlySigned
    VerifiedKeysAreActive
