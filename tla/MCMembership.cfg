SPECIFICATION Spec
CONSTANTS
    d1 = d1
    d2 = d2
    d3 = d3
    Devices = {d1, d2}
    Numbers = {1, 2, 3}
    MaxNumber = 3
    MaxVersion = 3
    MaxAttempts = 2
    MaxFaults = 1
    NoRoster = noRoster
SYMMETRY MCSymmetry
CHECK_DEADLOCK FALSE
INVARIANTS
    TypeOK
    RevokedIsRetired
    LogoutIsComplete
PROPERTY
    RefinesGroupMembership
