SPECIFICATION Spec
CONSTANTS
    d1 = d1
    d2 = d2
    d3 = d3
    Devices = {d1, d2}
    Numbers = {1, 2}
    MaxNumber = 2
    MaxVersion = 2
    MaxAttempts = 1
    MaxFaults = 0
    NoRoster = noRoster
SYMMETRY MCSymmetry
CHECK_DEADLOCK FALSE
PROPERTY
    DeregistersOnlyNonMembers
