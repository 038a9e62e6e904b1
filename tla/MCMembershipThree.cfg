SPECIFICATION FoundedSpec
CONSTANTS
    d1 = d1
    d2 = d2
    d3 = d3
    Devices = {d1, d2, d3}
    Numbers = {1, 2, 3}
    MaxNumber = 3
    MaxVersion = 4
    MaxAttempts = 2
    MaxFaults = 0
    NoRoster = noRoster
CHECK_DEADLOCK FALSE
INVARIANTS
    CacheIsHistory
    NeverEmpty
    OneLife
