CONSTANTS
    Tasks = {k1, k2}
    Targets = {7}
    MaxCells = 3
    Units <- MCUnits
    MaxFaults = 1
    MaxTorn = 1
SPECIFICATION Spec
INVARIANTS SingleFlight ToldTheTruth EofMeansAll
PROPERTIES KeepsLiveConnections StreamsReleased
CHECK_DEADLOCK FALSE
