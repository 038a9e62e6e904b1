CONSTANTS
    Nodes = {n1, n2}
    MaxCalls = 2
    MaxAnswers = 2
    MaxPackets = 1
    MaxFaults = 1
SPECIFICATION ConnectSpec
SYMMETRY Symmetry
INVARIANTS EndsAgree NonceUsedOnce RevokedStayOut
CHECK_DEADLOCK FALSE
