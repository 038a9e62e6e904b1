SPECIFICATION Spec
CONSTANTS
    Tasks = {t1}
    Kinds <- MCKinds
CHECK_DEADLOCK FALSE
INVARIANTS
    TypeOK
    NoLostWakeup
    NobodyWaitsForTheGone
PROPERTIES
    OperationsReturn
    ShutdownEndsDriver
