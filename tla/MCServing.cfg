CONSTANTS
    Callers = {c1}
    Acceptors = {a1}
    MaxRequests = 1
    CommandCapacity = 1
    ResponseCapacity = 1
    IncomingCapacity = 1
    Base = 1
    Cap = 2
    MaxBreaks = 1
SPECIFICATION Spec
INVARIANTS TypeOK AnswersOnSameStream ClosedIsFinal
PROPERTIES RequestsServedOnceRunning StopStops AbandonedSessionEnds AcceptsEnd
CHECK_DEADLOCK FALSE
