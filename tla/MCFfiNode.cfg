CONSTANTS
    Calls = {c1, c2}
SPECIFICATION Spec
INVARIANTS TypeOK NoDanglingUse
PROPERTIES RefinesAtomicNode NodeCallsReport
CHECK_DEADLOCK FALSE
