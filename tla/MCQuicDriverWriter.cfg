SPECIFICATION Spec
CONSTANTS
    Tasks = {t1}
    Kinds = {"write_all"}
CHECK_DEADLOCK FALSE
PROPERTY
    WritersReturn
