SPECIFICATION Spec
CONSTANTS
    Tasks = {t1}
    Kinds = {"read"}
CHECK_DEADLOCK FALSE
PROPERTY
    ReadersReturn
