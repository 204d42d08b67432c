CONSTANTS
    MIN_CODE_SIZE = 2
    MAX_CODE_SIZE = 3
    CONTROL_CODE = 2
    MAX_CODE = 7
    INVALID_CODE = 99
    DST_CAP = 8
    UNKNOWN_LEN <- NoLen
SPECIFICATION Spec
CHECK_DEADLOCK FALSE
INVARIANTS
    StringsInDst
    NoAssertFails
PROPERTIES
    SelfRefIsDead
