CONSTANTS
    MIN_CODE_SIZE = 2
    MAX_CODE_SIZE = 3
    CONTROL_CODE = 2
    MAX_CODE = 7
    INVALID_CODE = 99
    UNKNOWN_LEN = UNKNOWN_LEN
    SRC_MAX = 15
    DST_CAP = 15
    OS_CAP = 41
SPECIFICATION RTSpec
CHECK_DEADLOCK FALSE
INVARIANTS
    Lockstep
PROPERTIES
    ImplementsLossless
