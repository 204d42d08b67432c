CONSTANTS
    Bytes = {0, 1}
    MIN_LEN = 2
    LZ_WND_SIZE = 4
    HashValue = {0, 1}
    hash4 <- Product
    NO_POS = NO_POS
    JUNK = JUNK
    MAX_STEPS = 8
    GOOD_LEN = 3
    MaxDists = {3, 4}
    MaxLens = {3, 5}
    SRC_MAX = 9
SPECIFICATION Spec
CHECK_DEADLOCK FALSE
INVARIANTS
    Covered
    ChainsExact
    FindsLongest
PROPERTIES
    TokensLegal
    Returns
