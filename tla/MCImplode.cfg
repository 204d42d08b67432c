CONSTANTS
    MAX_HUFFMAN_BITS = 4
    HUFFMAN_LOOKUP_TABLE_BITS = 2
    UINT16_MAX = 63
    MIN_LEN = 4
    BYTE_BITS = 4
    SYM_BITS = 2
    LargeBits = 2
    BUFFER_CAP = 7
    Inputs <- MCInputs
    Caps <- MCCaps
    Fragile <- Few
SPECIFICATION Spec
CHECK_DEADLOCK FALSE
INVARIANTS
    NoAssertFails
    Pk101Extracted
PROPERTIES
    ImplementsLossless
