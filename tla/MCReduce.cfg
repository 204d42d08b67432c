CONSTANTS
    BYTE_BITS = 4
    comp_factor = 2
    MIN_LEN = 4
    DLE_BYTE = 9
    MAX_FOLLOWERS = 4
    SIZE_BITS = 3
    RAW_BYTES_SZ = 44
    CHUNK = 4
    Inputs <- MCInputs
    Caps <- MCCaps
    Fragile <- Few
SPECIFICATION Spec
CHECK_DEADLOCK FALSE
INVARIANTS
    NoAssertFails
    CostsAreExact
    Contained
PROPERTIES
    ImplementsLossless
