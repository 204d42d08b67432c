CONSTANTS
    MAX_HUFFMAN_BITS = 4
    HUFFMAN_LOOKUP_TABLE_BITS = 2
    UINT16_MAX = 15
    NUM_SYMS = 5
    GIVEN_SYMS = 5
    MaxLens <- Limits
SPECIFICATION Spec
CHECK_DEADLOCK FALSE
INVARIANTS
    RefusesInvalid
