CONSTANTS
    MAX_HUFFMAN_BITS = 7
    HUFFMAN_LOOKUP_TABLE_BITS = 3
    UINT16_MAX = 63
    MIN_LEN = 4
    BYTE_BITS = 3
    litlen_tbl <- LitlenTbl
    dist_tbl <- DistTbl
    MAX_LEN = 8
    MAX_DISTANCE = 7
    fixed_litlen_lengths <- FixedLitlen
    fixed_dist_lengths <- FixedDist
    CODELEN_MAX_LIT = 5
    CODELEN_LIMIT = 4
    CODELEN_BITS = 3
    codelen_lengths_order <- Order
    HLIT = 3
    HDIST = 2
    HCLEN = 3
    MIN_CODELEN_LENS = 4
    COPY_MIN = 2
    COPY_BITS = 1
    ZEROS_MIN = 3
    ZEROS_BITS = 1
    ZEROS2_BITS = 2
    LEN_BITS = 6
    MAX_BLOCK_LEN_BYTES = 36
    CHUNK = 4
    Inputs <- MCInputs
    Caps <- MCCaps
    Fragile <- Few
SPECIFICATION Spec
CHECK_DEADLOCK FALSE
INVARIANTS
    Contained
PROPERTIES
    ImplementsLossless
    SizesAreExact
