CONSTANTS
    BYTE = 8
    EOCDR_SIGNATURE = 638
    CFH_SIGNATURE = 1150
    LFH_SIGNATURE = 1662
    MAX_BACK_OFFSET = 63
    SPACE = 2
    DOT = 3
    Roots = {4}
    Unfit = {5}
    mod_time = 9
    mod_date = 33
    crc32 <- sum
    Codes <- MCCodes
    FileLists <- MCFileLists
    Comments <- MCComments
    Fragile <- MCFragile
    Patches <- MCPatches
SPECIFICATION Spec
CHECK_DEADLOCK FALSE
INVARIANTS
    RoomSuffices
    MembersInside
PROPERTIES
    ImplementsLossless
