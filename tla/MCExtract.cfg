CONSTANTS
    Path <- Paths
    ZipMember <- Members
    MAX_MEMBERS = 3
SPECIFICATION ExtractSpec
CHECK_DEADLOCK FALSE
INVARIANTS
    OnlyCheckedData
    Extracted
