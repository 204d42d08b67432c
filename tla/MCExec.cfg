CONSTANTS
    Caller = {t1, t2}
    CHUNK = 2
    MAX_CALLS = 2
    MAX_OUTPUT = 2
    MAX_FAILED = 1
    PIPE_CAP = 2
    FD_LIMIT = 4
SPECIFICATION ExecSpec
CHECK_DEADLOCK FALSE
INVARIANTS
    NoOutputLost
    BufferFits
    WaitsForOthersOnly
PROPERTIES
    CallReturns
