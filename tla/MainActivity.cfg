CONSTANTS
    MAX_ACTIVITIES = 2
    MAX_RUNS = 3
SPECIFICATION ActivitySpec
CHECK_DEADLOCK FALSE
INVARIANTS
    ShowsLastResult
PROPERTIES
    ResultsInOrder
    FlagIsCleared
    EveryRunEnds
    TickersStop
