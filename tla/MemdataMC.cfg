SPECIFICATION Spec
CONSTANTS
    SECOND = 4
    CLEAR = 1
    LATE = 1
    MAX_TIME = 24
    Switched <- MCSwitched
    Moved <- MCMoved
    Crashes = TRUE
INVARIANTS
    SampleFinished
    FreshEverySecondRound
    MeasuredAfterClear
PROPERTIES
    IgnoredWasUsed
    UsedAgainOnlyAfterRace
CHECK_DEADLOCK FALSE
