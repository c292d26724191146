SPECIFICATION MoveSpec
CONSTANTS
    n_pids = 2
    LAST = 1
    MAX_N_FIND = 2
    MAX_N_SWITCH = 3
    Count = {0, 1, 3}
    Mode = {"DRAM_MODE", "NVRAM_MODE", "NVRAM_INTENSIVE_MODE", "NVRAM_WRITE_MODE", "SWITCH_MODE", "NVRAM_CLEAR"}
    Layout <- Mixed
INVARIANTS
    TypeOK
    FullCycle
    ShortMeansAll
    ReplyInBounds
    SwitchBalanced
    TwiceOnlyAtCursor
    CursorAtFiller
PROPERTIES
    ImplementsPageWalk
CHECK_DEADLOCK FALSE
