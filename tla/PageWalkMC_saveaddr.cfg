SPECIFICATION Spec
CONSTANTS
    n_pids = 2
    LAST = 1
    MAX_N_FIND = 2
    MAX_N_SWITCH = 2
    Count = {2}
    Mode = {"DRAM_MODE"}
    Layout <- AllDram
INVARIANTS FullListSavesAddr
