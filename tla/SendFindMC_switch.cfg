SPECIFICATION Spec
CONSTANTS
    MAX_N_PER_PACKET = 3
    MAX_PACKETS = 2
    ENTRY = 16
    USED = 12
    Page <- Pages
    Entry <- Entries
    n_dram_nodes = 1
    n_nvram_nodes = 1
    Mode = {"SWITCH_MODE"}
INVARIANTS SendsProcessedPages
CHECK_DEADLOCK FALSE
