SPECIFICATION FairSpec
CONSTANTS
    MAX_N_PER_PACKET = 3
    MAX_PACKETS = 2
    ENTRY = 16
    USED = 12
    Page <- Pages
    Entry <- Entries
    n_dram_nodes = 1
    n_nvram_nodes = 2
    Mode = {"DRAM_MODE", "NVRAM_MODE", "SWITCH_MODE"}
INVARIANTS
    TypeOK
    Delivered
    ArraysHoldReply
    ReadsInReply
    SendsAssigned
    CountIsHonest
PROPERTIES
    SendFindEnds
CHECK_DEADLOCK FALSE
