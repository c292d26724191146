SPECIFICATION Spec
CONSTANTS
    t1 = t1
    t2 = t2
    t3 = t3
    t4 = t4
    Task = {t1, t2, t3, t4}
    NoTask = NoTask
    Early = {}
    PidOf <- ReusedPid
    MAX_PIDS = 2
    BIND_LIMIT = 2
    Addr = {0}
    Mode = {"SWITCH_MODE"}
INVARIANTS
    RefusalIsHonest
