SPECIFICATION Spec
CONSTANTS
    t1 = t1
    t2 = t2
    t3 = t3
    t4 = t4
    Task = {t1, t2, t3}
    NoTask = NoTask
    Early = {}
    PidOf <- OwnPids
    MAX_PIDS = 2
    BIND_LIMIT = 3
    Addr = {0}
    Mode = {"SWITCH_MODE"}
INVARIANTS
    WithinArray
