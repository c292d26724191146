SPECIFICATION FairSpec
CONSTANTS
    t1 = t1
    t2 = t2
    t3 = t3
    t4 = t4
    Task = {t1, t2, t3, t4}
    NoTask = NoTask
    Early = {t1, t2, t3}
    PidOf <- ReusedPid
    MAX_PIDS = 2
    BIND_LIMIT = 2
    Addr = {0, 1}
    Mode = {"SWITCH_MODE"}
INVARIANTS
    TypeOK
    CursorInRange
    DistinctPids
    RefreshDropsDead
    UnbindForgets
PROPERTIES
    CursorFollowsTask
    ImplementsManagedSet
    RequestAnswered
    DeadDropped
