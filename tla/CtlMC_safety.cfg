SPECIFICATION Spec
CONSTANTS
    c1 = c1
    Client = {c1}
    Command = {"unbind", "switch", "toggle all"}
    Typed = {c1}
    CONNS = 2
    Usage <- OneFull
    Drops = TRUE
INVARIANTS
    TypeOK
    ReplyIsOwn
    CandidatesAreOwn
    UsageOfThisRound
    ListFollowsClient
PROPERTIES
    ClearPrecedesFind
CHECK_DEADLOCK FALSE
