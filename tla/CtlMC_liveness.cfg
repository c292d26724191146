SPECIFICATION FairSpec
CONSTANTS
    c1 = c1
    Client = {c1}
    Command = {"switch"}
    Typed = {c1}
    CONNS = 2
    Usage <- Low
    Drops = FALSE
PROPERTIES ExitEndsAll RequestReachesModule
