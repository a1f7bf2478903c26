SPECIFICATION HttpSpec
CONSTANTS
    Parts = {"client", "server"}
    Requests = {1, 2}
    KeepAlive = TRUE
    MaxSockets = 1
    MaxFree = 1
    MaxTotal = 2
    Fifo = FALSE
    KeptUnder = "host"
    MaxHops = 1
    Moves = {"abort", "late", "destroy"}
    Conns = {1}
    Scripts <- Pages
    Pipelines = FALSE
    MaxWrites = 1
INVARIANTS
    Exclusive
    ServerKeepsFrames
PROPERTIES
    HttpSettles
CHECK_DEADLOCK FALSE
