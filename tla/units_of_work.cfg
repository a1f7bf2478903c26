SPECIFICATION Spec
CONSTANTS
    s1 = s1
    s2 = s2
    s3 = s3
    root = root
    x = x
    n1 = n1
    n2 = n2
    Sessions <- TwoSessions
    Ids = {root, x}
    Seeded = {root, x}
    Root = root
    Guests <- TwoSessions
    Mint <- MintNone
    Ops = {"write", "enqueue"}
    Targets = {root, x}
    ReadTier = TRUE
    MaxOps = 2
    MaxAttempts = 3
    ReplayMax = 1
    MaxFaults = 0
INVARIANTS
    LedgerMatchesTxn
    QueueKnown
PROPERTIES
    ImplementsUnitOfWork
SYMMETRY Exchange
