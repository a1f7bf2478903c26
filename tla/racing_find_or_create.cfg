SPECIFICATION Spec
CONSTANTS
    s1 = s1
    s2 = s2
    s3 = s3
    root = root
    x = x
    n1 = n1
    n2 = n2
    Sessions <- TwoSessions
    Ids = {root, n1, n2}
    Seeded = {root}
    Root = root
    Guests <- TwoSessions
    Mint <- MintOne
    Ops = {"find"}
    Targets = {}
    ReadTier = TRUE
    MaxOps = 1
    MaxAttempts = 2
    ReplayMax = 1
    MaxFaults = 0
INVARIANTS
    Converges
