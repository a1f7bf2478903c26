SPECIFICATION Spec
CONSTANTS
    s1 = s1
    s2 = s2
    s3 = s3
    root = root
    x = x
    n1 = n1
    n2 = n2
    Sessions <- TwoSessions
    Ids = {root, x}
    Seeded = {root, x}
    Root = root
    Guests <- TwoSessions
    Mint <- MintNone
    Ops = {"read", "mutate", "walk", "effect", "effect_writes"}
    Targets = {x}
    ReadTier = FALSE
    MaxOps = 3
    MaxAttempts = 2
    ReplayMax = 0
    MaxFaults = 0
INVARIANTS
    ReadsOwnWrites
    
PROPERTIES
    NoLostUpdate
SYMMETRY Exchange
