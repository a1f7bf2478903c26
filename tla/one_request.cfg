SPECIFICATION Spec
CONSTANTS
    s1 = s1
    s2 = s2
    s3 = s3
    root = root
    x = x
    n1 = n1
    n2 = n2
    Sessions <- OneSession
    Ids = {root, x, n1}
    Seeded = {root, x}
    Root = root
    Guests <- NoSession
    Mint <- MintFirst
    Ops = {"write", "mutate", "delete", "create", "find", "enqueue", "effect", "effect_writes", "walk", "fail", "swallow", "unanswered"}
    Targets = {x}
    ReadTier = TRUE
    MaxOps = 3
    MaxAttempts = 2
    ReplayMax = 1
    MaxFaults = 1
INVARIANTS
    TypeOK
    OkIsWhole
    SavedIsNotRetried
    NothingAfterAnswer
