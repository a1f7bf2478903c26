SPECIFICATION Spec
CONSTANTS
    w1 = w1
    w2 = w2
    k1 = k1
    c1 = c1
    c2 = c2
    c3 = c3
    Workers <- TwoWorkers
    Keys = {k1}
    Calls <- ThreeCalls
    Transport = "http"
    Lease = 3
    MaxAttempts = 2
    BackoffCap = 2
    MaxLag = 3
    RunMax = 1
    Timeout = 1
    Faults = {}
    MaxFaults = 0
    MaxRows = 2
INVARIANTS
    OneDeliverer
