SPECIFICATION Spec
CONSTANTS
    f1 = f1
    w1 = w1
    w2 = w2
    r1 = r1
    r2 = r2
    r3 = r3
    Reqs = {r1, r2}
    Files = {f1}
    Records = {}
    Jobs <- OnePath
    BatchSize = 1
    MaxFaults = 0
    MaxCrashes = 0
INVARIANT UpsertUnique
CHECK_DEADLOCK FALSE
