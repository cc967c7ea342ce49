SPECIFICATION FairSpec
CONSTANTS
    f1 = f1
    w1 = w1
    w2 = w2
    r1 = r1
    r2 = r2
    r3 = r3
    Reqs = {r1, r2}
    Files = {f1}
    Records = {w1, w2}
    Jobs <- LongCalls
    BatchSize = 2
    MaxFaults = 1
    MaxCrashes = 1
INVARIANTS
    HonestReport
PROPERTIES
    KeepsIndexPromise
    EveryRequestEnds
    ViewConverges
CHECK_DEADLOCK FALSE
