SPECIFICATION Spec
CONSTANTS
    f1 = f1
    w1 = w1
    w2 = w2
    r1 = r1
    r2 = r2
    r3 = r3
    Reqs = {r1, r2, r3}
    Files = {f1}
    Records = {}
    Jobs <- OnePath
    BatchSize = 1
    MaxFaults = 1
    MaxCrashes = 1
SYMMETRY Symmetry
INVARIANTS
    TypeOK
    AckedIsKept
    NoResurrection
    UniqueUnlessRaced
    PathStaysIndexed
    NothingPendingIsPublished
CHECK_DEADLOCK FALSE
