SPECIFICATION FairSpec
CONSTANTS
    p1 = p1
    p2 = p2
    r1 = r1
    r2 = r2
    r3 = r3
    Reqs = {r1, r2, r3}
    Paths = {p1, p2}
    Menu <- Races
    NSyms <- TwoSymbols
    Closed = Closed
    MaxFaults = 1
    MaxCrashes = 1
INVARIANTS
    TypeOK
    IndexFollowsStore
    WholeReplacement
PROPERTY EveryRequestEnds
CHECK_DEADLOCK FALSE
