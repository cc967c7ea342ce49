SPECIFICATION FairSpec
CONSTANTS
    s1 = s1
    s2 = s2
    Streams = {s1, s2}
    Menu <- Everything
    MaxFaults = 2
INVARIANTS
    TypeOK
    HealthIsFresh
PROPERTIES
    KeepsPromise
    EveryStreamSettles
    
CHECK_DEADLOCK FALSE
