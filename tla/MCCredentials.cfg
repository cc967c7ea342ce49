SPECIFICATION Spec
CONSTANTS
    s1 = s1
    s2 = s2
    Servers = {s1, s2}
    Absent = Absent
    Torn = Torn
    MaxStarts = 4
    MaxFaults = 1
INVARIANTS
    ServedPairMatches
    StartFailsOnlyIfTorn
    IdentityIsReused
CHECK_DEADLOCK FALSE
