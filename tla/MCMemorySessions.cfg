SPECIFICATION FairSpec
CONSTANTS
    proj = proj
    note = note
    plan = plan
    r1 = r1
    r2 = r2
    r3 = r3
    r4 = r4
    Reqs = {r1, r2, r3}
    Projects = {proj}
    Categories = {note, plan}
    Menu <- Both
    Nobody = Nobody
    MaxFaults = 1
    MaxCrashes = 1
INVARIANT SummaryOfEnded
PROPERTY EveryRequestEnds
CHECK_DEADLOCK FALSE
