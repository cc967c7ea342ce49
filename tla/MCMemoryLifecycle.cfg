SPECIFICATION Spec
CONSTANTS
    proj = proj
    note = note
    plan = plan
    r1 = r1
    r2 = r2
    r3 = r3
    r4 = r4
    Reqs = {r1, r2, r3, r4}
    Projects = {proj}
    Categories = {note, plan}
    Menu <- Lifecycle
    Nobody = Nobody
    MaxFaults = 1
    MaxCrashes = 1
SYMMETRY Symmetry
INVARIANTS
    TypeOK
    NoOrphanEmbedding
    AckedIsEmbedded
    DeletedIsNotFound
    DeletedStaysDeleted
CHECK_DEADLOCK FALSE
