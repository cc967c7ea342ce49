SPECIFICATION Spec
CONSTANTS
    m1 = m1
    m2 = m2
    m3 = m3
    c1 = c1
    c2 = c2
    s1 = s1
    f1 = f1
    f2 = f2
    f3 = f3
    q1 = q1
    Ids = {m1, m2, m3}
    Versions <- SomeVersions
    Category <- SomeCategories
    Similarity <- SomeSimilarities
    Embedded = {m2, m3}
    Sessions = {s1}
    Rankings <- SomeRankings
    FileType <- Types
    Asks = {q1}
    AskMenu <- Requests
    All = All
    Defaults <- SomeDefaults
    Scale = 4
    FetchFloor = 2
    TokensPerHit = 2
    RecentLimit = 2
    ObservationLimit = 2
    MaxWrites = 3
    MaxFaults = 1
    MaxOffset = 3
INVARIANTS
    PagedSearchIsComplete
    PagedListIsComplete
    ContextIsGreedy
    SummaryAgrees
CHECK_DEADLOCK FALSE
