SPECIFICATION NavSpec
CONSTANTS
    p1 = p1
    p2 = p2
    r1 = r1
    r2 = r2
    q1 = q1
    Reqs = {r1, r2}
    Paths = {p1, p2}
    Asks = {q1}
    Menu <- Edits
    NSyms <- SomeCounts
    Closed = Closed
    MaxFaults = 1
    MaxCrashes = 1
    Lang <- Rust
    Tree <- SomeTrees
    SymbolsOf <- SomeSymbols
    RowsIn <- SomeRows
    Line <- SomeLines
    Rank <- TwoRanks
    WordAt <- SomeWords
    AllNames <- SomeNames
    AskMenu <- Queries
    SymbolLimit = 2
INVARIANTS
    HoverIsNarrowest
PROPERTIES
    DefinitionStaysHome
    NavigationIsCurrent
    CompletionIsExact
CHECK_DEADLOCK FALSE
