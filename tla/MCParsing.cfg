SPECIFICATION Spec
CONSTANTS
    r1 = r1
    r2 = r2
    Reqs = {r1, r2}
    NoLang = NoLang
    Sources <- SomeSources
    Menu <- SomeCalls
INVARIANTS
    TypeOK
    SymbolsAreOutermost
    SucceedsIfSupported
CHECK_DEADLOCK FALSE
