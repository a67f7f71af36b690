CONSTANTS
    ConnLimit = 2
    IndexSpan = 5
    SizeBound = 5
    ListBound = 3
    Tokens = {t1, t2}
    Handlers = {root}
    RootHandler = root
    NoHandler = NoHandler
SPECIFICATION Spec
INVARIANTS NoOrphanSessions FreeIndexesExact ConnectionsAreExact
PROPERTY ClosingIsExact
