CONSTANTS
    ConnLimit = 2
    IndexSpan = 5
    SizeBound = 4
    ListBound = 3
    Tokens = {t1, t2}
    Handlers = {root}
    RootHandler = root
    NoHandler = NoHandler
SPECIFICATION Spec
INVARIANT NoCallThroughNull
