CONSTANTS
    ConnLimit = 1
    IndexSpan = 5
    SizeBound = 4
    ListBound = 4
    Tokens = {t1, t2}
    RootHandler = root
    NoHandler = NoHandler
    rootCom = rootCom
    ship = ship
    RootCommutator = rootCom
    SessionsLimit = 1
    ThreadCounts = {1, 2}
    InboxBound = 1
    Handlers = {root, rootCom, ship}
    Commutators = {rootCom, ship}
    Attached <- EmptyShip
SPECIFICATION TunnelsSpec
INVARIANT TunnelsAreExact
SYMMETRY TokenSymmetry
