CONSTANTS
    ConnLimit = 1
    IndexSpan = 9
    SizeBound = 5
    ListBound = 4
    Tokens = {t1, t2}
    RootHandler = root
    NoHandler = NoHandler
    rootCom = rootCom
    ship = ship
    RootCommutator = rootCom
    SessionsLimit = 1
    ThreadCounts = {1}
    InboxBound = 1
    Handlers = {root, rootCom, ship}
    Commutators = {rootCom}
    Attached <- ShipOnly
SPECIFICATION TunnelsSpec
INVARIANT ParentSessionAssertion
