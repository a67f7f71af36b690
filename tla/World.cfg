SPECIFICATION ObservationSpec
CONSTANTS
    Objects = {ship, a1, a2}
    Platform = ship
    GridWidth = 2
    CellWidth = 2
    Unit = 2
    Margin = 1
    Movers = {a1}
    Speed = 1
    MaxRadius = 2
    MaxDistance = 1
    ScanTime = 2
    BatchSize = 1
    Callers = {s1}
    Kinds = {"celestial", "asteroid"}
    Things = {o1, o2}
    Viewers = {v1}
    SlotsNumber = 2
    UpdateLimit = 1
    EdgeTime = 2
    Delays = {1, 3}
    Steps = {1, 3}
    Bodies = {b1, b2, b3, b4}
    TypesOfBodies = {{b1, b2, b3, b4}, {b2, b3}}
    Viewports = {{b1, b2, b3}, {b1, b4}, {b2, b3, b4}}
    FilterThreads = {t1, t2}
    BufferSize = 2
    Operators = {d1, d2}
    NoOperator = NoOperator
    Peers = {p1, p2}
    CallsBound = 2
    SlotsBound = 2
INVARIANTS CellsAreExact NobodyIsOverlooked ScreenIsExact CleanCallIsWhole NobodyWaitsInVain
CHECK_DEADLOCK FALSE
PROPERTY ScansAreExact
