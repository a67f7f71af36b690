SPECIFICATION IndustrySpec
CONSTANTS
    Containers = {a, b}
    Volume = 2
    Filled = {a, b}
    Aboard = {a}
    Teams = {1, 2}
    Spans = {0, 1, 2}
    Orders = {2}
    KeysBound = 2
    LeftBound = 3
    Mass = 2
    CycleTime = 2
    YieldPerCycle = 2
    Labor = 2
    IndPeriod = 1
    Configurations <- MCConfigurations
    NamesPerMessage = 3
    SpawnLimit = 2
    Rivals = {r1, r2, r3}
    Judges = {j1, j2}
    Goal = 2
    TargetScore = 5
    StockBound = 3
    SpareBound = 1
    Thrusts <- MCThrusts
    Sync = 6
    Batch = 5
    TickUs = 2
    Updates = 2
INVARIANTS ResourcesAreConserved TransfersAreExact ShipsArePaid StartupIsComplete ThrustActsAsAsked
PROPERTY BoardIsFair
CHECK_DEADLOCK FALSE
