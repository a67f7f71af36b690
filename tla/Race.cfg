CONSTANTS
    Containers = {a, b}
    Volume = 2
    Filled = {a, b}
    Aboard = {a}
    Teams = {2}
    Spans = {2}
    Orders = {2}
    KeysBound = 2
    LeftBound = 3
    Mass = 0
    CycleTime = 2
    YieldPerCycle = 2
    Labor = 1
    IndPeriod = 1
SPECIFICATION ProductionSpec
PROPERTY RecalculationFits
CHECK_DEADLOCK FALSE
