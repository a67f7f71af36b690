SPECIFICATION ThreadsSpec
CONSTANTS
    Slaves = {1, 2, 3}
    Length = 2
    Stages <- TwoLogics
    Cooldown <- OneRests
    Intervals = {0, 1, 2}
    TimeBound = 6
    Workers = {w1, w2}
    Total = 2
    ListBound = 4
    Autotests = TRUE
    MaxTick = 2
    DefaultTick = 1
    Elapses = {1, 3}
    TickLengths = {1, 2}
    TickCounts = {0, 2}
    Skips <- MCSkips
    GameBound = 4
    First = 1
    Last = 4
    Builders = {t1, t2}
    Counts <- MCCounts
    HeapBound = 1
INVARIANTS StagesAreApart ScheduleIsExact BusyListIsExact PoolsAreExact LockStepHolds
PROPERTIES ThreadsMeet AllocatorSpec
CHECK_DEADLOCK FALSE
