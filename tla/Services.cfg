SPECIFICATION ServicesSpec
CONSTANTS
    Sessions = {s1, s2}
    Names = {n1, n2}
    Requests = {r1, r2, r3}
    Timeouts = {1, 2}
    MaxTimeout = 1
    ServicesLimit = 2
    SessionsLimit = 2
    PendingBound = 1
    Ships = {m1, m2}
    Links = {l1, l2, l3}
    MonitorsLimit = 2
    Clients = {c1, c2}
    NobodyId = NobodyId
    Periods = {0, 1, 2, 4}
    PeriodSpan = 4
    MinPeriod = 1
    MaxPeriod = 3
    Waits = {0, 1, 2, 3}
    Intervals = {0, 1, 2}
    RingsBound = 3
    Autotests = FALSE
    MaxTick = 2
    DefaultTick = 1
    Elapses = {1, 3}
    TickLengths = {1, 2}
    TickCounts = {0, 2}
    Admins = {a1}
    NoSession = NoSession
    InboxBound = 1
    TimeBound = 4
    Watchers = {w1, w2, w3}
INVARIANTS SubscribersAreServed ClockIsExact MonitorsAreExact MonitorsAreTold
PROPERTIES RequestsAreServed RoutedIsAnswered AdministratorIsAnswered DestroyedIsLeft
CHECK_DEADLOCK FALSE
