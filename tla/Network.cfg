SPECIFICATION NetworkSpec
CONSTANTS
    ConnLimit = 2
    Endpoints = {e1, e2}
    NoEndpoint = NoEndpoint
    Responsive = {e1}
    HeartbeatTimeout = 4
    DisconnectTimeout = 14
    CheckPeriod = 2
    RoundTrip = 7
    SharedEndpoints = {e2}
    AgeBound = 6
    Persistent = 1
    Total = 3
    Addresses = {a1, a2}
    Players = {p1, p2}
    PortsLimit = 1
    TokensBound = 2
    BufferBound = 2
    MessagesBound = 3
    NowBound = 3
    QueueLimit = 2
INVARIANTS DisconnectedInTime ResponsiveStaysConnected LoginSlotsAreOwed AdministratorsAreServed
PROPERTIES VanishedIsDisconnected LoginSlotsReturn QueuesAreExact EveryMessageHandled
CHECK_DEADLOCK FALSE
