SPECIFICATION FairSpec
CONSTANTS
    s1 = s1
    s2 = s2
    s3 = s3
    c1 = c1
    Nil = Nil
    Sessions = {s1, s2}
    FrontConns = {c1}
    DynPort = 100
    DynPortCount = 1
    BusyPorts = {}
    AcceptErrors = FALSE
    Requests <- StaticRequests
    Config <- MCConfig
    AddrOf <- OwnAddr
    SNINames <- Names
PROPERTIES
    RequestAnswered
    ClosedSessionRemoved
    ShutdownClosesFrontends
    FrontConnResolved
    PortsReturned
