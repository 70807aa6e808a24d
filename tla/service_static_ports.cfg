SPECIFICATION Spec
CONSTANTS
    s1 = s1
    s2 = s2
    s3 = s3
    c1 = c1
    Nil = Nil
    Sessions = {s1, s2, s3}
    FrontConns = {}
    DynPort = 100
    DynPortCount = 2
    BusyPorts = {}
    AcceptErrors = FALSE
    Requests <- StaticRequests
    Config <- MCConfig
    AddrOf <- OwnAddr
    SNINames <- Names
INVARIANTS
    FrontendConsistent
    AnnouncedPortServed
    NoPortLeak
PROPERTIES
    ImplementsRegistry
