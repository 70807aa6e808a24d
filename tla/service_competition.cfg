SPECIFICATION Spec
CONSTANTS
    s1 = s1
    s2 = s2
    s3 = s3
    c1 = c1
    Nil = Nil
    Sessions = {s1, s2, s3}
    FrontConns = {c1}
    DynPort = 100
    DynPortCount = 1
    BusyPorts = {}
    AcceptErrors = TRUE
    Requests <- CompetingRequests
    Config <- MCConfig
    AddrOf <- SharedAddr
    SNINames <- Names
SYMMETRY SharedSymmetry
INVARIANTS
    TypeOK
    PoolPartition
    OpenListenerHasBackend
    MappedFrontendHasBackend
    NoGhostBackend
    RoutedSession
PROPERTIES
    LastUserReturns
