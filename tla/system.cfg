SPECIFICATION SystemSpec
CONSTANTS
    a = a
    b = b
    Nil = Nil
    Sessions = {1, 2, 3}
    FrontConns = {}
    DynPort = 100
    DynPortCount = 1
    BusyPorts = {}
    AcceptErrors = FALSE
    Requests <- MCRequests
    Config <- MCConfig
    AddrOf <- MCAddr
    SNINames <- Names
    Clients <- MCClients
    Workers = {a, b}
    ClientOf <- MCClientOf
    WorkerOf <- MCWorkerOf
    TunnelData <- MCTunnelData
INVARIANTS
    ClientPortServed
    ClientPortListed
PROPERTIES
    ImplementsClients
