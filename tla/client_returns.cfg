SPECIFICATION SystemFairSpec
CONSTANTS
    a = a
    b = b
    Nil = Nil
    Sessions = {1, 2, 3}
    FrontConns = {}
    DynPort = 100
    DynPortCount = 2
    BusyPorts = {}
    AcceptErrors = FALSE
    Requests <- MCRequests
    Config <- MCConfig
    AddrOf <- OwnAddr
    SNINames <- Names
    Clients <- AClients
    Workers = {a}
    ClientOf <- AClientOf
    WorkerOf <- AWorkerOf
    TunnelData <- MCTunnelData
INVARIANTS
    ClientPortServed
    ClientPortListed
PROPERTIES
    ClosedClientUnlisted
