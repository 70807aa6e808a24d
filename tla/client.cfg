SPECIFICATION ClientFairSpec
CONSTANTS
    Workers = {w1, w2}
    InitialPort = 0
    Ports = {100, 101}
INVARIANTS
    NoSessionLeftBehind
PROPERTIES
    StopsAfterClose
    Reconnects
