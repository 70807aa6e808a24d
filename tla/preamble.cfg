SPECIFICATION ProxySpec
CONSTANTS
    Streams <- DocStreams
    ReadSizes <- DocReadSizes
    FrameLens <- MCFrameLens
    MaxSent <- MCMaxSent
    Room = 1
INVARIANTS
    ConnectHonoured
CHECK_DEADLOCK FALSE
