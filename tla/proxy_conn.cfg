SPECIFICATION ProxyFairSpec
CONSTANTS
    Streams <- MCStreams
    ReadSizes <- MCReadSizes
    FrameLens <- MCFrameLens
    MaxSent <- MCMaxSent
    Room = 1
INVARIANTS
    EofMeansComplete
    InstanceAsAsked
PROPERTIES
    ConnectionEnds
CHECK_DEADLOCK FALSE
