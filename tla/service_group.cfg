SPECIFICATION GroupSpec
CONSTANTS
    Infos <- MCInfos
    MaxGeneration = 2
INVARIANTS
    GroupTypeOK
    RunningIffReferenced
    ClientsCloseOnce
    TunnelsFollowServices
PROPERTIES
    SurvivorsKeepClients
