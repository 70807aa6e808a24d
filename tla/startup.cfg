SPECIFICATION StartFairSpec
CONSTANTS
    Users = {"default@none", "ann", "bob"}
    DefaultUserID = "default@none"
    MaxFaults = 3
    MaxKeys = 2
INVARIANTS
    UsersSurvive
    HostKeyStable
PROPERTIES
    StartsAgain
