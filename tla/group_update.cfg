SPECIFICATION GroupSpec
CONSTANTS
    Infos <- MCInfos
    MaxGeneration = 2
INVARIANTS
    ReconcilesWithNew
