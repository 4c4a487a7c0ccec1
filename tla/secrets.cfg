SPECIFICATION FairSpec
CONSTANTS
    Specs <- MCSpecs
    Paths <- MCPaths
    Keys <- MCKeys
    InitialVaults <- MCVaults
    MaxEdits = 1
    MaxRotations = 2
    MaxFaults = 1
INVARIANTS
    TypeOK
    OneVersionPerCall
    NothingUnresolved
    StopsForGoodReason
PROPERTY ResolvedOrStopped
CHECK_DEADLOCK FALSE
