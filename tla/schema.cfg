SPECIFICATION FairSpec
CONSTANTS
    Source <- MCSource
    SchemaSpecs <- MCSpecs
    InitialAccounts <- MCAccounts
    MaxEdits = 1
    MaxFaults = 1
    MaxCrashes = 1
    MaxSyncs = 1
INVARIANTS
    TypeOK
    SuccessMeansApplied
    
    SuccessMeansPolicy
    
    VerifiedAtRest
 
CHECK_DEADLOCK FALSE
