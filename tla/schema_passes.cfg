SPECIFICATION Spec
CONSTANTS
    Source <- MCSource
    SchemaSpecs <- MCSpecs
    InitialAccounts <- MCAccounts
    MaxEdits = 1
    MaxFaults = 0
    MaxCrashes = 1
    MaxSyncs = 0
INVARIANT PolicyEnforcedAtRest
CHECK_DEADLOCK FALSE
