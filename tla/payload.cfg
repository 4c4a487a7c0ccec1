SPECIFICATION Spec
CONSTANTS
    SchemaNames <- MCSchemaNames
    TableNames <- MCTableNames
    ColumnNames <- MCColumnNames
    SyncModes <- MCSyncModes
INVARIANTS
    ListedApplied
    PolicyEnforced
    VerificationExact
    UnmanagedLeftAlone
    LockedLeftAlone
PROPERTIES
    ReapplyChangesNothing
