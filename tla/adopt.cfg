SPECIFICATION Spec
CONSTANTS
  c1 = c1  c2 = c2  s1 = s1  s2 = s2  f1 = f1  f2 = f2  f3 = f3
  NoSpec = NoSpec  NoSchema = NoSchema  NoId = NoId  NoHash = NoHash
  ConnSpecs = {c1}
  SchemaSpecs = {s1}
  SkipTests = {}
  Unvalidated = {s1}
  ColumnSpecs = {}
  ConnIds = {f1, f2, f3}
  Existing = {f1, f2}
  Foreign = {f2}
  MaxEdits = 3
  MaxFaults = 1
  MaxLag = 2
SYMMETRY Interchangeable
INVARIANTS ForeignLeftAlone BackupAgrees
PROPERTY ImplementsManagedConnection
CHECK_DEADLOCK FALSE
