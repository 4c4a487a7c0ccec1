SPECIFICATION FairSpec
CONSTANTS
  c1 = c1  c2 = c2  s1 = s1  s2 = s2  f1 = f1  f2 = f2  f3 = f3
  NoSpec = NoSpec  NoSchema = NoSchema  NoId = NoId  NoHash = NoHash
  ConnSpecs = {c1}
  SchemaSpecs = {}
  SkipTests = {}
  Unvalidated = {}
  ColumnSpecs = {}
  ConnIds = {f1, f2}
  Existing = {}
  Foreign = {}
  MaxEdits = 3
  MaxFaults = 1
  MaxLag = 1
PROPERTIES EveryDeletionCompletes
CHECK_DEADLOCK FALSE
