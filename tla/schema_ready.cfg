SPECIFICATION Spec
CONSTANTS
  c1 = c1  c2 = c2  s1 = s1  s2 = s2  f1 = f1  f2 = f2  f3 = f3
  NoSpec = NoSpec  NoSchema = NoSchema  NoId = NoId  NoHash = NoHash
  ConnSpecs = {c1, c2}
  SchemaSpecs = {s1, s2}
  SkipTests = {c2}
  Unvalidated = {}
  ColumnSpecs = {s1}
  ConnIds = {f1, f2}
  Existing = {}
  Foreign = {}
  MaxEdits = 3
  MaxFaults = 0
  MaxLag = 1
SYMMETRY Interchangeable
INVARIANTS SchemaReadyMeansApplied
CHECK_DEADLOCK FALSE
