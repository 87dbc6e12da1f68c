SPECIFICATION Spec
CONSTANTS
  Keys = {1, 2, 3}
  UVals = {a}
  Payloads = {x}
  NULL = NULL
  NoRow = NoRow
  NoneTaken = NoneTaken
  Sessions = {c1, c2}
  MaxStmts = 3
  MaxBatch = 2
SYMMETRY Symmetry
CHECK_DEADLOCK FALSE
INVARIANTS
  UniqueKeys
