SPECIFICATION Spec
CONSTANTS
  Keys = {1, 2}
  UVals = {a}
  Payloads = {x, NULL}
  NULL = NULL
  NoRow = NoRow
  DupCols = {"w"}
  UpdateCols = {"u", "w"}
  MaxStmts = 3
  MaxBatch = 2
  MaxOpens = 2
  Crashes = TRUE
SYMMETRY Symmetry
CHECK_DEADLOCK FALSE
INVARIANTS
  UniqueKeys
  IndexExact
  StorageMirrorsMemory
  CrashSafe
  AutoIncCovers
PROPERTIES
  UpdateKeepsRows
