SPECIFICATION Spec
CONSTANTS
  Keys = {1, 2}
  UVals = {a}
  Payloads = {x, NULL}
  NULL = NULL
  NoRow = NoRow
  DupCols = {"w"}
  UpdateCols = {"id", "u", "w"}
  MaxStmts = 2
  MaxBatch = 2
  MaxOpens = 0
  Crashes = FALSE
CHECK_DEADLOCK FALSE
PROPERTY
  UpdateKeepsRows
