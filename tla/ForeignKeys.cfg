SPECIFICATION Spec
CONSTANTS
  A = A
  B = B
  C = C
  D = D
  NoTable = NoTable
  NULL = NULL
  NoRow = NoRow
  Tables <- TreeTables
  Parent <- TreeParent
  IdsOf <- TreeIds
  OnDeletes <- TreeOnDeletes
  Kinds = {"insert", "delete", "update"}
INVARIANTS
  NoDangling
  StoreFollows
  CrashKeepsReferences
  DeleteIsCascade
