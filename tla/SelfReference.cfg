SPECIFICATION Spec
CONSTANTS
  A = A
  B = B
  C = C
  D = D
  NoTable = NoTable
  NULL = NULL
  NoRow = NoRow
  Tables <- SelfTables
  Parent <- SelfParent
  IdsOf <- SelfIds
  OnDeletes <- SelfOnDeletes
  Kinds = {"insert", "delete"}
INVARIANTS
  NoDangling
