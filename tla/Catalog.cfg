SPECIFICATION Spec
CONSTANTS
  t1 = t1
  t2 = t2
  a = a
  b = b
  c = c
  ix = ix
  Tables = {t1, t2}
  Cols = {a, b, c}
  Vals = {1, 2}
  Absent = absent
  Primary = PRIMARY
  Sorted <- MCSorted
  Creates <- MCCreates
  Alters <- MCAlters
  IndexNames = {ix}
  Names = {ix, a, b, c, PRIMARY}
  MaxStatements = 4
  MaxRows = 2
  MaxCrashes = 1
INVARIANTS StoredAtRest CrashSafe MetadataNamesColumns UniqueHolds ViewsDescribe
CHECK_DEADLOCK FALSE
