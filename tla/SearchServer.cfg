SPECIFICATION Spec
CONSTANTS
  books = books
  films = films
  i1 = i1
  i2 = i2
  Uids = {books, films}
  Temp = temp
  Ids = {i1, i2}
  Bodies = {"cat", "cut", "both", "null"}
  Written = {"cut"}
  Fields <- MCFields
  Contents <- MCContents
  IdOf <- MCIdOf
  Queries <- MCQueries
  Batches = {{i1, i2}}
  Filters <- MCFilters
  Changes <- MCChanges
  None = none
  Keyless = keyless
  Snapshots <- MCSnapshots
  PageSize = 1
  Payloads <- MCPayloads
  MaxRequests = 2
  MaxTasks = 1
  MaxSql = 1
  MaxRestarts = 1
INVARIANTS SearchTruth SearchMissesNothing WalkComplete
PROPERTY TaskMeansDone
CHECK_DEADLOCK FALSE
