SPECIFICATION Spec
CONSTANTS
  Queries <- MCQueries
  MaxRounds = 2
  Spelling <- MCSpelling
CHECK_DEADLOCK FALSE
INVARIANTS
  JoinIsNestedLoop
  RowsAreDefined
  WindowsAreDefined
  AnswerIsPage
  TestsAreDefined
