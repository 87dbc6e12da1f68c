SPECIFICATION Spec
CONSTANTS
  Queries <- SelfJoins
  MaxRounds = 2
  Spelling <- MCSpelling
CHECK_DEADLOCK FALSE
INVARIANTS
  JoinIsDefined
