SPECIFICATION Spec
CONSTANTS
  Depth = 3
  Val = {a, b}
  EmptyVal = EmptyVal
  FirstInterior = 100
  Key = {0, 1, 6}
  MaxProofs = 2
  MaxUpdates = 1
SYMMETRY InterchangeableValues
INVARIANTS TypeOK SameRoot AnswersAreTrue ProofsArePassedOn ProvenKeysCanBePut NothingRedundant
CHECK_DEADLOCK FALSE
