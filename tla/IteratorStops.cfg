SPECIFICATION Spec
CONSTANTS
  Depth = 3
  Val = {a}
  EmptyVal = EmptyVal
  FirstInterior = 100
  Key = {0, 1, 6}
  Trees <- MCTrees
  MaxWrites = 1
INVARIANTS EndsAfterTheLast
