SPECIFICATION Spec
CONSTANTS
  Depth = 3
  Val = {a}
  EmptyVal = EmptyVal
  FirstInterior = 100
  Key = {0, 1, 2, 3, 4, 5, 6, 7}
  Trees <- MCTrees
  MaxWrites = 1
INVARIANTS NothingSkipped EndsEarlyOnlyAtAGap SavedPlaceIsFound
