SPECIFICATION Spec
CONSTANTS
  Depth = 3
  Val = {a, b}
  EmptyVal = EmptyVal
  FirstInterior = 100
  Key = {0, 1, 6}
  HeadName = {main, fork}
  DefaultHead = main
  Detached = Detached
  Deletion = Deletion
  ReuseLeaves = TRUE
  MaxApplies = 2
SYMMETRY InterchangeableValues
INVARIANTS TypeOK CanonicalRoot QueriesAnswered UntouchedLeavesKeepTheirId OutputNamesTheLeaf RefusesOnlyForeignLeaves NextCommandFindsTheHead
PROPERTIES IsVersionedMap
