SPECIFICATION Spec
CONSTANTS
  App = {w1}
  Collector = {c1}
  Tracking = {w1, c1}
  HeadName = {main}
  DefaultHead = main
  Key = {k1, k2}
  NoKey = NoKey
  FirstInterior = 10
  MaxLeaf = 2
  MaxInterior = 10
  SweepInMarkTxn = TRUE
SYMMETRY InterchangeableKeys
INVARIANTS TypeOK NothingMissing KeyTableSound GarbageStaysGarbage
PROPERTIES CopyOnWrite SweepIsExact
