SPECIFICATION Spec
CONSTANTS
  App = {w1}
  Collector = {c1, c2}
  Tracking = {w1, c1, c2}
  HeadName = {main}
  DefaultHead = main
  Key = {k1}
  NoKey = NoKey
  FirstInterior = 10
  MaxLeaf = 1
  MaxInterior = 9
  SweepInMarkTxn = TRUE
SYMMETRY InterchangeableKeys
INVARIANT NothingMissing
