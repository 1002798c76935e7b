SPECIFICATION Spec
CONSTANTS
  Store = {m1, m2}
  NoStore = NoStore
  Lmdb = Lmdb
  HeadName = {main}
  DefaultHead = main
  FirstMem = 10
  MaxLmdb = 2
  MaxMem = 11
  Careful = TRUE
SYMMETRY InterchangeableStores
INVARIANTS LmdbStandsAlone TreesAreWhole DeletesOnlyItsOwn
