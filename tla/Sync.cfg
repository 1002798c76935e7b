SPECIFICATION FairSpec
CONSTANTS
  a = a
  long = long
  Depth = 3
  Val = {a, long}
  EmptyVal = EmptyVal
  FirstInterior = 100
  Key = {0, 1, 6}
  ValuesOf <- SomeValues
  LongVal = {long}
  InitialDepthLimit = 1
  LaterDepthLimit = 1
  MaxRequests = 2
  MaxCalls = 2
  MaxLosses = 1
  MaxChanges = 1
INVARIANTS TypeOK AnswersCount DiffAgrees
PROPERTIES KeepsThePromise ComesToAnEnd
CHECK_DEADLOCK FALSE
