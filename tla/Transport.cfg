SPECIFICATION FairSpec
CONSTANTS
  LenBits = 3
  KeyBytes = 6
  Depths = {0, 255}
  ValSizes = {0, 1, 128}
  FirstIntegers = {0, 54}
  StrandCounts = {0, 1, 200}
  Offsets = {0, 40, 199}
INVARIANTS TypeOK EverythingArrives IntegersInOrder
PROPERTIES IsChannel CommandsGetOut
CHECK_DEADLOCK FALSE
