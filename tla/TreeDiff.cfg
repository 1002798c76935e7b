SPECIFICATION Spec
CONSTANTS
  Depth = 3
  Val = {a, b}
  EmptyVal = EmptyVal
  FirstInterior = 100
  Key = {0, 1, 3, 6}
  MaxApplies = 2
SYMMETRY InterchangeableValues
INVARIANTS TypeOK NamesTheChanges PatchLeadsThereUnlessCollapsed LinesTellOldAndNew
