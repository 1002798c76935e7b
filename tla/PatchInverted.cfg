SPECIFICATION Spec
CONSTANTS
  Depth = 3
  Val = {a, b}
  EmptyVal = EmptyVal
  FirstInterior = 100
  Key = {0, 6}
  MaxApplies = 2
SYMMETRY InterchangeableValues
INVARIANTS PatchLeadsThere
