SPECIFICATION Spec
CONSTANTS
  ArgKinds <- KindsWithEmptyStruct
  MaxArgs = 3
  MaxRets = 0
INVARIANTS
  SlotsDisjoint
CHECK_DEADLOCK FALSE
