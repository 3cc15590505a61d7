SPECIFICATION Spec
CONSTANTS
  ArgKinds <- ScalarKinds
  MaxArgs = 2
  MaxRets = 0
INVARIANTS
  ArgsSizeIsEndOfLastSlot
CHECK_DEADLOCK FALSE
