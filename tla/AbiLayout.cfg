SPECIFICATION Spec
CONSTANTS
  ArgKinds <- AllKinds
  MaxArgs = 3
  MaxRets = 1
INVARIANTS
  TypeOK
  SlotsDisjoint
  SlotsAligned
  ResultsInOwnWords
  FrameCoversSlots
PROPERTIES
  FollowsGoRules
CHECK_DEADLOCK FALSE
