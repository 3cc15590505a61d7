SPECIFICATION Spec
CONSTANTS
  Calls <- MCCalls
  Memories <- MCMemories
  Addresses <- MCAddresses
  MaxInt = 63
INVARIANTS
  TypeOK
  SearchIsExact
  CountIsExact
  ReadsOnlyTheBuffer
CHECK_DEADLOCK FALSE
