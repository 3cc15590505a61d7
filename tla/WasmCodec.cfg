SPECIFICATION Spec
CONSTANTS
  Programs <- MCPrograms
  Memories <- MCMemories
  Addresses <- MCAddresses
INVARIANTS
  TypeOK
  OutputIsReference
  RoundTrip
  StaysInside
CHECK_DEADLOCK FALSE
