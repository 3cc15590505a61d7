SPECIFICATION Spec
CONSTANT
  Calls <- MCCalls
INVARIANTS
  TypeOK
  EveryWriteIsDue
  PassIsComplete
  PieceOfPass
PROPERTIES
  Terminates
CHECK_DEADLOCK FALSE
