SPECIFICATION Spec
CONSTANTS
  Modulus = 251
  Word = 65536
  MaxByte = 15
  MaxBlocks = 4
  Blocks <- MCBlocks
  MaxCalls = 2
INVARIANTS
  TypeOK
  IsAdler
PROPERTIES
  NeverWraps
CHECK_DEADLOCK FALSE
