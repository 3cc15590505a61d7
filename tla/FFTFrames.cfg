SPECIFICATION Spec
CONSTANTS
  max = 3
  StackOffsets <- EveryOffset
  Growing = {"pass", "last", "p1", "p2"}
  Stack = 1024
  NewStack = 8192
  CC = 16384
  CH = 24576
INVARIANTS
  TypeOK
  ResultIsComposition
  InputKept
  PassesOutOfPlace
  CallerFrameIntact
  BuffersInFrame
CHECK_DEADLOCK FALSE
