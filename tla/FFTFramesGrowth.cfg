SPECIFICATION Spec
CONSTANTS
  max = 2
  StackOffsets <- OneOffset
  Growing = {"p0"}
  Stack = 1024
  NewStack = 8192
  CC = 16384
  CH = 24576
INVARIANTS
  ResultIsComposition
CHECK_DEADLOCK FALSE
