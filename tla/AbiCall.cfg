SPECIFICATION CallSpec
CONSTANTS
  ArgKinds <- Kinds
  MaxArgs = 1
  MaxRets = 1
  IndirectTypes <- Indirect
  IntRegs = {"R0", "R1"}
  FloatRegs = {"F0"}
  MaxLines = 2
INVARIANTS
  CallTypeOK
  ArgsIntact
  ResultsReadBack
  AccessesInFrame
PROPERTIES
  LoadsGoValue
CHECK_DEADLOCK FALSE
