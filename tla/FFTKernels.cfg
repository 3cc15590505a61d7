SPECIFICATION Spec
CONSTANTS
  Prime <- MCPrime
  Omega <- MCOmega
  Calls <- MCCalls
  Program <- KernelProgram
INVARIANTS
  TypeOK
  OutputIsDefinition
  AccessesInside
CHECK_DEADLOCK FALSE
