SPECIFICATION Spec
CONSTANTS
  CPUs <- MCCPUs
  Requests <- MCRequests
  Garbage <- MCGarbage
INVARIANTS
  TypeOK
  NeverFaults
  NoMeansUnusable
  VendorExact
CHECK_DEADLOCK FALSE
