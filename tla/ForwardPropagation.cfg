\* Every dependency graph and batch, and every order of the worklist.
SPECIFICATION FairSpec
CONSTANTS
  a1 = a1
  a2 = a2
  a3 = a3
  OtherPath = OtherPath
  NoTrigger = NoTrigger
  Assumptions <- MCAssumptions
  MaxPaths = 2
CHECK_DEADLOCK FALSE
INVARIANTS
  TypeOK
  ClosureExact
  CollectedIsJointClosure
PROPERTIES
  Terminates
