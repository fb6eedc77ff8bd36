\* Every dependency graph and every state of the evidence.
SPECIFICATION Spec
CONSTANTS
  a1 = a1
  a2 = a2
  a3 = a3
  m1 = m1
  m2 = m2
  NoSeed = NoSeed
  Assumptions <- MCAssumptions
  InOrder <- MCInOrder
  Signals <- MCSignals
  MentionTables <- MCMentionTables
CHECK_DEADLOCK FALSE
INVARIANTS
  TypeOK
  ChainsTraceSeeds
  EverySeedHasRoot
