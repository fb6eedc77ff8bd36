\* The evolution loop of the cognitive audit, layer by layer.
SPECIFICATION Spec
CONSTANTS
  a1 = a1
  a2 = a2
  a3 = a3
  goal = goal
  other = other
  None = None
  NoText = NoText
  NoTopology = NoTopology
  Undeclared = Undeclared
  Unbounded = Unbounded
  Outcome = Outcome
  Statements <- MCStatements
  VagueMarkers <- MCVagueMarkers
  Unfalsifiable <- MCUnfalsifiable
  Conditional <- MCConditional
  VagueOwner = FALSE
  AuditEntropyCeiling = 1
  Calls <- MCCalls
  OperatorSets <- MCOperatorSets
  MaxLoops = 3
  LoopCost = 1
  GapThreshold = 2
  ProposalLimit = 1
  OtherProposal = other
  MaxCalls = 1
  MaxApprovals = 2
INVARIANTS
  TypeOK
  FrozenNeverLost
  GenerationsProvable
  OrderIffAcyclic
  HaltLeavesError
CHECK_DEADLOCK FALSE
