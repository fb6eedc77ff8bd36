\* An evidence decision is lost under a stale update.
SPECIFICATION HubSpec
CONSTANTS
  a1 = a1
  s1 = s1
  s2 = s2
  c1 = c1
  c2 = c2
  NoHash = NoHash
  NoCopy = NoCopy
  Assumptions <- MCAssumptions
  Dependencies <- MCDependencies
  Candidates <- MCCandidates
  Baseline <- MCBaseline
  DeltaBatches <- MCDeltaBatches
  Requests <- MCRequests
  Budgets <- MCBudgets
  Evidence <- MCEvidence
  Callers <- MCCallers
  MaxRounds = 2
SYMMETRY CallerSymmetry
PROPERTY StoredStatesNeverReassumed
