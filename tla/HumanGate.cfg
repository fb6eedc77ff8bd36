\* A round begun on a session no human has re-opened.
SPECIFICATION Spec
CONSTANTS
  a1 = a1
  a2 = a2
  s1 = s1
  s2 = s2
  NoHash = NoHash
  Assumptions <- MCAssumptions
  Dependencies <- MCDependencies
  Candidates <- MCCandidates
  Baseline <- MCBaseline
  DeltaBatches <- MCDeltaBatches
  Requests <- MCRequests
  Budgets <- MCBudgets
  Evidence <- MCEvidence
  MaxRounds = 3
PROPERTY HumanGate
