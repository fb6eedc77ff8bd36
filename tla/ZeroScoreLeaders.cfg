\* A total score of zero against a negative one.
SPECIFICATION Spec
CONSTANTS
  a1 = a1
  a2 = a2
  a3 = a3
  s1 = s1
  s2 = s2
  s3 = s3
  k1 = k1
  k2 = k2
  cost = cost
  gain = gain
  Absent = Absent
  Unreadable = Unreadable
  NoResult = NoResult
  Unit = 4
  Whole = 4
  SensitivityDelta = 1
  RequireComplete = FALSE
  Assumptions <- MCAssumptions
  Alternatives <- MCAlternatives
  Position <- MCPosition
  Requests <- MCRequests
  DeltaVars <- MCDeltaVars
  Batches <- MCBatches
  CriterionIds <- MCCriterionIds
INVARIANT LeadersAreTopScoring
CHECK_DEADLOCK FALSE
