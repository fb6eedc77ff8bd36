\* Calls that overlap, fail, are refused or cut off by a restart.
SPECIFICATION Spec
CONSTANTS
  q1 = q1
  d1 = d1
  c1 = c1
  c2 = c2
  Idle = Idle
  Requests <- MCRequests
  StatusOf <- MCStatusOf
  Verdicts <- MCVerdicts
  Decisions <- MCDecisions
  Clients <- MCClients
  Permitted <- MCPermitted
  Rates <- MCRates
  Minute = 2
  MaxTime = 3
  MaxCalls = 2
  MaxRestarts = 1
INVARIANTS
  ReportsAreOfHistory
  AdmittedWithinRate
  UnreportedRevisionsShow
CHECK_DEADLOCK FALSE
