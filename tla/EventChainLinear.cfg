\* Two events of one tenant that link to the same event.
SPECIFICATION Spec
CONSTANTS
  t1 = t1
  t2 = t2
  tenant1 = tenant1
  tenant2 = tenant2
  d1 = d1
  ask = ask
  fail = fail
  Idle = Idle
  NoEvent = NoEvent
  Threads <- MCThreads
  Tenants <- MCTenants
  Decisions <- MCDecisions
  Requests <- MCRequests
  StatusOf <- MCStatusOf
  Verdicts <- MCVerdicts
  MaxRevisions = 3
  MaxRestarts = 1
CHECK_DEADLOCK FALSE
INVARIANT EventChainLinear
