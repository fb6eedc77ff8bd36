-------------------------- MODULE MCDecisionLedger --------------------------
(***************************************************************************)
(* DecisionLedger on a small instance: two threads, two tenants, one       *)
(* decision.  One request is left to a human, one fails its audit.         *)
(***************************************************************************)
EXTENDS DecisionLedger, TLC

CONSTANTS t1, t2, tenant1, tenant2, d1, ask, fail

MCThreads == {t1, t2}
MCTenants == {tenant1, tenant2}
MCDecisions == {d1}
MCRequests == {ask, fail}
MCStatusOf == (ask :> "HUMAN_APPROVAL_REQUIRED") @@ (fail :> "AUDIT_FAILED")
MCVerdicts == {"approved", "rejected"}
=============================================================================
