----------------------------- MODULE MCHubService -----------------------------
(***************************************************************************)
(* HubService on a small instance: two clients, one of which may not       *)
(* approve, one decision, and no limit or one call a minute.               *)
(***************************************************************************)
EXTENDS HubService, TLC

CONSTANTS q1, d1, c1, c2

MCRequests == {q1}
MCStatusOf == [q \in {q1} |-> "HUMAN_APPROVAL_REQUIRED"]
MCVerdicts == {"approved"}
MCDecisions == {d1}
MCClients == {c1, c2}
MCPermitted == (c1 :> Operation) @@ (c2 :> {"analyze", "report"})
MCRates == {0, 1}
=============================================================================
