---------------------------- MODULE AtomicLedger ----------------------------
(***************************************************************************)
(* What the decision service promises: each decision has one history, and  *)
(* evaluating or approving it adds to that history in one atomic step.  An *)
(* approval says of the latest entry, and of no other, what the human      *)
(* answered.  No history is ever rewritten; a service without a database   *)
(* forgets all of them at once when it stops.                              *)
(***************************************************************************)
EXTENDS DecisionRecord

CONSTANTS Decisions   \* decision ids

VARIABLE ledger       \* the history of every decision

Init == ledger = [d \in Decisions |-> <<>>]

Evaluate(d, q) == ledger' = [ledger EXCEPT ![d] = Append(@, Evaluated(q))]

Approve(d, verdict) ==
  LET latest == ledger[d][Len(ledger[d])]
  IN  /\ ledger[d] # <<>>
      /\ Approvable(latest)
      /\ ledger' = [ledger EXCEPT ![d] = Append(@, Approved(latest, verdict))]

Forget == ledger' = [d \in Decisions |-> <<>>]

Next ==
  \/ \E d \in Decisions, q \in Requests : Evaluate(d, q)
  \/ \E d \in Decisions, verdict \in Verdicts : Approve(d, verdict)
  \/ Forget

Spec == Init /\ [][Next]_ledger
=============================================================================
