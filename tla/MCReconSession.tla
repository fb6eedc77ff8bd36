--------------------------- MODULE MCReconSession ---------------------------
(***************************************************************************)
(* ReconSession on a small instance: a2 depends on a1; one batch falsifies *)
(* a1, one rewrites a weight and keeps the leader, one changes it.         *)
(***************************************************************************)
EXTENDS ReconSession

CONSTANTS a1, a2, s1, s2

MCAssumptions == {a1, a2}
MCDependencies == (a1 :> {}) @@ (a2 :> {a1})
MCCandidates == {s1, s2}
MCBaseline == {s1}

MCDeltaBatches ==
  {[size |-> 1, falsifies |-> {a1}, leading |-> {s1}],
   [size |-> 2, falsifies |-> {}, leading |-> {s1}],
   [size |-> 1, falsifies |-> {}, leading |-> {s2}]}

\* No signals; one explained signal; one signal that matches nothing; both.
MCRequests == [hypotheses : {0, 1}, unresolved : {0, 1}]

\* Either budget runs out before the bound on rounds, or neither does.
MCBudgets ==
  {[maxIterations |-> 2, maxEvidence |-> 9],
   [maxIterations |-> 9, maxEvidence |-> 3]}

\* No evidence, and evidence on one assumption at a time.
MCEvidence ==
  {(a1 :> x) @@ (a2 :> "assumed") : x \in {"assumed", "verified", "falsified"}}
  \cup {(a1 :> "assumed") @@ (a2 :> "unfalsifiable")}
=============================================================================
