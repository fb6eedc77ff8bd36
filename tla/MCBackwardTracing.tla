-------------------------- MODULE MCBackwardTracing --------------------------
(***************************************************************************)
(* BackwardTracing over every dependency graph of three assumptions with   *)
(* every state of their evidence, and two signals.                         *)
(***************************************************************************)
EXTENDS BackwardTracing, TLC

CONSTANTS a1, a2, a3, m1, m2

MCAssumptions == {a1, a2, a3}
MCInOrder ==
  [S \in SUBSET MCAssumptions |->
     SelectSeq(<<a1, a2, a3>>, LAMBDA a : a \in S)]
MCSignals == {m1, m2}

\* The signals are about different assumptions, or share one.
MCMentionTables ==
  {(m1 :> {a1}) @@ (m2 :> {a2}), (m1 :> {a1, a2}) @@ (m2 :> {a2, a3})}
=============================================================================
