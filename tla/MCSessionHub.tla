---------------------------- MODULE MCSessionHub ----------------------------
(***************************************************************************)
(* SessionHub on a small instance: two callers of a session with one       *)
(* assumption, at most two rounds deep.                                    *)
(***************************************************************************)
EXTENDS SessionHub, TLC

CONSTANTS a1, s1, s2, c1, c2

MCAssumptions == {a1}
MCDependencies == [a \in {a1} |-> {}]
MCCandidates == {s1, s2}
MCBaseline == {s1}

\* One batch falsifies the assumption, one changes the leader.
MCDeltaBatches ==
  {[size |-> 1, falsifies |-> {a1}, leading |-> {s1}],
   [size |-> 1, falsifies |-> {}, leading |-> {s2}]}

\* No signals: the session converges by fixed point or by no gain.
MCRequests == {[hypotheses |-> 0, unresolved |-> 0]}
MCBudgets == {[maxIterations |-> 3, maxEvidence |-> 1]}

MCEvidence == [{a1} -> {"assumed", "verified"}]

MCCallers == {c1, c2}
CallerSymmetry == Permutations(MCCallers)
=============================================================================
