------------------------ MODULE MCDeltaReconstruction ------------------------
(***************************************************************************)
(* DeltaReconstruction over requests of three assumptions, three           *)
(* alternatives, two criteria and up to two constraints, and every batch   *)
(* of at most two of the delta variables below.                            *)
(***************************************************************************)
EXTENDS DeltaReconstruction, TLC, SequencesExt

CONSTANTS a1, a2, a3, s1, s2, s3, k1, k2, cost, gain

MCAssumptions == {a1, a2, a3}
MCAlternatives == {s1, s2, s3}
MCPosition == (s1 :> 1) @@ (s2 :> 2) @@ (s3 :> 3)

\* Independent, a chain of three, a circle of two.
DependencyTables ==
  {[a \in MCAssumptions |-> {}],
   (a1 :> {}) @@ (a2 :> {a1}) @@ (a3 :> {a2}),
   (a1 :> {a2}) @@ (a2 :> {a1}) @@ (a3 :> {})}

\* One assumption each; shared; one alternative that needs nothing.
RequirementTables ==
  {(s1 :> {a1}) @@ (s2 :> {a2}) @@ (s3 :> {a3}),
   (s1 :> {a1, a2}) @@ (s2 :> {a3}) @@ (s3 :> {})}

Row(c, g) == (cost :> c) @@ (gain :> g)

\* Cost is better low, gain near 2.  Close, equal, all but zero, dominated,
\* incomplete and unreadable values.
MetricTables ==
  {(s1 :> Row(1, 2)) @@ (s2 :> Row(1, 2)) @@ (s3 :> Row(2, 4)),
   (s1 :> Row(0, 3)) @@ (s2 :> Row(3, 2)) @@ (s3 :> Row(1, 1)),
   (s1 :> Row(4, 0)) @@ (s2 :> Row(6, 4)) @@ (s3 :> Row(4, 4)),
   (s1 :> Row(1, Absent)) @@ (s2 :> Row(2, 2)) @@ (s3 :> Row(2, 3)),
   (s1 :> Row(Unreadable, 1)) @@ (s2 :> Row(1, 1)) @@ (s3 :> Row(0, 0))}

Criterion1(w) ==
  [metric |-> cost, rule |-> "lower_is_better", min |-> 0, max |-> 4,
   target |-> 0, weight |-> w]
Criterion2(w) ==
  [metric |-> gain, rule |-> "target_is_better", min |-> 0, max |-> 4,
   target |-> 2, weight |-> w]
Criterion3(w) == [Criterion2(w) EXCEPT !.rule = "higher_is_better"]

CriterionTables ==
  {(k1 :> Criterion1(2)) @@ (k2 :> Criterion2(2)),
   (k1 :> Criterion1(3)) @@ (k2 :> Criterion3(1)),
   (k1 :> Criterion1(4)) @@ (k2 :> Criterion3(0))}

Hard(op, e) ==
  [kind |-> "hard", metric |-> cost, operator |-> op, expected |-> e,
   penalty |-> 0]
Soft(op, e) ==
  [kind |-> "soft", metric |-> gain, operator |-> op, expected |-> e,
   penalty |-> 4]

ConstraintSets ==
  {{}, {Hard("lte", 1), Soft("gt", 1)}, {Hard("in", Unreadable)},
   {Hard("ne", 2), Soft("not_in", 2)}, {Hard("gte", 1), Hard("lt", 5)}}

MCAllRequests ==
  [mode : {"weighted", "constraint_only"}, deps : DependencyTables,
   critical : {{a1, a2}}, owned : {{a1, a2}, {a1}},
   alternatives : {MCAlternatives}, requires : RequirementTables,
   supplied : {MCAlternatives, {s2, s3}}, metrics : MetricTables,
   criteria : CriterionTables, constraints : ConstraintSets]

Plain(r) == r.owned = {a1, a2} /\ r.supplied = MCAlternatives

\* Every table of dependencies and requirements with every table of values;
\* then, for one of them, every criterion table and constraint set, and what
\* is missing or not owned.
MCRequests ==
  {r \in MCAllRequests :
     /\ Valid(r)
     /\ \/ Plain(r) /\ r.constraints = {} /\ r.criteria[k1].weight = 2
        \/ /\ r.deps[a2] = {a1} /\ r.deps[a3] = {a2}
           /\ r.requires[s3] = {a3}
           /\ r.mode = "weighted"
           /\ \/ Plain(r)
              \/ r.constraints = {} /\ r.criteria[k1].weight = 2}

MCDeltaVars ==
  {[kind |-> "assumption", assumption |-> a] : a \in {a1, a2}}
  \cup {[kind |-> "criterion", criterion |-> k1, weight |-> 2],
        [kind |-> "criterion", criterion |-> k2, weight |-> 4],
        [kind |-> "alternative", alternative |-> s1, metric |-> gain, value |-> 2],
        [kind |-> "alternative", alternative |-> s2, metric |-> gain,
         value |-> Unreadable],
        [kind |-> "unsupported"]}

MCCriterionIds == {k1, k2}

MCBatches == SeqOf(MCDeltaVars, 2)
=============================================================================
