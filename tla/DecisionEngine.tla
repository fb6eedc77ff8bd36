---------------------------- MODULE DecisionEngine ----------------------------
(***************************************************************************)
(* The deterministic evaluation of a decision request: the structural      *)
(* audit (audit/auditor.py), the evaluator, the selection of the leading   *)
(* candidates, failure branches, counterfactuals and robustness            *)
(* (decision/evaluator.py, selection.py, counterfactual.py, robustness.py, *)
(* engine.py).                                                             *)
(*                                                                         *)
(* A request is a record:                                                  *)
(*   mode         "weighted" or "constraint_only"                          *)
(*   deps         what each assumption depends on                          *)
(*   critical     the critical assumptions                                 *)
(*   owned        the assumptions somebody is responsible for              *)
(*   alternatives the alternatives                                         *)
(*   requires     the assumptions each alternative requires                *)
(*   supplied     the alternatives all of whose evidence is supplied       *)
(*   metrics      each alternative's value of each metric                  *)
(*   criteria     metric, rule, min, max, target and weight of each        *)
(*   constraints  records of kind, metric, operator, expected and penalty  *)
(*                                                                         *)
(* Numbers are integers: a normalised score of 1 is Unit, a weight of 1 is *)
(* Whole, and totals and penalties are in Unit * Whole.  Unit is a         *)
(* multiple of every criterion's range, so that no score is rounded.       *)
(***************************************************************************)
EXTENDS Integers, FiniteSets, AssumptionGraph, FiniteSetsExt

CONSTANTS
  Alternatives,     \* the alternative ids
  Position,         \* the order in which alternatives are declared
  Unit, Whole,      \* a full normalised score, a full weight
  SensitivityDelta, \* the policy's weight perturbation
  RequireComplete,  \* the policy's require_all_alternatives_complete
  Absent,           \* a metric the alternative does not declare
  Unreadable        \* a metric that is no number

ASSUME EngineAssumption ==
  /\ IsFiniteSet(Alternatives)
  /\ Position \in [Alternatives -> Nat]
  /\ \A a, b \in Alternatives : Position[a] = Position[b] => a = b
  /\ Unit \in Nat \ {0} /\ Whole \in Nat \ {0}
  /\ SensitivityDelta \in 0 .. Whole
  /\ RequireComplete \in BOOLEAN
  /\ Absent # Unreadable

------------------------------------------------------------------------------
(***************************************************************************)
(* Evaluating one alternative                                              *)
(***************************************************************************)

\* Order comparisons and membership read both sides as numbers first.
Comparable(k, v) ==
  \/ k.operator \in {"eq", "ne"}
  \/ v # Unreadable /\ k.expected # Unreadable

Holds(k, v) ==
  CASE k.operator \in {"eq", "in"}     -> v = k.expected
    [] k.operator \in {"ne", "not_in"} -> v # k.expected
    [] k.operator = "gt"  -> v > k.expected
    [] k.operator = "gte" -> v >= k.expected
    [] k.operator = "lt"  -> v < k.expected
    [] k.operator = "lte" -> v <= k.expected

\* A check that could not be made is neither passed nor failed.
CheckConstraint(k, v) ==
  CASE v = Absent \/ ~Comparable(k, v) -> "unknown"
    [] v # Absent /\ Comparable(k, v) /\ Holds(k, v) -> "passed"
    [] OTHER -> "failed"

Abs(n) == IF n < 0 THEN -n ELSE n

\* The value is not clamped to the criterion's range.
NormalizeScore(c, v) ==
  CASE c.rule = "higher_is_better" ->
         (Unit * (v - c.min)) \div (c.max - c.min)
    [] c.rule = "lower_is_better" ->
         (Unit * (c.max - v)) \div (c.max - c.min)
    [] c.rule = "target_is_better" ->
         Unit - (Unit * Abs(v - c.target))
                  \div Max({c.target - c.min, c.max - c.target})

Criteria(r) == DOMAIN r.criteria

Value(r, a, c) == r.metrics[a][r.criteria[c].metric]

MissingMetrics(r, a) == {c \in Criteria(r) : Value(r, a, c) = Absent}

\* A value that is no number ends the evaluation with an exception.
Readable(r) ==
  \A a \in r.alternatives, c \in Criteria(r) : Value(r, a, c) # Unreadable

Score(r, a, c) == NormalizeScore(r.criteria[c], Value(r, a, c))

Checked(r, a, k) == CheckConstraint(k, r.metrics[a][k.metric])

HardPassed(r, a) ==
  \A k \in r.constraints : k.kind = "hard" => Checked(r, a, k) = "passed"

SoftPenalty(r, a) ==
  MapThenSumSet(LAMBDA k : k.penalty,
      {k \in r.constraints : k.kind = "soft" /\ Checked(r, a, k) = "failed"})

Scored(r, a) == Criteria(r) \ MissingMetrics(r, a)

HasScore(r, a) == r.mode = "weighted" /\ Scored(r, a) # {}

TotalScore(r, a) ==
  MapThenSumSet(LAMBDA c : Score(r, a, c) * r.criteria[c].weight, Scored(r, a))
  - SoftPenalty(r, a)

AlternativeStatus(r, a) ==
  CASE ~HardPassed(r, a) -> "ineligible"
    [] HardPassed(r, a) /\ (MissingMetrics(r, a) # {} \/ a \notin r.supplied) ->
         "incomplete"
    [] OTHER -> "eligible"

Eligible(r) == {a \in r.alternatives : AlternativeStatus(r, a) = "eligible"}

------------------------------------------------------------------------------
(***************************************************************************)
(* The leading candidates                                                  *)
(***************************************************************************)

First(S) == {a \in S : \A b \in S : Position[a] <= Position[b]}

\* The total is read with `or`: zero counts as no score.
Ranked(r) == {a \in Eligible(r) : HasScore(r, a) /\ TotalScore(r, a) # 0}

BestScore(r) == Max({TotalScore(r, a) : a \in Ranked(r)})

\* Within 5% of the best score; without a score, the first declared.
LeadingCandidates(r) ==
  CASE Eligible(r) = {} -> {}
    [] Eligible(r) # {} /\ r.mode = "constraint_only" -> Eligible(r)
    [] r.mode = "weighted" /\ Eligible(r) # {} /\ Ranked(r) = {} ->
         First(Eligible(r))
    [] r.mode = "weighted" /\ Ranked(r) # {} ->
         {a \in Ranked(r) :
            20 * (BestScore(r) - TotalScore(r, a)) <= Abs(BestScore(r))}

------------------------------------------------------------------------------
(***************************************************************************)
(* Failure branches and counterfactuals                                    *)
(***************************************************************************)

\* Alternatives that require an assumption which fails with x.
Affected(r, x) ==
  {a \in r.alternatives :
     r.requires[a] \cap InvalidationClosure(r.deps, {x}) # {}}

Remaining(r, x) == Eligible(r) \ Affected(r, x)

\* No selection is run on what remains: the leaders that remain lead, or else
\* the first alternative that does.
CounterfactualLeading(r, x) ==
  IF LeadingCandidates(r) \ Affected(r, x) # {}
  THEN LeadingCandidates(r) \ Affected(r, x)
  ELSE First(Remaining(r, x))

\* Faulty variant: the decision stands while any leader remains.
StatusWhileOneLeads(r, x) ==
  CASE Remaining(r, x) = {} -> "no_viable_alternative"
    [] Remaining(r, x) # {} /\ LeadingCandidates(r) \ Affected(r, x) # {} ->
         "leader_stable"
    [] OTHER -> "leader_changed"

CounterfactualStatus(r, x) ==
  CASE Remaining(r, x) = {} -> "no_viable_alternative"
    [] Remaining(r, x) # {} /\ LeadingCandidates(r) \cap Affected(r, x) = {} ->
         "leader_stable"
    [] OTHER -> "leader_changed"

DecisionChanged(r, x) ==
  CounterfactualStatus(r, x) \in {"leader_changed", "no_viable_alternative"}

\* Only critical assumptions have a branch.
FailureBranches(r) == r.critical

------------------------------------------------------------------------------
(***************************************************************************)
(* Robustness                                                              *)
(***************************************************************************)

\* Faulty variant: equal scores dominate.
WeaklyDominates(r, b, a) ==
  \A c \in Criteria(r) : Score(r, b, c) >= Score(r, a, c)

\* Every eligible alternative has a score for every criterion.
Dominates(r, b, a) ==
  /\ \A c \in Criteria(r) : Score(r, b, c) >= Score(r, a, c)
  /\ \E c \in Criteria(r) : Score(r, b, c) > Score(r, a, c)

ParetoFrontier(r) ==
  {a \in Eligible(r) : \A b \in Eligible(r) \ {a} : ~Dominates(r, b, a)}

Clamp(w) == Max({0, Min({w, Whole})})

\* An alternative's score when c weighs w and the rest is shared by the other
\* criteria in proportion to their weights, times a number that is the same
\* for every alternative.  Penalties are left out.
PerturbedScore(r, a, c, w) ==
  LET others   == Criteria(r) \ {c}
      total    == MapThenSumSet(LAMBDA d : r.criteria[d].weight, others)
      own      == IF c \in Scored(r, a) THEN Score(r, a, c) ELSE 0
      share(d) == IF total = 0 THEN 1 ELSE r.criteria[d].weight
      parts    == IF total = 0 THEN Cardinality(others) ELSE total
  IN  IF others = {} THEN w * own
      ELSE w * parts * own
           + (Whole - w)
             * MapThenSumSet(LAMBDA d : share(d) * Score(r, a, d),
                             Scored(r, a) \ {c})

\* As many alternatives as lead now, ineligible ones included, or one.
PerturbedLeading(r, c, w) ==
  LET score(a)    == PerturbedScore(r, a, c, w)
      ahead(b, a) == \/ score(b) > score(a)
                     \/ score(b) = score(a) /\ Position[b] < Position[a]
      size        == Max({1, Cardinality(LeadingCandidates(r))})
  IN  {a \in r.alternatives :
         Cardinality({b \in r.alternatives : ahead(b, a)}) < size}

SensitivityCases(r) ==
  IF r.mode = "weighted"
  THEN {<<c, Clamp(r.criteria[c].weight + d)>> :
          c \in Criteria(r), d \in {SensitivityDelta, -SensitivityDelta}}
  ELSE {}

FragileCriteria(r) ==
  {s[1] : s \in {t \in SensitivityCases(r) :
                   PerturbedLeading(r, t[1], t[2]) # LeadingCandidates(r)}}

StableLeaders(r) ==
  {a \in LeadingCandidates(r) :
     \A s \in SensitivityCases(r) : a \in PerturbedLeading(r, s[1], s[2])}

------------------------------------------------------------------------------
(***************************************************************************)
(* The result                                                              *)
(***************************************************************************)

\* A critical assumption nobody is responsible for blocks; so do missing
\* metrics and evidence when the policy requires completeness.
Blocking(r) ==
  \/ \E x \in r.critical : x \notin r.owned
  \/ /\ RequireComplete
     /\ \E a \in r.alternatives : MissingMetrics(r, a) # {} \/ a \notin r.supplied

DecisionStatus(r) ==
  CASE Blocking(r) -> "evidence_pending"
    [] ~Blocking(r) /\ Eligible(r) = {} -> "audit_failed"
    [] OTHER -> "human_approval_required"

Evaluate(r) ==
  [status   |-> DecisionStatus(r),
   leading  |-> LeadingCandidates(r),
   pareto   |-> ParetoFrontier(r),
   fragile  |-> FragileCriteria(r),
   stable   |-> StableLeaders(r),
   changing |-> {x \in FailureBranches(r) : DecisionChanged(r, x)}]

\* What the validation of a request guarantees (models/schemas.py).
Valid(r) ==
  /\ r.alternatives # {}
  /\ \A c \in Criteria(r) :
       /\ r.criteria[c].max > r.criteria[c].min
       /\ r.criteria[c].rule = "target_is_better" =>
            r.criteria[c].target \in r.criteria[c].min .. r.criteria[c].max
       /\ r.criteria[c].weight \in 0 .. Whole
  /\ \A k \in r.constraints : (k.kind = "soft") <=> (k.penalty > 0)
  /\ r.mode = "weighted" =>
       /\ Criteria(r) # {}
       /\ MapThenSumSet(LAMBDA c : r.criteria[c].weight, Criteria(r)) = Whole
=============================================================================
