------------------------- MODULE DeltaReconstruction -------------------------
(***************************************************************************)
(* Delta reconstruction: CausalReconstructor.reconstruct_with_delta,       *)
(* apply_delta_vars and _collect_delta_invalidated                         *)
(* (decision/reconstruction.py).  The request is evaluated, the declared   *)
(* delta variables are applied one after the other, each to the request    *)
(* the one before left, and the patched request is evaluated again.        *)
(*                                                                         *)
(* A delta variable is a record of its kind (the form of its path) with    *)
(* what the path names.  A path of no known form, one that names nothing   *)
(* declared and a weight outside 0..1 are all of kind "unsupported".       *)
(***************************************************************************)
EXTENDS ScenarioAnalysis, Sequences

CONSTANTS
  Requests,     \* the decision requests
  DeltaVars,    \* the delta variables callers declare
  Batches,      \* the sequences they declare them in
  CriterionIds, \* the criterion ids
  NoResult      \* nothing was evaluated yet

Mode == {"weighted", "constraint_only"}

RequestFields ==
  {"mode", "deps", "critical", "owned", "alternatives", "requires", "supplied",
   "metrics", "criteria", "constraints"}

\* A table of records or tables, as a function of functions.
IsTable(t) == t = [x \in DOMAIN t |-> [y \in DOMAIN t[x] |-> t[x][y]]]

\* The numbers of a request: every metric is absent, no number or an integer.
Numeric(r) ==
  /\ \A c \in Criteria(r) :
       /\ r.criteria[c].rule \in
            {"higher_is_better", "lower_is_better", "target_is_better"}
       /\ r.criteria[c].min \in Int /\ r.criteria[c].max \in Int
       /\ \A a \in r.alternatives :
            Value(r, a, c) \notin {Absent, Unreadable} => Value(r, a, c) \in Int
  /\ \A k \in r.constraints : k.penalty \in Int

\* The fields of a request, as far as the engine reads them.
WellShaped(r) ==
  /\ r = [f \in RequestFields |-> r[f]]
  /\ r.mode \in Mode
  /\ r.critical \subseteq Assumptions
  /\ r.alternatives \subseteq Alternatives
  /\ Criteria(r) \subseteq CriterionIds
  /\ IsFiniteSet(Criteria(r)) /\ IsFiniteSet(r.constraints)
  /\ IsTable(r.criteria) /\ IsTable(r.metrics)
  /\ DOMAIN r.metrics = Alternatives
  /\ Numeric(r)

Result ==
  [status : {"evidence_pending", "audit_failed", "human_approval_required"},
   leading : SUBSET Alternatives, pareto : SUBSET Alternatives,
   fragile : SUBSET CriterionIds, stable : SUBSET Alternatives,
   changing : SUBSET Assumptions]

ASSUME RequestAssumption ==
  /\ \A r \in Requests : Valid(r) /\ WellShaped(r)
  /\ \A dv \in DeltaVars :
       /\ dv.kind \in {"assumption", "criterion", "alternative", "unsupported"}
       /\ dv.kind = "assumption" => dv.assumption \in Assumptions
  /\ Batches \subseteq Seq(DeltaVars)
  /\ NoResult \notin Result

VARIABLES
  request,      \* the request, identity pinned
  batch,        \* the declared delta variables
  applied,      \* how many of them are applied
  patched,      \* the request they left
  before,       \* the baseline evaluation
  after,        \* the evaluation of the patched request
  invalidated,  \* the assumptions the report calls invalidated
  call          \* "running", "reported" or "raised"

vars == <<request, batch, applied, patched, before, after, invalidated, call>>

Init ==
  /\ request \in Requests
  /\ batch \in Batches
  /\ applied = 0
  /\ patched = request
  /\ before = NoResult
  /\ after = NoResult
  /\ invalidated = {}
  /\ call = "running"

EvaluateBaseline ==
  /\ call = "running" /\ before = NoResult
  /\ Readable(request)
  /\ before' = Evaluate(request)
  /\ UNCHANGED <<request, batch, applied, patched, after, invalidated, call>>

------------------------------------------------------------------------------
\* Faulty variant: only the named assumption counts as failed.
DroppedDirectly(r, x) ==
  [r EXCEPT !.alternatives = {a \in r.alternatives : x \notin r.requires[a]}]

\* Alternatives that require anything which fails with x lose their support.
Falsified(r, x) ==
  [r EXCEPT !.alternatives = {a \in r.alternatives :
     r.requires[a] \cap InvalidationClosure(r.deps, {x}) = {}}]

\* Faulty variant: the other criteria share the rest of the weight.
ReweighedAll(r, c, w) ==
  [r EXCEPT !.criteria =
     [d \in Criteria(r) |->
        [@[d] EXCEPT !.weight =
           IF d = c THEN w ELSE (Whole - w) \div (Cardinality(Criteria(r)) - 1)]]]

\* The other weights stay: what the validation demands of their sum is not
\* checked again.
Reweighed(r, c, w) == [r EXCEPT !.criteria[c].weight = w]

Remeasured(r, a, m, v) == [r EXCEPT !.metrics[a][m] = v]

\* Faulty variant: an assumption that drops nothing more is refused.
ApplicableWithEffect(r, dv) ==
  CASE dv.kind = "assumption"  -> Falsified(r, dv.assumption) # r
    [] dv.kind = "criterion"   -> TRUE
    [] dv.kind = "alternative" -> dv.alternative \in r.alternatives
    [] dv.kind = "unsupported" -> FALSE

\* A metric of an alternative that an earlier variable dropped is refused.
Applicable(r, dv) ==
  CASE dv.kind = "assumption"  -> TRUE
    [] dv.kind = "criterion"   -> TRUE
    [] dv.kind = "alternative" -> dv.alternative \in r.alternatives
    [] dv.kind = "unsupported" -> FALSE

Applied(r, dv) ==
  CASE dv.kind = "assumption"  -> Falsified(r, dv.assumption)
    [] dv.kind = "criterion"   -> Reweighed(r, dv.criterion, dv.weight)
    [] dv.kind = "alternative" ->
         Remeasured(r, dv.alternative, dv.metric, dv.value)

ApplyDeltaVar ==
  LET dv == batch[applied + 1]
  IN  /\ call = "running" /\ before # NoResult
      /\ applied < Len(batch)
      /\ Applicable(patched, dv)
      /\ patched' = Applied(patched, dv)
      /\ applied' = applied + 1
      /\ UNCHANGED <<request, batch, before, after, invalidated, call>>

\* Faulty variant: the call reports what it has.
StopAtDeltaVar ==
  /\ call = "running" /\ before # NoResult
  /\ applied < Len(batch)
  /\ ~Applicable(patched, batch[applied + 1])
  /\ call' = "reported"
  /\ UNCHANGED <<request, batch, applied, patched, before, after, invalidated>>

\* Fail closed: the call raises and nothing is reported.
RefuseDeltaVar ==
  /\ call = "running" /\ before # NoResult
  /\ applied < Len(batch)
  /\ ~Applicable(patched, batch[applied + 1])
  /\ call' = "raised"
  /\ UNCHANGED <<request, batch, applied, patched, before, after, invalidated>>

------------------------------------------------------------------------------
\* The assumptions the variables of s falsify.
Falsifies(s) ==
  {s[i].assumption : i \in {j \in DOMAIN s : s[j].kind = "assumption"}}

\* What they invalidate, in the dependency graph of the baseline.
CollectInvalidated(r, s) ==
  UNION {InvalidationClosure(r.deps, {x}) : x \in Falsifies(s)}

EvaluatePatched ==
  /\ call = "running" /\ before # NoResult
  /\ applied = Len(batch)
  /\ Readable(patched)
  /\ invalidated' = CollectInvalidated(request, batch)
  /\ after' = Evaluate(patched)
  /\ call' = "reported"
  /\ UNCHANGED <<request, batch, applied, patched, before>>

\* An evaluation that meets a value which is no number raises.
EvaluationRaises ==
  /\ call = "running"
  /\ \/ before = NoResult /\ ~Readable(request)
     \/ before # NoResult /\ applied = Len(batch) /\ ~Readable(patched)
  /\ call' = "raised"
  /\ UNCHANGED <<request, batch, applied, patched, before, after, invalidated>>

Next ==
  \/ EvaluateBaseline
  \/ ApplyDeltaVar
  \/ RefuseDeltaVar
  \/ EvaluatePatched
  \/ EvaluationRaises

Spec == Init /\ [][Next]_vars

IsConverged == before.leading = after.leading

------------------------------------------------------------------------------
(***************************************************************************)
(* Properties                                                              *)
(***************************************************************************)

\* Type invariant.
TypeOK ==
  /\ request \in Requests
  /\ batch \in Batches
  /\ applied \in 0 .. Len(batch)
  /\ DOMAIN patched = DOMAIN request
  /\ patched.alternatives \subseteq request.alternatives
  /\ invalidated \subseteq Assumptions
  /\ call \in {"running", "reported", "raised"}
  /\ call = "reported" => before # NoResult /\ after # NoResult

\* The variables are applied one at a time, each to what the others left,
\* and the report collects what they invalidate from the baseline: the
\* alternatives left are those that need nothing reported invalidated
\* (reconstruction.py:585-602, 648-660).
DroppedAsReported ==
  call = "reported" =>
    patched.alternatives =
      {a \in request.alternatives : request.requires[a] \cap invalidated = {}}

\* The criteria and metrics two variables may both write.
Target(dv) ==
  CASE dv.kind = "criterion"   -> <<dv.criterion>>
    [] dv.kind = "alternative" -> <<dv.alternative, dv.metric>>
    [] OTHER                   -> <<>>

Conflicting(s) ==
  \E i, j \in DOMAIN s :
    i # j /\ Target(s[i]) # <<>> /\ Target(s[i]) = Target(s[j])

\* The request after the first n variables of s, which must be applicable.
After(r, s, n) ==
  LET f[i \in 0 .. n] == IF i = 0 THEN r ELSE Applied(f[i - 1], s[i])
  IN  f[n]

Accepted(r, s) ==
  \A i \in DOMAIN s : Applicable(After(r, s, i - 1), s[i])

Reversed(s) == [i \in DOMAIN s |-> s[Len(s) + 1 - i]]

\* A batch that writes nothing twice is a set of corrections: taken in the
\* opposite order, where that is accepted, it leaves the same request.
SameInReverse ==
  ~Conflicting(batch) => After(request, Reversed(batch), Len(batch)) = patched

\* The batch measures an alternative that it drops.
MeasuresDropped ==
  \E i \in DOMAIN batch :
    /\ batch[i].kind = "alternative"
    /\ batch[i].alternative \in request.alternatives \ patched.alternatives

\* The order of a batch decides neither the result nor, but for the metrics
\* of an alternative that the batch drops itself, whether it is accepted
\* (reconstruction.py:585-645).
OrderIrrelevant ==
  call = "reported" =>
    IF Accepted(request, Reversed(batch)) THEN SameInReverse
    ELSE MeasuresDropped

\* The batch falsifies x and nothing else.
FalsifiesOnly(x) == Len(batch) = 1 /\ Falsifies(batch) = {x}

\* The counterfactual of a critical assumption (counterfactual.py:42-71) and
\* the delta reconstruction that falsifies it (reconstruction.py:429-564)
\* are separate computations.  Where something leads, they agree on whether
\* the leading candidates change, and a leader the counterfactual keeps
\* leads the reconstruction, although the best score may be gone and the 5%
\* gap is taken from another.
CounterfactualsPredictDeltas ==
  call = "reported" /\ before.leading # {} =>
    \A x \in request.critical :
      FalsifiesOnly(x) =>
        /\ IsConverged <=> x \notin before.changing
        /\ before.leading \ Affected(request, x) \subseteq after.leading

OnlyAssumptions == \A i \in DOMAIN batch : batch[i].kind = "assumption"

Failing(S) == [failed |-> S, overrides |-> {}]

\* A scenario fails what it names and nothing that depends on it: one that
\* names everything a batch invalidates leaves what the batch leaves, and
\* one that names what the batch falsifies keeps more, but only alternatives
\* that require a dependent (scenario.py:79-85, reconstruction.py:591-602).
ScenarioOfClosureIsDelta ==
  call = "reported" /\ OnlyAssumptions =>
    /\ ApplyScenario(request, Failing(invalidated)) = patched
    /\ patched.alternatives \subseteq Surviving(request, Failing(Falsifies(batch)))
    /\ \A a \in Surviving(request, Failing(Falsifies(batch)))
               \ patched.alternatives :
         request.requires[a] \cap (invalidated \ Falsifies(batch)) # {}

\* Every eligible alternative off the Pareto frontier is dominated by one on
\* it, equal alternatives included: nothing is hidden from the approver
\* without a better candidate to show (robustness.py:119-162).
FrontierCovers ==
  call = "running" /\ before # NoResult =>
    \A a \in Eligible(request) \ ParetoFrontier(request) :
      \E b \in ParetoFrontier(request) : Dominates(request, b, a)

------------------------------------------------------------------------------
(***************************************************************************)
(* What the documentation says and the code does not do                    *)
(***************************************************************************)

\* "WEIGHTED: top-scoring eligible alternatives" (selection.py:22): no
\* eligible alternative scores more than every leading candidate.
LeadersAreTopScoring ==
  request.mode = "weighted" /\ Readable(request) =>
    \A a \in Eligible(request) :
      \E b \in LeadingCandidates(request) :
        TotalScore(request, b) >= TotalScore(request, a)
=============================================================================
