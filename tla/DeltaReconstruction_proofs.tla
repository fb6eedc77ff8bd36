---------------------- MODULE DeltaReconstruction_proofs ----------------------
(***************************************************************************)
(* What a delta reconstruction drops is what it reports, for every request *)
(* and batch of delta variables: the variables are applied one after the   *)
(* other, each to what the others left, while the invalidated assumptions  *)
(* are collected from the baseline.  The invariant relates the patched     *)
(* request, after any number of variables, to the baseline and to what the *)
(* variables applied so far invalidate in its dependency graph.            *)
(***************************************************************************)
EXTENDS DeltaReconstruction, SequenceTheorems, FiniteSetTheorems,
        WellFoundedInduction, TLAPS

------------------------------------------------------------------------------
(***************************************************************************)
(* Induction, as the existence of least and maximal elements               *)
(***************************************************************************)

\* A non-empty set of naturals has a least element.
LEMMA LeastNatural ==
  ASSUME NEW T \in SUBSET Nat, T # {}
  PROVE  \E x \in T : \A y \in T : x <= y
<1> DEFINE R == {p \in Nat \X Nat : p[1] < p[2]}
<1>1. IsWellFoundedOn(OpToRel(<, Nat), Nat)
  BY NatLessThanWellFounded
<1>2. OpToRel(<, Nat) = R
  BY DEF OpToRel
<1>3. IsWellFoundedOn(R, Nat)
  BY <1>1, <1>2
<1> HIDE DEF R
<1>4. PICK x \in T : \A y \in T : ~ (<<y, x>> \in R)
  BY <1>3, WFMin
<1>5. \A y \in T : ~ (y < x)
  BY <1>4 DEF R
<1> QED
  BY <1>5

\* A strict order has maximal elements in every non-empty finite set.
LEMMA MaximalElement ==
  ASSUME NEW S, IsFiniteSet(S), NEW R, NEW T \in SUBSET S, T # {},
         \A x \in S : <<x, x>> \notin R,
         \A x, y, z \in S : <<x, y>> \in R /\ <<y, z>> \in R => <<x, z>> \in R
  PROVE  \E x \in T : \A y \in S : <<x, y>> \notin R \/ y \notin T
<1> DEFINE Above(x) == {y \in T : <<x, y>> \in R}
           sizes == {n \in Nat : \E x \in T : n = Cardinality(Above(x))}
<1>1. \A x \in T : Above(x) \in SUBSET S
  OBVIOUS
<1>2. \A x \in T : IsFiniteSet(Above(x))
  BY <1>1, FS_Subset
<1>3. \A x \in T : Cardinality(Above(x)) \in Nat
  BY <1>2, FS_CardinalityType
<1>4. PICK n \in sizes : \A m \in sizes : n <= m
  <2>1. sizes \in SUBSET Nat /\ sizes # {}
    <3>1. PICK x \in T : TRUE
      OBVIOUS
    <3>2. Cardinality(Above(x)) \in sizes
      BY <1>3
    <3> QED
      BY <3>2
  <2> HIDE DEF sizes
  <2>2. \E k \in sizes : \A m \in sizes : k <= m
    BY <2>1, LeastNatural
  <2> QED
    BY <2>2
<1>5. PICK x \in T : n = Cardinality(Above(x))
  OBVIOUS
<1>6. ASSUME NEW y \in T, <<x, y>> \in R
      PROVE  FALSE
  <2>1. Above(y) \subseteq Above(x)
    BY <1>6
  <2>2. y \in Above(x) /\ y \notin Above(y)
    BY <1>6
  <2>3. Cardinality(Above(y)) <= Cardinality(Above(x))
    BY <1>2, <2>1, FS_Subset
  <2>4. Cardinality(Above(y)) # Cardinality(Above(x))
    BY <1>2, <2>1, <2>2, FS_Subset
  <2>5. n <= Cardinality(Above(y))
    <3>1. Cardinality(Above(y)) \in sizes
      BY <1>3
    <3> HIDE DEF sizes
    <3> QED
      BY <1>4, <3>1
  <2> HIDE DEF Above
  <2> QED
    BY <1>3, <1>5, <2>3, <2>4, <2>5
<1> QED
  BY <1>6

\* A non-empty finite set of integers has a greatest element.
LEMMA GreatestElement ==
  ASSUME NEW S \in SUBSET Int, IsFiniteSet(S), S # {}
  PROVE  Max(S) \in S /\ \A x \in S : Max(S) >= x
<1> DEFINE R == {p \in Int \X Int : p[1] < p[2]}
<1>1. /\ \A x \in S : <<x, x>> \notin R
      /\ \A x, y, z \in S : <<x, y>> \in R /\ <<y, z>> \in R => <<x, z>> \in R
      /\ \A x, y \in S : x < y => <<x, y>> \in R
  OBVIOUS
<1> HIDE DEF R
<1>2. \E x \in S : \A y \in S : <<x, y>> \notin R \/ y \notin S
  BY <1>1, MaximalElement, Zenon
<1>3. PICK z \in S : \A y \in S : <<z, y>> \notin R
  BY <1>2
<1>4. \A y \in S : z >= y
  <2>1. \A y \in S : ~ (z < y)
    BY <1>1, <1>3
  <2> QED
    BY <2>1
<1> QED
  BY <1>4 DEF Max

\* The fold a sum over a finite set is defined by.
Pick(s) == CHOOSE x \in s : TRUE

SumStep(S, g, f) ==
  [s \in SUBSET S |->
     IF s = {} THEN 0 ELSE g[Pick(s)] + f[s \ {Pick(s)}]]

LEMMA PickSmaller ==
  ASSUME NEW S, IsFiniteSet(S), NEW s \in SUBSET S, s # {}
  PROVE  /\ Pick(s) \in S
         /\ s \ {Pick(s)} \in SUBSET S
         /\ Cardinality(s) \in Nat
         /\ Cardinality(s \ {Pick(s)}) \in Nat
         /\ Cardinality(s \ {Pick(s)}) = Cardinality(s) - 1
<1>1. Pick(s) \in s
  BY DEF Pick
<1>2. IsFiniteSet(s)
  BY FS_Subset
<1> QED
  BY <1>1, <1>2, FS_RemoveElement, FS_CardinalityType

\* The recursion has a solution.
LEMMA SumExists ==
  ASSUME NEW S, IsFiniteSet(S), NEW g \in [S -> Int]
  PROVE  \E f \in [SUBSET S -> Int] : f = SumStep(S, g, f)
<1> DEFINE Upto(f, n) == \A s \in SUBSET S :
                           Cardinality(s) <= n => f[s] = SumStep(S, g, f)[s]
           Solved(n) == \E f \in [SUBSET S -> Int] : Upto(f, n)
           bad == {n \in Nat : ~ Solved(n)}
<1>1. \A s \in SUBSET S : Cardinality(s) \in Nat /\ Cardinality(s) <= Cardinality(S)
  BY FS_Subset, FS_CardinalityType
<1>2. Solved(0)
  <2> DEFINE f == [s \in SUBSET S |-> 0]
  <2>1. \A s \in SUBSET S : Cardinality(s) <= 0 => s = {}
    <3> SUFFICES ASSUME NEW s \in SUBSET S, Cardinality(s) <= 0
                 PROVE  s = {}
      OBVIOUS
    <3>1. IsFiniteSet(s) /\ Cardinality(s) = 0
      BY <1>1, FS_Subset
    <3> QED
      BY <3>1, FS_EmptySet
  <2>2. Upto(f, 0)
    BY <2>1 DEF SumStep
  <2>3. f \in [SUBSET S -> Int]
    OBVIOUS
  <2> HIDE DEF f, Upto
  <2> QED
    BY <2>2, <2>3
<1>3. ASSUME NEW n \in Nat, Solved(n)
      PROVE  Solved(n + 1)
  <2>1. PICK f \in [SUBSET S -> Int] : Upto(f, n)
    BY <1>3
  <2> DEFINE h == [s \in SUBSET S |->
                     IF Cardinality(s) <= n THEN f[s] ELSE SumStep(S, g, f)[s]]
  <2>2. ASSUME NEW s \in SUBSET S
        PROVE  SumStep(S, g, f)[s] \in Int
    <3>1. CASE s = {}
      BY <3>1 DEF SumStep
    <3>2. CASE s # {}
      <4>1. SumStep(S, g, f)[s] = g[Pick(s)] + f[s \ {Pick(s)}]
        BY <3>2 DEF SumStep
      <4>2. Pick(s) \in S /\ s \ {Pick(s)} \in SUBSET S
        BY <3>2, PickSmaller
      <4> QED
        BY <4>1, <4>2
    <3> QED
      BY <3>1, <3>2
  <2>3. h \in [SUBSET S -> Int]
    BY <2>2
  <2>4. \A s \in SUBSET S : h[s] = SumStep(S, g, f)[s]
    BY <2>1
  <2>5. ASSUME NEW s \in SUBSET S, Cardinality(s) <= n + 1
        PROVE  SumStep(S, g, h)[s] = SumStep(S, g, f)[s]
    <3>1. CASE s = {}
      BY <3>1 DEF SumStep
    <3>2. CASE s # {}
      <4>1. /\ s \ {Pick(s)} \in SUBSET S
            /\ Cardinality(s \ {Pick(s)}) <= n
        BY <1>1, <2>5, <3>2, PickSmaller
      <4>2. h[s \ {Pick(s)}] = f[s \ {Pick(s)}]
        BY <4>1
      <4> HIDE DEF h
      <4> QED
        BY <3>2, <4>1, <4>2 DEF SumStep
    <3> QED
      BY <3>1, <3>2
  <2>6. Upto(h, n + 1)
    BY <2>4, <2>5
  <2> QED
    BY <2>3, <2>6
<1>4. bad = {}
  <2> SUFFICES ASSUME bad # {}
               PROVE  FALSE
    OBVIOUS
  <2> HIDE DEF Solved
  <2>1. bad \in SUBSET Nat
    OBVIOUS
  <2>2. PICK k \in bad : \A m \in bad : k <= m
    BY <2>1, LeastNatural
  <2>3. k # 0
    BY <1>2
  <2>4. k - 1 \in Nat /\ k - 1 \notin bad
    BY <2>2, <2>3
  <2>5. Solved(k - 1 + 1)
    BY <1>3, <2>4
  <2>6. k - 1 + 1 = k
    OBVIOUS
  <2> QED
    BY <2>5, <2>6
<1>5. PICK f \in [SUBSET S -> Int] : Upto(f, Cardinality(S))
  <2>1. Cardinality(S) \in Nat
    BY <1>1
  <2> QED
    BY <1>4, <2>1
<1>6. \A s \in SUBSET S : f[s] = SumStep(S, g, f)[s]
  BY <1>1, <1>5
<1>7. f = SumStep(S, g, f)
  BY <1>6 DEF SumStep
<1> QED
  BY <1>7

\* Every solution is a function to the integers.
LEMMA SumTyped ==
  ASSUME NEW S, IsFiniteSet(S), NEW g \in [S -> Int], NEW f,
         f = SumStep(S, g, f)
  PROVE  \A s \in SUBSET S : f[s] \in Int
<1> DEFINE bad == {n \in Nat : \E s \in SUBSET S : Cardinality(s) = n /\ f[s] \notin Int}
<1>1. \A s \in SUBSET S : IsFiniteSet(s) /\ Cardinality(s) \in Nat
  BY FS_Subset, FS_CardinalityType
<1>2. bad = {}
  <2> SUFFICES ASSUME bad # {}
               PROVE  FALSE
    OBVIOUS
  <2>1. bad \in SUBSET Nat
    OBVIOUS
  <2>2. PICK k \in bad : \A m \in bad : k <= m
    <3> HIDE DEF bad
    <3> QED
      BY <2>1, LeastNatural
  <2>3. PICK s \in SUBSET S : Cardinality(s) = k /\ f[s] \notin Int
    BY <2>2
  <2>4. f[s] = IF s = {} THEN 0 ELSE g[Pick(s)] + f[s \ {Pick(s)}]
    <3>1. SumStep(S, g, f)[s] = IF s = {} THEN 0 ELSE g[Pick(s)] + f[s \ {Pick(s)}]
      BY DEF SumStep
    <3> QED
      BY <3>1
  <2>5. s # {}
    BY <2>3, <2>4
  <2>6. /\ Pick(s) \in S
        /\ s \ {Pick(s)} \in SUBSET S
        /\ Cardinality(s \ {Pick(s)}) = k - 1
        /\ k \in Nat
        /\ k - 1 \in Nat
    <3>1. IsFiniteSet(S) /\ k \in Nat
      OBVIOUS
    <3> HIDE DEF bad
    <3>2. /\ Pick(s) \in S
          /\ s \ {Pick(s)} \in SUBSET S
          /\ Cardinality(s \ {Pick(s)}) \in Nat
          /\ Cardinality(s \ {Pick(s)}) = Cardinality(s) - 1
      BY <2>5, <3>1, PickSmaller
    <3> QED
      BY <2>3, <3>1, <3>2
  <2>7. f[s \ {Pick(s)}] \notin Int
    BY <2>3, <2>4, <2>5, <2>6
  <2>8. k - 1 \in bad
    BY <2>6, <2>7
  <2> HIDE DEF bad
  <2> QED
    BY <2>2, <2>6, <2>8
<1> QED
  BY <1>1, <1>2

------------------------------------------------------------------------------
(***************************************************************************)
(* The evaluation                                                          *)
(***************************************************************************)

\* Leading candidates are alternatives of the request.
LEMMA LeadersAreAlternatives ==
  ASSUME NEW r, r.mode \in Mode
  PROVE  LeadingCandidates(r) \subseteq r.alternatives
<1>1. Eligible(r) \subseteq r.alternatives
  BY DEF Eligible
<1>2. Ranked(r) \subseteq Eligible(r) /\ First(Eligible(r)) \subseteq Eligible(r)
  BY DEF Ranked, First
<1>3. CASE Eligible(r) = {}
  <2>1. LeadingCandidates(r) = {}
    BY <1>2, <1>3 DEF LeadingCandidates
  <2> QED
    BY <2>1
<1>4. CASE Eligible(r) # {} /\ r.mode = "constraint_only"
  <2>1. LeadingCandidates(r) = Eligible(r)
    BY <1>4 DEF LeadingCandidates
  <2> QED
    BY <1>1, <2>1
<1>5. CASE Eligible(r) # {} /\ r.mode = "weighted" /\ Ranked(r) = {}
  <2>1. LeadingCandidates(r) = First(Eligible(r))
    BY <1>5 DEF LeadingCandidates
  <2> QED
    BY <1>1, <1>2, <2>1
<1>6. CASE Eligible(r) # {} /\ r.mode = "weighted" /\ Ranked(r) # {}
  <2>1. LeadingCandidates(r) \subseteq Ranked(r)
    BY <1>6 DEF LeadingCandidates
  <2> QED
    BY <1>1, <1>2, <2>1
<1> QED
  BY <1>3, <1>4, <1>5, <1>6 DEF Mode

\* An evaluation yields a result.
LEMMA EvaluationYieldsResult ==
  ASSUME NEW r, r.mode \in Mode, r.critical \subseteq Assumptions,
         r.alternatives \subseteq Alternatives,
         Criteria(r) \subseteq CriterionIds
  PROVE  Evaluate(r) \in Result
<1>1. DecisionStatus(r) \in
        {"evidence_pending", "audit_failed", "human_approval_required"}
  BY DEF DecisionStatus
<1>2. LeadingCandidates(r) \subseteq Alternatives
  BY LeadersAreAlternatives
<1>3. ParetoFrontier(r) \subseteq Alternatives
  BY DEF ParetoFrontier, Eligible
<1>4. FragileCriteria(r) \subseteq CriterionIds
  <2>1. \A s \in SensitivityCases(r) : s[1] \in CriterionIds
    BY DEF SensitivityCases
  <2> QED
    BY <2>1 DEF FragileCriteria
<1>5. StableLeaders(r) \subseteq Alternatives
  BY <1>2 DEF StableLeaders
<1>6. {x \in FailureBranches(r) : DecisionChanged(r, x)} \subseteq Assumptions
  BY DEF FailureBranches
<1> QED
  BY <1>1, <1>2, <1>3, <1>4, <1>5, <1>6 DEF Evaluate, Result

------------------------------------------------------------------------------
(***************************************************************************)
(* Scores, totals and dominance                                            *)
(***************************************************************************)

\* The sum a total is made of.
WeightedSum(r, a) ==
  MapThenSumSet(LAMBDA c : Score(r, a, c) * r.criteria[c].weight, Scored(r, a))

LEMMA WeightedSumIsInteger ==
  ASSUME NEW r, NEW a, IsFiniteSet(Scored(r, a)),
         \A c \in Scored(r, a) : Score(r, a, c) * r.criteria[c].weight \in Int
  PROVE  WeightedSum(r, a) \in Int
<1> DEFINE S == Scored(r, a)
           term(c) == Score(r, a, c) * r.criteria[c].weight
           g == [c \in S |-> term(c)]
           step(f) == [s \in SUBSET S |->
                         IF s = {} THEN 0 ELSE term(Pick(s)) + f[s \ {Pick(s)}]]
<1>1. g \in [S -> Int]
  OBVIOUS
<1>2. WeightedSum(r, a) = (CHOOSE f : f = step(f))[S]
  BY DEF WeightedSum, MapThenSumSet, MapThenFoldSet, Pick
<1>3. \A s \in SUBSET S : s # {} => Pick(s) \in S /\ g[Pick(s)] = term(Pick(s))
  BY DEF Pick
<1> HIDE DEF g, term
<1>4. ASSUME NEW f
      PROVE  step(f) = SumStep(S, g, f)
  <2> HIDE DEF S
  <2> QED
    BY <1>3 DEF SumStep
<1>5. IsFiniteSet(S)
  OBVIOUS
<1> HIDE DEF S
<1>6. PICK f : f = SumStep(S, g, f)
  BY <1>1, <1>5, SumExists
<1>7. f = step(f)
  BY <1>4, <1>6
<1> HIDE DEF step
<1>8. PICK F : F = (CHOOSE h : h = step(h))
  OBVIOUS
<1>9. F = step(F)
  BY <1>7, <1>8
<1>10. F = SumStep(S, g, F)
  BY <1>4, <1>9
<1>11. F[S] \in Int
  BY <1>1, <1>5, <1>10, SumTyped
<1> QED
  BY <1>2, <1>8, <1>11

LEMMA SoftPenaltyIsInteger ==
  ASSUME NEW r, NEW a, IsFiniteSet(r.constraints),
         \A k \in r.constraints : k.penalty \in Int
  PROVE  SoftPenalty(r, a) \in Int
<1> DEFINE S == {k \in r.constraints :
                   k.kind = "soft" /\ Checked(r, a, k) = "failed"}
           g == [k \in S |-> k.penalty]
           step(f) == [s \in SUBSET S |->
                         IF s = {} THEN 0 ELSE Pick(s).penalty + f[s \ {Pick(s)}]]
<1>1. g \in [S -> Int]
  OBVIOUS
<1>2. SoftPenalty(r, a) = (CHOOSE f : f = step(f))[S]
  BY DEF SoftPenalty, MapThenSumSet, MapThenFoldSet, Pick
<1>3. \A s \in SUBSET S : s # {} => g[Pick(s)] = Pick(s).penalty
  BY DEF Pick
<1>4. IsFiniteSet(S)
  BY FS_Subset
<1> HIDE DEF g, S
<1>5. ASSUME NEW f
      PROVE  step(f) = SumStep(S, g, f)
  BY <1>3 DEF SumStep
<1>6. PICK f : f = SumStep(S, g, f)
  BY <1>1, <1>4, SumExists
<1>7. f = step(f)
  BY <1>5, <1>6
<1> HIDE DEF step
<1>8. PICK F : F = (CHOOSE h : h = step(h))
  OBVIOUS
<1>9. F = step(F)
  BY <1>7, <1>8
<1>10. F = SumStep(S, g, F)
  BY <1>5, <1>9
<1>11. F[S] \in Int
  BY <1>1, <1>4, <1>10, SumTyped
<1> QED
  BY <1>2, <1>8, <1>11

LEMMA MaxOfTwo ==
  ASSUME NEW i \in Int, NEW j \in Int
  PROVE  Max({i, j}) \in Int /\ Max({i, j}) >= i /\ Max({i, j}) >= j
<1>1. IsFiniteSet({i, j}) /\ {i, j} # {} /\ {i, j} \in SUBSET Int
  <2>1. {i, j} = {i} \cup {j}
    OBVIOUS
  <2>2. IsFiniteSet({i}) /\ IsFiniteSet({j})
    BY FS_Singleton
  <2>3. IsFiniteSet({i} \cup {j})
    BY <2>2, FS_Union
  <2> QED
    BY <2>1, <2>3
<1>2. Max({i, j}) \in {i, j} /\ \A x \in {i, j} : Max({i, j}) >= x
  <2> DEFINE S == {i, j}
  <2> HIDE DEF S
  <2>1. Max(S) \in S /\ \A x \in S : Max(S) >= x
    BY <1>1, GreatestElement DEF S
  <2> QED
    BY <2>1 DEF S
<1> QED
  BY <1>2

\* A number scores a number.
LEMMA ScoresAreIntegers ==
  ASSUME NEW r, Valid(r), Numeric(r), NEW a, NEW c \in Criteria(r),
         Value(r, a, c) \in Int
  PROVE  Score(r, a, c) \in Int
<1> DEFINE k == r.criteria[c]
           v == Value(r, a, c)
<1>1. /\ k.min \in Int /\ k.max \in Int /\ k.max > k.min
      /\ k.rule \in {"higher_is_better", "lower_is_better", "target_is_better"}
      /\ k.rule = "target_is_better" => k.target \in k.min .. k.max
  BY DEF Valid, Numeric
<1>2. v \in Int /\ Unit \in Int
  BY EngineAssumption
<1>3. Score(r, a, c) = NormalizeScore(k, v)
  BY DEF Score
<1> HIDE DEF k, v
<1>4. CASE k.rule = "higher_is_better"
  <2>1. NormalizeScore(k, v) = (Unit * (v - k.min)) \div (k.max - k.min)
    BY <1>4 DEF NormalizeScore
  <2>2. Unit * (v - k.min) \in Int /\ k.max - k.min \in Int /\ k.max - k.min > 0
    BY <1>1, <1>2
  <2> QED
    BY <1>3, <2>1, <2>2
<1>5. CASE k.rule = "lower_is_better"
  <2>1. NormalizeScore(k, v) = (Unit * (k.max - v)) \div (k.max - k.min)
    BY <1>5 DEF NormalizeScore
  <2>2. Unit * (k.max - v) \in Int /\ k.max - k.min \in Int /\ k.max - k.min > 0
    BY <1>1, <1>2
  <2> QED
    BY <1>3, <2>1, <2>2
<1>6. CASE k.rule = "target_is_better"
  <2> DEFINE d == Max({k.target - k.min, k.max - k.target})
  <2>1. NormalizeScore(k, v) = Unit - (Unit * Abs(v - k.target)) \div d
    BY <1>6 DEF NormalizeScore
  <2>2. k.target \in Int
    BY <1>1, <1>6
  <2>3. d \in Int /\ d >= k.target - k.min /\ d >= k.max - k.target
    <3>1. k.target - k.min \in Int /\ k.max - k.target \in Int
      BY <1>1, <2>2
    <3> QED
      BY <3>1, MaxOfTwo
  <2>4. Unit * Abs(v - k.target) \in Int
    BY <1>2, <2>2 DEF Abs
  <2> HIDE DEF d
  <2>5. d > 0
    BY <1>1, <2>2, <2>3
  <2> QED
    BY <1>2, <1>3, <2>1, <2>3, <2>4, <2>5
<1> QED
  BY <1>1, <1>4, <1>5, <1>6

\* An eligible alternative of a readable request has a number for every
\* criterion, so its scores and its total are numbers.
LEMMA EligibleIsScored ==
  ASSUME NEW r \in Requests, Readable(r), NEW a \in Eligible(r)
  PROVE  /\ Scored(r, a) = Criteria(r)
         /\ \A c \in Criteria(r) : Score(r, a, c) \in Int
         /\ TotalScore(r, a) \in Int
<1>1. Valid(r) /\ WellShaped(r)
  BY RequestAssumption
<1>2. a \in r.alternatives /\ MissingMetrics(r, a) = {}
  BY DEF Eligible, AlternativeStatus
<1>3. \A c \in Criteria(r) : Value(r, a, c) \in Int
  BY <1>1, <1>2 DEF MissingMetrics, Readable, WellShaped, Numeric
<1>4. \A c \in Criteria(r) : Score(r, a, c) \in Int
  BY <1>1, <1>3, ScoresAreIntegers DEF WellShaped
<1>5. Scored(r, a) = Criteria(r)
  BY <1>2 DEF Scored
<1>6. \A c \in Criteria(r) : r.criteria[c].weight \in Int
  BY <1>1, EngineAssumption DEF Valid
<1>7. WeightedSum(r, a) \in Int
  <2>1. \A c \in Scored(r, a) : Score(r, a, c) * r.criteria[c].weight \in Int
    BY <1>4, <1>5, <1>6
  <2>2. IsFiniteSet(Scored(r, a))
    BY <1>1, <1>5 DEF WellShaped
  <2> QED
    BY <2>1, <2>2, WeightedSumIsInteger
<1>8. SoftPenalty(r, a) \in Int
  BY <1>1, SoftPenaltyIsInteger DEF WellShaped, Numeric
<1>9. TotalScore(r, a) = WeightedSum(r, a) - SoftPenalty(r, a)
  BY DEF TotalScore, WeightedSum
<1> QED
  BY <1>4, <1>5, <1>7, <1>8, <1>9

LEMMA EligibleIsFinite ==
  ASSUME NEW r \in Requests
  PROVE  IsFiniteSet(Eligible(r))
<1>1. r.alternatives \subseteq Alternatives
  BY RequestAssumption DEF WellShaped
<1>2. Eligible(r) \subseteq Alternatives
  BY <1>1 DEF Eligible
<1> QED
  BY <1>2, EngineAssumption, FS_Subset

LEMMA FrontierCoversEligible ==
  ASSUME NEW r \in Requests, Readable(r), NEW a \in Eligible(r) \ ParetoFrontier(r)
  PROVE  \E b \in ParetoFrontier(r) : Dominates(r, b, a)
<1> DEFINE E == Eligible(r)
           R == {p \in E \X E : Dominates(r, p[2], p[1])}
           T == {b \in E : Dominates(r, b, a)}
<1>1. \A x \in E : \A c \in Criteria(r) : Score(r, x, c) \in Int
  BY EligibleIsScored
<1>2. \A x \in E : ~ Dominates(r, x, x)
  BY <1>1 DEF Dominates
<1>3. \A x, y, z \in E :
        Dominates(r, y, x) /\ Dominates(r, z, y) => Dominates(r, z, x)
  <2> SUFFICES ASSUME NEW x \in E, NEW y \in E, NEW z \in E,
                      Dominates(r, y, x), Dominates(r, z, y)
               PROVE  Dominates(r, z, x)
    OBVIOUS
  <2>1. \A c \in Criteria(r) : Score(r, z, c) >= Score(r, x, c)
    BY <1>1 DEF Dominates
  <2>2. \E c \in Criteria(r) : Score(r, z, c) > Score(r, x, c)
    <3>1. PICK c \in Criteria(r) : Score(r, z, c) > Score(r, y, c)
      BY DEF Dominates
    <3>2. Score(r, y, c) >= Score(r, x, c)
      BY <3>1 DEF Dominates
    <3> QED
      BY <1>1, <3>1, <3>2
  <2> QED
    BY <2>1, <2>2 DEF Dominates
<1>4. /\ \A x \in E : <<x, x>> \notin R
      /\ \A x, y, z \in E : <<x, y>> \in R /\ <<y, z>> \in R => <<x, z>> \in R
      /\ \A x, y \in E : Dominates(r, y, x) <=> <<x, y>> \in R
  BY <1>2, <1>3
<1>5. T \in SUBSET E /\ T # {}
  BY DEF ParetoFrontier
<1>6. IsFiniteSet(E)
  BY EligibleIsFinite
<1> HIDE DEF R
<1>7. \E b \in T : \A y \in E : <<b, y>> \notin R \/ y \notin T
  <2>1. \A x \in E : <<x, x>> \notin R
    BY <1>4
  <2>2. \A x, y, z \in E : <<x, y>> \in R /\ <<y, z>> \in R => <<x, z>> \in R
    BY <1>4
  <2> HIDE DEF E, T
  <2> QED
    BY <1>5, <1>6, <2>1, <2>2, MaximalElement
<1>8. PICK b \in T : \A y \in E : <<b, y>> \notin R \/ y \notin T
  BY <1>7
<1>9. \A y \in E : ~ Dominates(r, y, b)
  <2> SUFFICES ASSUME NEW y \in E, Dominates(r, y, b)
               PROVE  FALSE
    OBVIOUS
  <2>1. Dominates(r, y, a)
    BY <1>3, <1>8
  <2> QED
    BY <1>4, <1>8, <2>1
<1> QED
  BY <1>8, <1>9 DEF ParetoFrontier

------------------------------------------------------------------------------
(***************************************************************************)
(* Applying one delta variable                                             *)
(***************************************************************************)

\* The fields no delta variable writes, and those it writes in part.
KeepsTheRest(p, r) ==
  /\ p = [f \in RequestFields |-> p[f]]
  /\ p.mode = r.mode
  /\ p.deps = r.deps
  /\ p.critical = r.critical
  /\ p.requires = r.requires
  /\ Criteria(p) = Criteria(r)

LEMMA FalsifiedKeeps ==
  ASSUME NEW p, NEW r, NEW x, KeepsTheRest(p, r)
  PROVE  /\ KeepsTheRest(Falsified(p, x), r)
         /\ Falsified(p, x).alternatives =
              {a \in p.alternatives :
                 r.requires[a] \cap InvalidationClosure(r.deps, {x}) = {}}
         /\ \A f \in RequestFields \ {"alternatives"} :
              Falsified(p, x)[f] = p[f]
BY DEF KeepsTheRest, Falsified, RequestFields, Criteria

LEMMA ReweighedKeeps ==
  ASSUME NEW p, NEW r, NEW c, NEW w, KeepsTheRest(p, r)
  PROVE  /\ KeepsTheRest(Reweighed(p, c, w), r)
         /\ Reweighed(p, c, w).alternatives = p.alternatives
<1> DEFINE table == [p.criteria EXCEPT ![c].weight = w]
<1>1. Reweighed(p, c, w) = [p EXCEPT !.criteria = table]
  BY DEF Reweighed
<1>2. DOMAIN table = DOMAIN p.criteria
  OBVIOUS
<1> HIDE DEF table
<1> QED
  BY <1>1, <1>2 DEF KeepsTheRest, RequestFields, Criteria

LEMMA RemeasuredKeeps ==
  ASSUME NEW p, NEW r, NEW a, NEW m, NEW v, KeepsTheRest(p, r)
  PROVE  /\ KeepsTheRest(Remeasured(p, a, m, v), r)
         /\ Remeasured(p, a, m, v).alternatives = p.alternatives
<1> DEFINE table == [p.metrics EXCEPT ![a][m] = v]
<1>1. Remeasured(p, a, m, v) = [p EXCEPT !.metrics = table]
  BY DEF Remeasured
<1> HIDE DEF table
<1> QED
  BY <1>1 DEF KeepsTheRest, RequestFields, Criteria

\* What the variables of s with indices in I invalidate in r's dependency
\* graph, and what the first n do.
LostTo(r, s, I) ==
  UNION {InvalidationClosure(r.deps, {s[i].assumption}) :
           i \in {j \in I : s[j].kind = "assumption"}}

Lost(r, s, n) == LostTo(r, s, 1 .. n)

LEMMA LostGrows ==
  ASSUME NEW r, NEW s, NEW n \in Nat
  PROVE  Lost(r, s, n + 1) =
           Lost(r, s, n) \cup
             (IF s[n + 1].kind = "assumption"
              THEN InvalidationClosure(r.deps, {s[n + 1].assumption}) ELSE {})
<1>1. 1 .. n + 1 = (1 .. n) \cup {n + 1}
  OBVIOUS
<1> QED
  BY <1>1 DEF Lost, LostTo

\* All variables together invalidate what the report collects.
LEMMA LostIsCollected ==
  ASSUME NEW r, NEW s \in Seq(DeltaVars)
  PROVE  Lost(r, s, Len(s)) = CollectInvalidated(r, s)
<1>1. DOMAIN s = 1 .. Len(s)
  OBVIOUS
<1> QED
  BY <1>1 DEF Lost, LostTo, CollectInvalidated, Falsifies

\* What is falsified is among what it invalidates.
LEMMA FalsifiesInvalidates ==
  ASSUME NEW r, NEW s \in Seq(DeltaVars), Falsifies(s) \subseteq Assumptions
  PROVE  Falsifies(s) \subseteq CollectInvalidated(r, s)
<1>1. \A x \in Assumptions : x \in InvalidationClosure(r.deps, {x})
  BY DEF InvalidationClosure
<1> QED
  BY <1>1 DEF CollectInvalidated

------------------------------------------------------------------------------
(***************************************************************************)
(* An assumption's counterfactual and the request without it               *)
(***************************************************************************)

\* What a total score is made of.
SumOf(criteria, metrics, a) ==
  MapThenSumSet(
    LAMBDA c : NormalizeScore(criteria[c], metrics[a][criteria[c].metric])
                 * criteria[c].weight,
    DOMAIN criteria
      \ {c \in DOMAIN criteria : metrics[a][criteria[c].metric] = Absent})

LEMMA TotalIsSum ==
  ASSUME NEW r, NEW a
  PROVE  TotalScore(r, a) = SumOf(r.criteria, r.metrics, a) - SoftPenalty(r, a)
BY DEF TotalScore, SumOf, Scored, MissingMetrics, Criteria, Score, Value

\* Dropping alternatives changes no alternative's evaluation.
LEMMA EvaluationIsLocal ==
  ASSUME NEW r, NEW p,
         \A f \in {"mode", "supplied", "metrics", "criteria", "constraints"} :
           p[f] = r[f]
  PROVE  /\ \A a : HasScore(p, a) = HasScore(r, a)
         /\ \A a : TotalScore(p, a) = TotalScore(r, a)
         /\ \A a : AlternativeStatus(p, a) = AlternativeStatus(r, a)
<1>1. /\ p.mode = r.mode /\ p.supplied = r.supplied /\ p.metrics = r.metrics
      /\ p.criteria = r.criteria /\ p.constraints = r.constraints
  OBVIOUS
<1>2. \A a, c : Value(p, a, c) = Value(r, a, c)
  BY <1>1 DEF Value
<1>3. Criteria(p) = Criteria(r)
  BY <1>1 DEF Criteria
<1>4. \A a : Scored(p, a) = Scored(r, a) /\ MissingMetrics(p, a) = MissingMetrics(r, a)
  BY <1>2, <1>3 DEF Scored, MissingMetrics
<1>5. \A a, k : Checked(p, a, k) = Checked(r, a, k)
  BY <1>1 DEF Checked
<1>6. \A a, c : Score(p, a, c) = Score(r, a, c)
  BY <1>1, <1>2 DEF Score
<1>7. \A a : HardPassed(p, a) <=> HardPassed(r, a)
  BY <1>1, <1>5 DEF HardPassed
<1>8. \A a : AlternativeStatus(p, a) = AlternativeStatus(r, a)
  BY <1>1, <1>4, <1>7 DEF AlternativeStatus
<1>9. \A a : HasScore(p, a) = HasScore(r, a)
  BY <1>1, <1>4 DEF HasScore
<1>10. ASSUME NEW a
       PROVE  TotalScore(p, a) = TotalScore(r, a)
  <2>1. {k \in p.constraints :
           k.kind = "soft" /\ Checked(p, a, k) = "failed"}
        = {k \in r.constraints :
             k.kind = "soft" /\ Checked(r, a, k) = "failed"}
    BY <1>1, <1>5
  <2>2. SoftPenalty(p, a) = SoftPenalty(r, a)
    BY <2>1 DEF SoftPenalty
  <2> QED
    BY <1>1, <2>2, TotalIsSum
<1> QED
  BY <1>8, <1>9, <1>10

\* Falsifying an assumption leaves what its counterfactual calls remaining.
LEMMA FalsifiedEvaluates ==
  ASSUME NEW r, r = [f \in RequestFields |-> r[f]], NEW x
  PROVE  LET p == Falsified(r, x)
         IN  /\ p.mode = r.mode
             /\ Eligible(p) = Remaining(r, x)
             /\ Ranked(p) = Ranked(r) \ Affected(r, x)
             /\ \A a : TotalScore(p, a) = TotalScore(r, a)
<1> DEFINE p == Falsified(r, x)
<1>1. /\ p.alternatives =
           {a \in r.alternatives :
              r.requires[a] \cap InvalidationClosure(r.deps, {x}) = {}}
      /\ \A f \in RequestFields \ {"alternatives"} : p[f] = r[f]
  BY DEF Falsified, RequestFields
<1> HIDE DEF p
<1>2. \A f \in {"mode", "supplied", "metrics", "criteria", "constraints"} :
        p[f] = r[f]
  BY <1>1 DEF RequestFields
<1>3. /\ \A a : HasScore(p, a) = HasScore(r, a)
      /\ \A a : TotalScore(p, a) = TotalScore(r, a)
      /\ \A a : AlternativeStatus(p, a) = AlternativeStatus(r, a)
  BY <1>2, EvaluationIsLocal
<1>4. p.alternatives = r.alternatives \ Affected(r, x)
  BY <1>1 DEF Affected
<1>5. Eligible(p) = Remaining(r, x)
  BY <1>3, <1>4 DEF Eligible, Remaining
<1>6. Ranked(p) = Ranked(r) \ Affected(r, x)
  BY <1>3, <1>5 DEF Ranked, Remaining
<1> QED
  BY <1>2, <1>3, <1>5, <1>6 DEF p

LEMMA LeadersAreEligible ==
  ASSUME NEW r, r.mode \in Mode
  PROVE  LeadingCandidates(r) \subseteq Eligible(r)
<1>1. Ranked(r) \subseteq Eligible(r) /\ First(Eligible(r)) \subseteq Eligible(r)
  BY DEF Ranked, First
<1>2. CASE Eligible(r) = {}
  BY <1>1, <1>2 DEF LeadingCandidates
<1>3. CASE Eligible(r) # {} /\ r.mode = "constraint_only"
  BY <1>3 DEF LeadingCandidates
<1>4. CASE Eligible(r) # {} /\ r.mode = "weighted" /\ Ranked(r) = {}
  BY <1>1, <1>4 DEF LeadingCandidates
<1>5. CASE Eligible(r) # {} /\ r.mode = "weighted" /\ Ranked(r) # {}
  BY <1>1, <1>5 DEF LeadingCandidates
<1> QED
  BY <1>2, <1>3, <1>4, <1>5 DEF Mode

\* The best score is that of a ranked alternative, and no ranked one has more.
LEMMA BestIsAttained ==
  ASSUME NEW r \in Requests, Readable(r), NEW S \in SUBSET Eligible(r), S # {}
  PROVE  LET best == Max({TotalScore(r, a) : a \in S})
         IN  /\ best \in Int
             /\ \E a \in S : TotalScore(r, a) = best
             /\ \A a \in S : best >= TotalScore(r, a)
<1> DEFINE V == {TotalScore(r, a) : a \in S}
<1>1. V \in SUBSET Int /\ V # {}
  BY EligibleIsScored
<1>2. IsFiniteSet(V)
  <2>1. IsFiniteSet(S)
    BY EligibleIsFinite, FS_Subset
  <2> DEFINE f == [a \in S |-> TotalScore(r, a)]
  <2>2. f \in Surjection(S, V)
    BY DEF Surjection
  <2> HIDE DEF f, V
  <2> QED
    BY <2>1, <2>2, FS_Surjection
<1>3. Max(V) \in V /\ \A v \in V : Max(V) >= v
  <2> HIDE DEF V
  <2> QED
    BY <1>1, <1>2, GreatestElement
<1> QED
  BY <1>1, <1>3

\* If no leader is affected, the same candidates lead what remains.
LEMMA UnaffectedLeadersLead ==
  ASSUME NEW r \in Requests, Readable(r), NEW x,
         LeadingCandidates(r) # {},
         LeadingCandidates(r) \cap Affected(r, x) = {}
  PROVE  LeadingCandidates(Falsified(r, x)) = LeadingCandidates(r)
<1> DEFINE p == Falsified(r, x)
           E == Eligible(r)
           A == Affected(r, x)
           L == LeadingCandidates(r)
<1>1. r.mode \in Mode /\ r = [f \in RequestFields |-> r[f]]
  BY RequestAssumption DEF WellShaped
<1>2. /\ p.mode = r.mode
      /\ Eligible(p) = E \ A
      /\ Ranked(p) = Ranked(r) \ A
      /\ \A a : TotalScore(p, a) = TotalScore(r, a)
  BY <1>1, FalsifiedEvaluates DEF Remaining
<1> HIDE DEF p
<1>3. L \subseteq E
  BY <1>1, LeadersAreEligible
<1>4. L \subseteq Eligible(p) /\ E # {} /\ Eligible(p) # {}
  BY <1>2, <1>3
<1>5. CASE r.mode = "constraint_only"
  <2>1. L = E
    BY <1>4, <1>5 DEF LeadingCandidates
  <2>2. LeadingCandidates(p) = Eligible(p)
    BY <1>2, <1>4, <1>5 DEF LeadingCandidates
  <2> QED
    BY <1>2, <1>4, <2>1, <2>2 DEF p
<1>6. CASE r.mode = "weighted" /\ Ranked(r) = {}
  <2>1. L = First(E)
    BY <1>4, <1>6 DEF LeadingCandidates
  <2>2. LeadingCandidates(p) = First(E \ A)
    <3>1. p.mode = "weighted" /\ Ranked(p) = {} /\ Eligible(p) # {}
      BY <1>2, <1>4, <1>6
    <3>2. LeadingCandidates(p) = First(Eligible(p))
      BY <3>1 DEF LeadingCandidates
    <3> QED
      BY <1>2, <3>2
  <2>3. First(E) \subseteq First(E \ A)
    BY <2>1 DEF First
  <2>4. First(E \ A) \subseteq First(E)
    <3>1. PICK e \in First(E) : e \in E \ A
      BY <2>1, <1>3
    <3>2. \A a \in E : Position[a] \in Nat
      <4>1. E \subseteq Alternatives
        BY RequestAssumption DEF WellShaped, Eligible
      <4> QED
        BY <4>1, EngineAssumption
    <3> HIDE DEF E, A
    <3>3. \A a \in First(E \ A) : Position[a] <= Position[e]
      BY <3>1 DEF First
    <3>4. \A b \in E : Position[e] <= Position[b]
      BY <3>1 DEF First
    <3> QED
      BY <3>1, <3>2, <3>3, <3>4 DEF First
  <2> QED
    BY <2>1, <2>2, <2>3, <2>4 DEF p
<1>7. CASE r.mode = "weighted" /\ Ranked(r) # {}
  <2> DEFINE T(a) == TotalScore(r, a)
             best == BestScore(r)
             Near(a) == 20 * (best - T(a)) <= Abs(best)
  <2>1. Ranked(r) \subseteq E /\ \A a \in E : T(a) \in Int
    BY EligibleIsScored DEF Ranked
  <2>2. /\ best \in Int
        /\ \E a \in Ranked(r) : T(a) = best
        /\ \A a \in Ranked(r) : best >= T(a)
    BY <1>7, <2>1, BestIsAttained DEF BestScore
  <2>3. L = {a \in Ranked(r) : Near(a)}
    BY <1>7, <1>4 DEF LeadingCandidates
  <2>4. PICK top \in Ranked(r) : T(top) = best
    BY <2>2
  <2>5. top \in L
    <3> HIDE DEF best, T
    <3>1. 20 * (best - T(top)) = 0
      BY <2>2, <2>4
    <3>2. Abs(best) >= 0
      BY <2>2 DEF Abs
    <3> QED
      BY <2>3, <3>1, <3>2
  <2>6. top \in Ranked(p)
    BY <1>2, <2>5
  <2>7. BestScore(p) = best
    <3>1. BestScore(p) = Max({T(a) : a \in Ranked(p)})
      BY <1>2 DEF BestScore
    <3>2. Ranked(p) \in SUBSET Eligible(r) /\ Ranked(p) # {}
      BY <1>2, <2>1, <2>6
    <3>3. /\ BestScore(p) \in Int
          /\ \E a \in Ranked(p) : T(a) = BestScore(p)
          /\ \A a \in Ranked(p) : BestScore(p) >= T(a)
      BY <3>1, <3>2, BestIsAttained
    <3>4. Ranked(p) \subseteq Ranked(r)
      BY <1>2
    <3> HIDE DEF best, T
    <3>5. BestScore(p) >= best
      BY <2>4, <2>6, <3>3
    <3>6. best >= BestScore(p)
      BY <2>2, <3>3, <3>4
    <3> QED
      BY <2>2, <3>3, <3>5, <3>6
  <2>8. LeadingCandidates(p) = {a \in Ranked(p) : Near(a)}
    <3>1. p.mode = "weighted" /\ Ranked(p) # {} /\ Eligible(p) # {}
      BY <1>2, <1>4, <1>7, <2>6
    <3>2. LeadingCandidates(p) =
            {a \in Ranked(p) :
               20 * (BestScore(p) - TotalScore(p, a)) <= Abs(BestScore(p))}
      BY <3>1 DEF LeadingCandidates
    <3> HIDE DEF best
    <3> QED
      BY <1>2, <2>7, <3>2
  <2> HIDE DEF Near, L, A
  <2> QED
    BY <1>2, <2>3, <2>8 DEF p, L, A
<1> QED
  BY <1>1, <1>5, <1>6, <1>7 DEF Mode

\* A score within 5% of the best is within 5% of a lower best that it does
\* not exceed.
LEMMA StillNear ==
  ASSUME NEW best \in Int, NEW lower \in Int, NEW t \in Int,
         t <= lower, lower <= best, 20 * (best - t) <= Abs(best)
  PROVE  20 * (lower - t) <= Abs(lower)
<1>1. CASE best < 0
  BY <1>1 DEF Abs
<1>2. CASE best >= 0
  <2>1. 20 * (best - t) <= best
    BY <1>2 DEF Abs
  <2>2. t >= 0 /\ lower >= 0
    BY <1>2, <2>1
  <2>3. 20 * (lower - t) <= lower
    BY <2>1
  <2> QED
    BY <2>2, <2>3 DEF Abs
<1> QED
  BY <1>1, <1>2

\* Leaders that x does not affect lead what remains, among others perhaps.
LEMMA KeptLeadersLead ==
  ASSUME NEW r \in Requests, Readable(r), NEW x
  PROVE  LeadingCandidates(r) \ Affected(r, x)
           \subseteq LeadingCandidates(Falsified(r, x))
<1> DEFINE p == Falsified(r, x)
           E == Eligible(r)
           A == Affected(r, x)
<1> SUFFICES ASSUME NEW a \in LeadingCandidates(r), a \notin A
             PROVE  a \in LeadingCandidates(p)
  OBVIOUS
<1>1. r.mode \in Mode /\ r = [f \in RequestFields |-> r[f]]
  BY RequestAssumption DEF WellShaped
<1>2. /\ p.mode = r.mode
      /\ Eligible(p) = E \ A
      /\ Ranked(p) = Ranked(r) \ A
      /\ \A b : TotalScore(p, b) = TotalScore(r, b)
  BY <1>1, FalsifiedEvaluates DEF Remaining
<1> HIDE DEF p
<1>3. a \in E /\ a \in Eligible(p) /\ E # {} /\ Eligible(p) # {}
  BY <1>1, <1>2, LeadersAreEligible
<1>4. CASE r.mode = "constraint_only"
  BY <1>2, <1>3, <1>4 DEF LeadingCandidates
<1>5. CASE r.mode = "weighted" /\ Ranked(r) = {}
  <2>1. a \in First(E)
    BY <1>3, <1>5 DEF LeadingCandidates
  <2>2. p.mode = "weighted" /\ Ranked(p) = {}
    BY <1>2, <1>5
  <2>3. LeadingCandidates(p) = First(Eligible(p))
    BY <1>3, <2>2 DEF LeadingCandidates
  <2> QED
    BY <1>2, <1>3, <2>1, <2>3 DEF First
<1>6. CASE r.mode = "weighted" /\ Ranked(r) # {}
  <2> DEFINE T(b) == TotalScore(r, b)
  <2>1. Ranked(r) \subseteq E /\ \A b \in E : T(b) \in Int
    BY EligibleIsScored DEF Ranked
  <2>2. a \in Ranked(r) /\ 20 * (BestScore(r) - T(a)) <= Abs(BestScore(r))
    BY <1>3, <1>6 DEF LeadingCandidates
  <2>3. a \in Ranked(p)
    BY <1>2, <2>2
  <2>4. /\ BestScore(r) \in Int
        /\ \A b \in Ranked(r) : BestScore(r) >= T(b)
    BY <1>6, <2>1, BestIsAttained DEF BestScore
  <2>5. /\ BestScore(p) \in Int
        /\ \E b \in Ranked(p) : T(b) = BestScore(p)
        /\ \A b \in Ranked(p) : BestScore(p) >= T(b)
    <3>1. BestScore(p) = Max({T(b) : b \in Ranked(p)})
      BY <1>2 DEF BestScore
    <3>2. Ranked(p) \in SUBSET Eligible(r) /\ Ranked(p) # {}
      BY <1>2, <2>1, <2>3
    <3> QED
      BY <3>1, <3>2, BestIsAttained
  <2>6. BestScore(p) <= BestScore(r)
    <3>1. PICK b \in Ranked(p) : T(b) = BestScore(p)
      BY <2>5
    <3>2. b \in Ranked(r)
      BY <1>2
    <3> QED
      BY <2>4, <2>5, <3>1, <3>2
  <2>7. T(a) \in Int /\ T(a) <= BestScore(p)
    BY <1>3, <2>1, <2>3, <2>5
  <2> HIDE DEF T
  <2>8. 20 * (BestScore(p) - T(a)) <= Abs(BestScore(p))
    BY <2>2, <2>4, <2>5, <2>6, <2>7, StillNear
  <2>9. p.mode = "weighted" /\ Ranked(p) # {} /\ TotalScore(p, a) = T(a)
    BY <1>2, <1>6, <2>3 DEF T
  <2> QED
    BY <1>3, <2>3, <2>8, <2>9 DEF LeadingCandidates
<1> QED
  BY <1>1, <1>4, <1>5, <1>6 DEF Mode, p

\* The decision changes with x exactly if falsifying x changes who leads.
LEMMA CounterfactualPredicts ==
  ASSUME NEW r \in Requests, Readable(r), NEW x, LeadingCandidates(r) # {}
  PROVE  LeadingCandidates(r) = LeadingCandidates(Falsified(r, x))
           <=> ~ DecisionChanged(r, x)
<1> DEFINE p == Falsified(r, x)
           L == LeadingCandidates(r)
<1>1. r.mode \in Mode /\ r = [f \in RequestFields |-> r[f]]
  BY RequestAssumption DEF WellShaped
<1>2. p.mode \in Mode /\ Eligible(p) = Remaining(r, x)
  BY <1>1, FalsifiedEvaluates
<1>3. LeadingCandidates(p) \subseteq Remaining(r, x)
  BY <1>2, LeadersAreEligible
<1>4. L \subseteq Eligible(r)
  BY <1>1, LeadersAreEligible
<1>5. ~ DecisionChanged(r, x)
        <=> Remaining(r, x) # {} /\ L \cap Affected(r, x) = {}
  BY DEF DecisionChanged, CounterfactualStatus
<1>6. ASSUME L = LeadingCandidates(p)
      PROVE  Remaining(r, x) # {} /\ L \cap Affected(r, x) = {}
  BY <1>3, <1>6 DEF Remaining
<1>7. ASSUME L \cap Affected(r, x) = {}
      PROVE  L = LeadingCandidates(p)
  BY <1>7, UnaffectedLeadersLead
<1> QED
  BY <1>5, <1>6, <1>7

------------------------------------------------------------------------------
(***************************************************************************)
(* A batch as a set of corrections                                         *)
(***************************************************************************)

\* Table t is t0 with the writes <<row, column, value>> of W.
TableLeft(t, t0, W) ==
  /\ t = [x \in DOMAIN t0 |-> [y \in DOMAIN t0[x] |-> t[x][y]]]
  /\ \A x \in DOMAIN t0 : \A y \in DOMAIN t0[x] :
       /\ \A v : <<x, y, v>> \in W => t[x][y] = v
       /\ (\A v : <<x, y, v>> \notin W) => t[x][y] = t0[x][y]

LEMMA TableWritten ==
  ASSUME NEW t, NEW t0, NEW W, NEW x, NEW y, NEW v,
         TableLeft(t, t0, W), \A u : <<x, y, u>> \notin W
  PROVE  TableLeft([t EXCEPT ![x][y] = v], t0, W \cup {<<x, y, v>>})
<1> DEFINE row == [t[x] EXCEPT ![y] = v]
           new == [t EXCEPT ![x] = row]
<1>1. [t EXCEPT ![x][y] = v] = new
  OBVIOUS
<1>2. DOMAIN t = DOMAIN t0 /\ \A z \in DOMAIN t0 : DOMAIN t[z] = DOMAIN t0[z]
  BY DEF TableLeft
<1>3. x \in DOMAIN t0 =>
        /\ DOMAIN row = DOMAIN t0[x]
        /\ row = [b \in DOMAIN t0[x] |-> row[b]]
        /\ \A b \in DOMAIN t0[x] : row[b] = IF b = y THEN v ELSE t[x][b]
  BY <1>2
<1> HIDE DEF row
<1>4. /\ DOMAIN new = DOMAIN t0
      /\ new = [a \in DOMAIN t0 |-> new[a]]
      /\ \A a \in DOMAIN t0 : new[a] = IF a = x THEN row ELSE t[a]
  BY <1>2 DEF TableLeft
<1> HIDE DEF new
<1>5. \A a \in DOMAIN t0 : new[a] = [b \in DOMAIN t0[a] |-> new[a][b]]
  BY <1>3, <1>4 DEF TableLeft
<1>6. new = [a \in DOMAIN t0 |-> [b \in DOMAIN t0[a] |-> new[a][b]]]
  BY <1>4, <1>5
<1>7. \A a \in DOMAIN t0 : \A b \in DOMAIN t0[a] :
        new[a][b] = IF a = x /\ b = y THEN v ELSE t[a][b]
  BY <1>3, <1>4
<1>8. ASSUME NEW a \in DOMAIN t0, NEW b \in DOMAIN t0[a]
      PROVE  /\ \A u : <<a, b, u>> \in W \cup {<<x, y, v>>} => new[a][b] = u
             /\ (\A u : <<a, b, u>> \notin W \cup {<<x, y, v>>}) =>
                  new[a][b] = t0[a][b]
  <2>1. CASE a = x /\ b = y
    BY <1>7, <2>1
  <2>2. CASE ~ (a = x /\ b = y)
    <3>1. new[a][b] = t[a][b]
      BY <1>7, <2>2
    <3>2. \A u : <<a, b, u>> \in W \cup {<<x, y, v>>} <=> <<a, b, u>> \in W
      BY <2>2
    <3> QED
      BY <3>1, <3>2 DEF TableLeft
  <2> QED
    BY <2>1, <2>2
<1>9. TableLeft(new, t0, W \cup {<<x, y, v>>})
  BY <1>6, <1>8 DEF TableLeft
<1> QED
  BY <1>1, <1>9

\* The writes determine the table.
LEMMA TableDetermined ==
  ASSUME NEW t, NEW u, NEW t0, NEW W, TableLeft(t, t0, W), TableLeft(u, t0, W)
  PROVE  t = u
<1>1. ASSUME NEW x \in DOMAIN t0, NEW y \in DOMAIN t0[x]
      PROVE  t[x][y] = u[x][y]
  <2>1. CASE \E v : <<x, y, v>> \in W
    BY <2>1 DEF TableLeft
  <2>2. CASE \A v : <<x, y, v>> \notin W
    BY <2>2 DEF TableLeft
  <2> QED
    BY <2>1, <2>2
<1> QED
  BY <1>1 DEF TableLeft

\* What the variables of s with indices in I write.
WeightWrites(s, I) ==
  {<<s[i].criterion, "weight", s[i].weight>> :
     i \in {j \in I : s[j].kind = "criterion"}}

MetricWrites(s, I) ==
  {<<s[i].alternative, s[i].metric, s[i].value>> :
     i \in {j \in I : s[j].kind = "alternative"}}

\* p is r with the corrections of the variables with indices in I.
CorrectedBy(p, r, s, I) ==
  /\ p = [f \in RequestFields |-> p[f]]
  /\ \A f \in RequestFields \ {"alternatives", "criteria", "metrics"} : p[f] = r[f]
  /\ p.alternatives = {a \in r.alternatives : r.requires[a] \cap LostTo(r, s, I) = {}}
  /\ TableLeft(p.criteria, r.criteria, WeightWrites(s, I))
  /\ TableLeft(p.metrics, r.metrics, MetricWrites(s, I))

LEMMA CorrectedByNone ==
  ASSUME NEW r, WellShaped(r), NEW s
  PROVE  CorrectedBy(r, r, s, {})
<1>1. LostTo(r, s, {}) = {} /\ WeightWrites(s, {}) = {} /\ MetricWrites(s, {}) = {}
  BY DEF LostTo, WeightWrites, MetricWrites
<1> QED
  BY <1>1 DEF CorrectedBy, WellShaped, IsTable, TableLeft

LEMMA CorrectionsDetermine ==
  ASSUME NEW p, NEW q, NEW r, NEW s, NEW I,
         CorrectedBy(p, r, s, I), CorrectedBy(q, r, s, I)
  PROVE  p = q
<1>1. p.criteria = q.criteria /\ p.metrics = q.metrics
  BY TableDetermined DEF CorrectedBy
<1>2. \A f \in RequestFields : p[f] = q[f]
  BY <1>1 DEF CorrectedBy, RequestFields
<1> QED
  BY <1>2 DEF CorrectedBy

\* One more correction, of something none of the others writes.
LEMMA OneMoreCorrection ==
  ASSUME NEW p, NEW r, NEW s \in Seq(DeltaVars), ~ Conflicting(s),
         NEW I \in SUBSET DOMAIN s, NEW j \in DOMAIN s \ I,
         s[j].kind # "unsupported", CorrectedBy(p, r, s, I)
  PROVE  CorrectedBy(Applied(p, s[j]), r, s, I \cup {j})
<1> DEFINE dv == s[j]
           q  == Applied(p, dv)
           J  == I \cup {j}
<1>1. dv \in DeltaVars /\ \A i \in I : i # j /\ i \in DOMAIN s
  OBVIOUS
<1>2. dv.kind \in {"assumption", "criterion", "alternative"}
  BY <1>1, RequestAssumption
<1>3. LostTo(r, s, J) =
        LostTo(r, s, I) \cup
          (IF dv.kind = "assumption"
           THEN InvalidationClosure(r.deps, {dv.assumption}) ELSE {})
  BY DEF LostTo
<1>4. WeightWrites(s, J) =
        WeightWrites(s, I) \cup
          (IF dv.kind = "criterion"
           THEN {<<dv.criterion, "weight", dv.weight>>} ELSE {})
  BY DEF WeightWrites
<1>5. MetricWrites(s, J) =
        MetricWrites(s, I) \cup
          (IF dv.kind = "alternative"
           THEN {<<dv.alternative, dv.metric, dv.value>>} ELSE {})
  BY DEF MetricWrites
<1> HIDE DEF J
<1>6. CASE dv.kind = "assumption"
  <2>1. q = Falsified(p, dv.assumption)
    BY <1>6 DEF Applied
  <2>2. p.requires = r.requires /\ p.deps = r.deps
    BY DEF CorrectedBy, RequestFields
  <2>3. /\ q = [f \in RequestFields |-> q[f]]
        /\ \A f \in RequestFields \ {"alternatives"} : q[f] = p[f]
        /\ q.alternatives =
             {a \in p.alternatives :
                r.requires[a]
                  \cap InvalidationClosure(r.deps, {dv.assumption}) = {}}
    BY <2>1, <2>2 DEF Falsified, CorrectedBy, RequestFields
  <2> HIDE DEF q
  <2>4. q.alternatives =
          {a \in r.alternatives : r.requires[a] \cap LostTo(r, s, J) = {}}
    BY <1>3, <1>6, <2>3 DEF CorrectedBy
  <2>5. q.criteria = p.criteria /\ q.metrics = p.metrics
    BY <2>3 DEF RequestFields
  <2>6. WeightWrites(s, J) = WeightWrites(s, I) /\ MetricWrites(s, J) = MetricWrites(s, I)
    BY <1>4, <1>5, <1>6
  <2>7. CorrectedBy(q, r, s, J)
    BY <2>3, <2>4, <2>5, <2>6 DEF CorrectedBy
  <2> QED
    BY <2>7 DEF q, J
<1>7. CASE dv.kind = "criterion"
  <2> DEFINE c == dv.criterion
             table == [p.criteria EXCEPT ![c]["weight"] = dv.weight]
  <2>1. q = [p EXCEPT !.criteria = table]
    BY <1>7 DEF Applied, Reweighed
  <2>2. \A u : <<c, "weight", u>> \notin WeightWrites(s, I)
    <3> SUFFICES ASSUME NEW i \in I, s[i].kind = "criterion", s[i].criterion = c
                 PROVE  FALSE
      BY DEF WeightWrites
    <3>1. Target(s[i]) = <<c>> /\ Target(s[j]) = <<c>>
      BY <1>7 DEF Target
    <3>2. Target(s[i]) # <<>> /\ Target(s[i]) = Target(s[j])
      BY <3>1
    <3>3. i \in DOMAIN s /\ j \in DOMAIN s /\ i # j
      BY <1>1
    <3> QED
      BY <3>2, <3>3 DEF Conflicting
  <2>3. TableLeft(table, r.criteria, WeightWrites(s, I) \cup {<<c, "weight", dv.weight>>})
    BY <2>2, TableWritten DEF CorrectedBy
  <2> HIDE DEF table
  <2>4. /\ q = [f \in RequestFields |-> q[f]]
        /\ q.criteria = table
        /\ \A f \in RequestFields \ {"criteria"} : q[f] = p[f]
    BY <2>1 DEF CorrectedBy, RequestFields
  <2> HIDE DEF q
  <2>5. q.alternatives = p.alternatives /\ q.metrics = p.metrics
    BY <2>4 DEF RequestFields
  <2>6. LostTo(r, s, J) = LostTo(r, s, I) /\ MetricWrites(s, J) = MetricWrites(s, I)
    BY <1>3, <1>5, <1>7
  <2>7. WeightWrites(s, J) = WeightWrites(s, I) \cup {<<c, "weight", dv.weight>>}
    BY <1>4, <1>7
  <2>8. CorrectedBy(q, r, s, J)
    BY <2>3, <2>4, <2>5, <2>6, <2>7 DEF CorrectedBy
  <2> QED
    BY <2>8 DEF q, J
<1>8. CASE dv.kind = "alternative"
  <2> DEFINE a == dv.alternative
             m == dv.metric
             table == [p.metrics EXCEPT ![a][m] = dv.value]
  <2>1. q = [p EXCEPT !.metrics = table]
    BY <1>8 DEF Applied, Remeasured
  <2>2. \A u : <<a, m, u>> \notin MetricWrites(s, I)
    <3> SUFFICES ASSUME NEW i \in I, s[i].kind = "alternative",
                        s[i].alternative = a, s[i].metric = m
                 PROVE  FALSE
      BY DEF MetricWrites
    <3>1. Target(s[i]) = <<a, m>> /\ Target(s[j]) = <<a, m>>
      BY <1>8 DEF Target
    <3>2. Target(s[i]) # <<>> /\ Target(s[i]) = Target(s[j])
      BY <3>1
    <3>3. i \in DOMAIN s /\ j \in DOMAIN s /\ i # j
      BY <1>1
    <3> QED
      BY <3>2, <3>3 DEF Conflicting
  <2>3. TableLeft(table, r.metrics, MetricWrites(s, I) \cup {<<a, m, dv.value>>})
    BY <2>2, TableWritten DEF CorrectedBy
  <2> HIDE DEF table
  <2>4. /\ q = [f \in RequestFields |-> q[f]]
        /\ q.metrics = table
        /\ \A f \in RequestFields \ {"metrics"} : q[f] = p[f]
    BY <2>1 DEF CorrectedBy, RequestFields
  <2> HIDE DEF q
  <2>5. q.alternatives = p.alternatives /\ q.criteria = p.criteria
    BY <2>4 DEF RequestFields
  <2>6. LostTo(r, s, J) = LostTo(r, s, I) /\ WeightWrites(s, J) = WeightWrites(s, I)
    BY <1>3, <1>4, <1>8
  <2>7. MetricWrites(s, J) = MetricWrites(s, I) \cup {<<a, m, dv.value>>}
    BY <1>5, <1>8
  <2>8. CorrectedBy(q, r, s, J)
    BY <2>3, <2>4, <2>5, <2>6, <2>7 DEF CorrectedBy
  <2> QED
    BY <2>8 DEF q, J
<1> QED
  BY <1>2, <1>6, <1>7, <1>8

\* The recursion of After, as an equation.
AfterStep(r, s, n, f) ==
  [i \in 0 .. n |-> IF i = 0 THEN r ELSE Applied(f[i - 1], s[i])]

LEMMA AfterExists ==
  ASSUME NEW r, NEW s, NEW n \in Nat
  PROVE  \E f : f = AfterStep(r, s, n, f)
<1> DEFINE Solved(k) == \E f : f = AfterStep(r, s, k, f)
           bad == {k \in Nat : ~ Solved(k)}
<1>1. Solved(0)
  <2> DEFINE f == [i \in 0 .. 0 |-> r]
  <2>1. f = AfterStep(r, s, 0, f)
    BY DEF AfterStep
  <2> HIDE DEF f
  <2> QED
    BY <2>1
<1>2. ASSUME NEW k \in Nat, Solved(k)
      PROVE  Solved(k + 1)
  <2>1. PICK f : f = AfterStep(r, s, k, f)
    BY <1>2
  <2> DEFINE h == [i \in 0 .. k + 1 |->
                     IF i = k + 1 THEN Applied(f[k], s[k + 1]) ELSE f[i]]
  <2>2. \A i \in 0 .. k : h[i] = f[i]
    OBVIOUS
  <2>3. \A i \in 0 .. k : f[i] = IF i = 0 THEN r ELSE Applied(f[i - 1], s[i])
    BY <2>1 DEF AfterStep
  <2>4. \A i \in 0 .. k + 1 : h[i] = IF i = 0 THEN r ELSE Applied(h[i - 1], s[i])
    <3> SUFFICES ASSUME NEW i \in 0 .. k + 1
                 PROVE  h[i] = IF i = 0 THEN r ELSE Applied(h[i - 1], s[i])
      OBVIOUS
    <3>1. CASE i = 0
      BY <2>2, <2>3, <3>1
    <3>2. CASE i \in 1 .. k
      <4>1. i \in 0 .. k /\ i - 1 \in 0 .. k /\ i # 0
        BY <3>2
      <4>2. h[i - 1] = f[i - 1] /\ h[i] = f[i]
        BY <2>2, <4>1
      <4> HIDE DEF h
      <4> QED
        BY <2>3, <4>1, <4>2
    <3>3. CASE i = k + 1
      <4>1. i - 1 = k /\ k \in 0 .. k /\ i # 0
        BY <3>3
      <4>2. h[i] = Applied(f[k], s[k + 1]) /\ h[i - 1] = f[k]
        BY <2>2, <3>3, <4>1
      <4> HIDE DEF h
      <4> QED
        BY <3>3, <4>1, <4>2
    <3> QED
      BY <3>1, <3>2, <3>3
  <2>5. DOMAIN h = 0 .. k + 1 /\ h = [i \in 0 .. k + 1 |-> h[i]]
    OBVIOUS
  <2> HIDE DEF h
  <2>6. h = AfterStep(r, s, k + 1, h)
    BY <2>4, <2>5 DEF AfterStep
  <2> QED
    BY <2>6
<1>3. bad = {}
  <2> SUFFICES ASSUME bad # {}
               PROVE  FALSE
    OBVIOUS
  <2> HIDE DEF Solved
  <2>1. bad \in SUBSET Nat
    OBVIOUS
  <2>2. PICK k \in bad : \A m \in bad : k <= m
    BY <2>1, LeastNatural
  <2>3. k # 0
    BY <1>1
  <2>4. k - 1 \in Nat /\ k - 1 \notin bad
    BY <2>2, <2>3
  <2>5. Solved(k - 1 + 1)
    BY <1>2, <2>4
  <2>6. k - 1 + 1 = k
    OBVIOUS
  <2> QED
    BY <2>5, <2>6
<1> QED
  BY <1>3

\* Two solutions agree where both are defined.
LEMMA AfterUnique ==
  ASSUME NEW r, NEW s, NEW n \in Nat, NEW m \in Nat, n <= m,
         NEW f, f = AfterStep(r, s, n, f), NEW g, g = AfterStep(r, s, m, g)
  PROVE  \A i \in 0 .. n : f[i] = g[i]
<1> DEFINE bad == {i \in Nat : i <= n /\ f[i] # g[i]}
<1>1. /\ \A i \in 0 .. n : f[i] = IF i = 0 THEN r ELSE Applied(f[i - 1], s[i])
      /\ \A i \in 0 .. n : g[i] = IF i = 0 THEN r ELSE Applied(g[i - 1], s[i])
  BY DEF AfterStep
<1>2. bad = {}
  <2> SUFFICES ASSUME bad # {}
               PROVE  FALSE
    OBVIOUS
  <2>1. bad \in SUBSET Nat
    OBVIOUS
  <2>2. \E k \in bad : \A i \in bad : k <= i
    <3> HIDE DEF bad
    <3> QED
      BY <2>1, LeastNatural
  <2>3. PICK k \in bad : \A i \in bad : k <= i
    BY <2>2
  <2>4. k \in 0 .. n /\ f[k] # g[k]
    OBVIOUS
  <2>5. k # 0
    BY <1>1, <2>4
  <2>6. k - 1 \in Nat /\ k - 1 <= n /\ k - 1 \notin bad
    BY <2>3, <2>4, <2>5
  <2>7. f[k - 1] = g[k - 1]
    BY <2>6
  <2>8. f[k] = Applied(f[k - 1], s[k]) /\ g[k] = Applied(g[k - 1], s[k])
    BY <1>1, <2>4, <2>5
  <2> QED
    BY <2>4, <2>7, <2>8
<1> QED
  BY <1>2

\* No variable leaves the request; one more is applied to what the others left.
LEMMA AfterValue ==
  ASSUME NEW r, NEW s, NEW n \in Nat
  PROVE  /\ After(r, s, 0) = r
         /\ After(r, s, n + 1) = Applied(After(r, s, n), s[n + 1])
<1> DEFINE Sol(k) == CHOOSE f : f = AfterStep(r, s, k, f)
<1>1. \A k \in Nat : Sol(k) = AfterStep(r, s, k, Sol(k))
  BY AfterExists
<1>2. \A k \in Nat : After(r, s, k) = Sol(k)[k]
  BY DEF After, AfterStep
<1> HIDE DEF Sol
<1>3. PICK f : f = Sol(n)
  OBVIOUS
<1>4. PICK g : g = Sol(n + 1)
  OBVIOUS
<1>5. f = AfterStep(r, s, n, f) /\ g = AfterStep(r, s, n + 1, g)
  BY <1>1, <1>3, <1>4
<1>6. f[n] = g[n]
  <2>1. n + 1 \in Nat /\ n <= n + 1 /\ n \in 0 .. n
    OBVIOUS
  <2> QED
    BY <1>5, <2>1, AfterUnique
<1>7. g[n + 1] = Applied(g[n], s[n + 1])
  BY <1>5 DEF AfterStep
<1>8. After(r, s, n) = f[n] /\ After(r, s, n + 1) = g[n + 1]
  BY <1>2, <1>3, <1>4
<1>9. After(r, s, 0) = r
  <2>1. Sol(0) = AfterStep(r, s, 0, Sol(0)) /\ After(r, s, 0) = Sol(0)[0]
    BY <1>1, <1>2
  <2> QED
    BY <2>1 DEF AfterStep
<1> QED
  BY <1>6, <1>7, <1>8, <1>9

\* A batch that writes nothing twice leaves, taken in the opposite order, the
\* request with all its corrections.
LEMMA ReversedCorrects ==
  ASSUME NEW r, WellShaped(r), NEW s \in Seq(DeltaVars), ~ Conflicting(s),
         \A i \in DOMAIN s : s[i].kind # "unsupported"
  PROVE  CorrectedBy(After(r, Reversed(s), Len(s)), r, s, 1 .. Len(s))
<1> DEFINE reversed == Reversed(s)
           N == Len(s)
           Last(n) == (N + 1 - n) .. N
           Good(n) == CorrectedBy(After(r, reversed, n), r, s, Last(n))
           bad == {n \in Nat : n <= N /\ ~ Good(n)}
<1>1. N \in Nat /\ DOMAIN s = 1 .. N
  OBVIOUS
<1>2. Good(0)
  <2>1. Last(0) = {}
    BY <1>1
  <2>2. After(r, reversed, 0) = r
    BY AfterValue
  <2> HIDE DEF Last, reversed
  <2> QED
    BY <2>1, <2>2, CorrectedByNone
<1>3. ASSUME NEW n \in Nat, n < N, Good(n)
      PROVE  Good(n + 1)
  <2>1. reversed[n + 1] = s[N - n]
    BY <1>1, <1>3 DEF Reversed
  <2>2. /\ N - n \in DOMAIN s \ Last(n)
        /\ Last(n) \in SUBSET DOMAIN s
        /\ Last(n + 1) = Last(n) \cup {N - n}
    BY <1>1, <1>3
  <2>3. After(r, reversed, n + 1) = Applied(After(r, reversed, n), s[N - n])
    <3> HIDE DEF reversed
    <3> QED
      BY <2>1, AfterValue
  <2>4. PICK p : p = After(r, reversed, n)
    OBVIOUS
  <2>5. PICK j, I : j = N - n /\ I = Last(n)
    OBVIOUS
  <2>6. CorrectedBy(p, r, s, I)
    BY <1>3, <2>4, <2>5
  <2>7. I \in SUBSET DOMAIN s /\ j \in DOMAIN s \ I /\ s[j].kind # "unsupported"
    BY <2>2, <2>5
  <2>8. CorrectedBy(Applied(p, s[j]), r, s, I \cup {j})
    BY <2>6, <2>7, OneMoreCorrection
  <2> HIDE DEF reversed, Last
  <2> QED
    BY <2>2, <2>3, <2>4, <2>5, <2>8
<1>4. bad = {}
  <2> SUFFICES ASSUME bad # {}
               PROVE  FALSE
    OBVIOUS
  <2> HIDE DEF Good, N
  <2>1. bad \in SUBSET Nat
    OBVIOUS
  <2>2. \E k \in bad : \A m \in bad : k <= m
    <3> HIDE DEF bad
    <3> QED
      BY <2>1, LeastNatural
  <2>3. PICK k \in bad : \A m \in bad : k <= m
    BY <2>2
  <2>4. k \in Nat /\ k <= N /\ k # 0
    BY <1>2
  <2>5. k - 1 \in Nat /\ k - 1 < N /\ k - 1 \notin bad
    BY <1>1, <2>3, <2>4
  <2>6. Good(k - 1 + 1)
    BY <1>1, <1>3, <2>5
  <2>7. k - 1 + 1 = k
    BY <2>4
  <2> QED
    BY <2>6, <2>7
<1>5. Good(N)
  BY <1>1, <1>4
<1>6. Last(N) = 1 .. N
  BY <1>1
<1> HIDE DEF Last, N
<1> QED
  BY <1>5, <1>6 DEF N

\* One variable drops what needs the assumptions it invalidates.
LEMMA AppliedKeeps ==
  ASSUME NEW p, NEW r, KeepsTheRest(p, r),
         NEW dv, dv.kind \in {"assumption", "criterion", "alternative"}
  PROVE  /\ KeepsTheRest(Applied(p, dv), r)
         /\ Applied(p, dv).alternatives =
              {a \in p.alternatives :
                 dv.kind = "assumption" =>
                   r.requires[a]
                     \cap InvalidationClosure(r.deps, {dv.assumption}) = {}}
<1>1. CASE dv.kind = "assumption"
  <2>1. PICK x : x = dv.assumption
    OBVIOUS
  <2>2. Applied(p, dv) = Falsified(p, x)
    BY <1>1, <2>1 DEF Applied
  <2>3. /\ KeepsTheRest(Falsified(p, x), r)
        /\ Falsified(p, x).alternatives =
             {a \in p.alternatives :
                r.requires[a] \cap InvalidationClosure(r.deps, {x}) = {}}
        /\ \A f \in RequestFields \ {"alternatives"} :
             Falsified(p, x)[f] = p[f]
    BY FalsifiedKeeps
  <2> QED
    BY <1>1, <2>1, <2>2, <2>3
<1>2. CASE dv.kind = "criterion"
  <2>1. Applied(p, dv) = Reweighed(p, dv.criterion, dv.weight)
    BY <1>2 DEF Applied
  <2> QED
    BY <1>2, <2>1, ReweighedKeeps
<1>3. CASE dv.kind = "alternative"
  <2>1. Applied(p, dv) = Remeasured(p, dv.alternative, dv.metric, dv.value)
    BY <1>3 DEF Applied
  <2> QED
    BY <1>3, <2>1, RemeasuredKeeps
<1> QED
  BY <1>1, <1>2, <1>3

\* The alternatives left are those that need nothing the variables of s
\* taken so far invalidate, in whatever order s declares them.
LEMMA AfterDrops ==
  ASSUME NEW r, r = [f \in RequestFields |-> r[f]], NEW s, NEW N \in Nat,
         \A i \in 1 .. N :
           s[i].kind \in {"assumption", "criterion", "alternative"}
  PROVE  \A n \in 0 .. N :
           After(r, s, n).alternatives =
             {a \in r.alternatives : r.requires[a] \cap Lost(r, s, n) = {}}
<1> DEFINE Good(n) ==
             /\ KeepsTheRest(After(r, s, n), r)
             /\ After(r, s, n).alternatives =
                  {a \in r.alternatives : r.requires[a] \cap Lost(r, s, n) = {}}
           bad == {n \in Nat : n <= N /\ ~ Good(n)}
<1>1. Good(0)
  <2>1. After(r, s, 0) = r
    BY AfterValue
  <2>2. Lost(r, s, 0) = {}
    BY DEF Lost, LostTo
  <2>3. KeepsTheRest(r, r)
    BY DEF KeepsTheRest
  <2> QED
    BY <2>1, <2>2, <2>3
<1>2. ASSUME NEW n \in Nat, n < N, Good(n)
      PROVE  Good(n + 1)
  <2>1. PICK p, dv : p = After(r, s, n) /\ dv = s[n + 1]
    OBVIOUS
  <2>2. After(r, s, n + 1) = Applied(p, dv)
    BY <2>1, AfterValue
  <2>3. dv.kind \in {"assumption", "criterion", "alternative"}
    BY <1>2, <2>1
  <2>4. /\ KeepsTheRest(p, r)
        /\ p.alternatives =
             {a \in r.alternatives : r.requires[a] \cap Lost(r, s, n) = {}}
    BY <1>2, <2>1
  <2>5. /\ KeepsTheRest(Applied(p, dv), r)
        /\ Applied(p, dv).alternatives =
             {a \in p.alternatives :
                dv.kind = "assumption" =>
                  r.requires[a]
                    \cap InvalidationClosure(r.deps, {dv.assumption}) = {}}
    BY <2>3, <2>4, AppliedKeeps
  <2>6. Lost(r, s, n + 1) =
          Lost(r, s, n) \cup
            (IF dv.kind = "assumption"
             THEN InvalidationClosure(r.deps, {dv.assumption}) ELSE {})
    BY <2>1, LostGrows
  <2>7. Applied(p, dv).alternatives =
          {a \in r.alternatives : r.requires[a] \cap Lost(r, s, n + 1) = {}}
    BY <2>4, <2>5, <2>6
  <2> QED
    BY <2>2, <2>5, <2>7
<1>3. bad = {}
  <2> SUFFICES ASSUME bad # {}
               PROVE  FALSE
    OBVIOUS
  <2> HIDE DEF Good
  <2>1. bad \in SUBSET Nat
    OBVIOUS
  <2>2. \E k \in bad : \A m \in bad : k <= m
    <3> HIDE DEF bad
    <3> QED
      BY <2>1, LeastNatural
  <2>3. PICK k \in bad : \A m \in bad : k <= m
    BY <2>2
  <2>4. k \in Nat /\ k <= N /\ k # 0
    BY <1>1
  <2>5. k - 1 \in Nat /\ k - 1 < N /\ k - 1 \notin bad
    BY <2>3, <2>4
  <2>6. Good(k - 1 + 1)
    BY <1>2, <2>5
  <2>7. k - 1 + 1 = k
    BY <2>4
  <2> QED
    BY <2>6, <2>7
<1> QED
  BY <1>3

------------------------------------------------------------------------------
(***************************************************************************)
(* The invariant                                                           *)
(***************************************************************************)

Started ==
  /\ request \in Requests
  /\ batch \in Batches
  /\ applied \in 0 .. Len(batch)

\* The patched request, as far as the applied variables determine it.
PatchedInv ==
  /\ KeepsTheRest(patched, request)
  /\ patched.alternatives =
       {a \in request.alternatives :
          request.requires[a] \cap Lost(request, batch, applied) = {}}
  /\ (\A i \in 1 .. applied : batch[i].kind = "assumption") =>
       \A f \in RequestFields \ {"alternatives"} : patched[f] = request[f]

\* An applied variable names an alternative of the request, if any, and
\* unless two variables write the same thing, the patched request has each
\* correction of the applied ones.
CorrectedInv ==
  /\ \A i \in 1 .. applied :
       /\ batch[i].kind # "unsupported"
       /\ batch[i].kind = "alternative" =>
            batch[i].alternative \in request.alternatives
  /\ ~ Conflicting(batch) => CorrectedBy(patched, request, batch, 1 .. applied)

\* A report is of the whole batch, and both results are evaluations.
ReportInv ==
  /\ invalidated \subseteq Assumptions
  /\ call \in {"running", "reported", "raised"}
  /\ before # NoResult => Readable(request) /\ before = Evaluate(request)
  /\ call = "reported" =>
       /\ applied = Len(batch)
       /\ invalidated = CollectInvalidated(request, batch)
       /\ before # NoResult
       /\ after # NoResult
       /\ after = Evaluate(patched)

DeltaInv == Started /\ PatchedInv /\ CorrectedInv /\ ReportInv

LEMMA BatchesAreSequences ==
  ASSUME Started
  PROVE  /\ batch \in Seq(DeltaVars)
         /\ Len(batch) \in Nat
         /\ applied \in Nat
         /\ DOMAIN batch = 1 .. Len(batch)
<1>1. batch \in Seq(DeltaVars)
  BY RequestAssumption DEF Started
<1> QED
  BY <1>1 DEF Started

\* The patched request evaluates to a result.
LEMMA PatchedEvaluates ==
  ASSUME Started, PatchedInv
  PROVE  Evaluate(patched) # NoResult
<1>1. WellShaped(request) /\ NoResult \notin Result
  BY RequestAssumption DEF Started
<1>2. /\ patched.mode \in Mode
      /\ patched.critical \subseteq Assumptions
      /\ patched.alternatives \subseteq Alternatives
      /\ Criteria(patched) \subseteq CriterionIds
  BY <1>1 DEF WellShaped, PatchedInv, KeepsTheRest
<1>3. Evaluate(patched) \in Result
  BY <1>2, EvaluationYieldsResult
<1> QED
  BY <1>1, <1>3

\* One delta variable, applied to what the others left.
LEMMA ApplyKeepsInvariant ==
  ASSUME Started, PatchedInv, ApplyDeltaVar
  PROVE  Started' /\ PatchedInv'
<1> DEFINE n  == applied
           dv == batch[n + 1]
           r  == request
           s  == batch
           p  == patched
<1>1. /\ s \in Seq(DeltaVars)
      /\ n \in Nat
      /\ n < Len(s)
      /\ Len(s) \in Nat
      /\ DOMAIN s = 1 .. Len(s)
  BY BatchesAreSequences DEF ApplyDeltaVar
<1>2. /\ request' = request
      /\ batch' = batch
      /\ applied' = applied + 1
      /\ patched' = Applied(patched, batch[applied + 1])
      /\ Applicable(patched, batch[applied + 1])
  BY DEF ApplyDeltaVar
<1>3. Started'
  BY <1>1, <1>2 DEF Started
<1>4. dv \in DeltaVars
  BY <1>1
<1>5. dv.kind \in {"assumption", "criterion", "alternative", "unsupported"}
  BY <1>4, RequestAssumption
<1>6. KeepsTheRest(p, r)
  BY DEF PatchedInv
<1>7. Lost(r, s, n + 1) =
        Lost(r, s, n) \cup
          (IF dv.kind = "assumption"
           THEN InvalidationClosure(r.deps, {dv.assumption}) ELSE {})
  BY <1>1, LostGrows
<1>8. CASE dv.kind = "assumption"
  <2>1. patched' = Falsified(p, dv.assumption)
    BY <1>2, <1>8 DEF Applied
  <2>2. /\ KeepsTheRest(patched', r)
        /\ patched'.alternatives =
             {a \in p.alternatives :
                r.requires[a]
                  \cap InvalidationClosure(r.deps, {dv.assumption}) = {}}
        /\ \A f \in RequestFields \ {"alternatives"} : patched'[f] = p[f]
    <3>1. PICK x : x = dv.assumption
      OBVIOUS
    <3>2. /\ KeepsTheRest(Falsified(p, x), r)
          /\ Falsified(p, x).alternatives =
               {a \in p.alternatives :
                  r.requires[a] \cap InvalidationClosure(r.deps, {x}) = {}}
          /\ \A f \in RequestFields \ {"alternatives"} :
               Falsified(p, x)[f] = p[f]
      BY <1>6, FalsifiedKeeps
    <3> QED
      BY <2>1, <3>1, <3>2
  <2>3. patched'.alternatives =
          {a \in r.alternatives : r.requires[a] \cap Lost(r, s, n + 1) = {}}
    BY <1>7, <1>8, <2>2 DEF PatchedInv
  <2>4. (\A i \in 1 .. n + 1 : s[i].kind = "assumption") =>
          \A f \in RequestFields \ {"alternatives"} : patched'[f] = r[f]
    BY <1>1, <2>2 DEF PatchedInv
  <2> QED
    BY <1>2, <1>3, <2>2, <2>3, <2>4 DEF PatchedInv
<1>9. CASE dv.kind \in {"criterion", "alternative"}
  <2>1. /\ KeepsTheRest(patched', r)
        /\ patched'.alternatives = p.alternatives
    <3>1. CASE dv.kind = "criterion"
      <4>1. patched' = Reweighed(p, dv.criterion, dv.weight)
        BY <1>2, <3>1 DEF Applied
      <4> QED
        BY <1>6, <4>1, ReweighedKeeps
    <3>2. CASE dv.kind = "alternative"
      <4>1. patched' = Remeasured(p, dv.alternative, dv.metric, dv.value)
        BY <1>2, <3>2 DEF Applied
      <4> QED
        BY <1>6, <4>1, RemeasuredKeeps
    <3> QED
      BY <1>9, <3>1, <3>2
  <2>2. patched'.alternatives =
          {a \in r.alternatives : r.requires[a] \cap Lost(r, s, n + 1) = {}}
    BY <1>7, <1>9, <2>1 DEF PatchedInv
  <2>3. n + 1 \in 1 .. n + 1 /\ s[n + 1].kind # "assumption"
    BY <1>1, <1>9
  <2> QED
    BY <1>2, <1>3, <2>1, <2>2, <2>3 DEF PatchedInv
<1>10. dv.kind # "unsupported"
  BY <1>2 DEF Applicable
<1> QED
  BY <1>5, <1>8, <1>9, <1>10

LEMMA ApplyKeepsCorrections ==
  ASSUME Started, PatchedInv, CorrectedInv, ApplyDeltaVar
  PROVE  CorrectedInv'
<1>1. /\ batch \in Seq(DeltaVars)
      /\ applied \in Nat /\ applied < Len(batch) /\ Len(batch) \in Nat
      /\ DOMAIN batch = 1 .. Len(batch)
  BY BatchesAreSequences DEF ApplyDeltaVar
<1>2. /\ request' = request
      /\ batch' = batch
      /\ applied' = applied + 1
      /\ patched' = Applied(patched, batch[applied + 1])
      /\ Applicable(patched, batch[applied + 1])
  BY DEF ApplyDeltaVar
<1>3. /\ batch[applied + 1].kind # "unsupported"
      /\ batch[applied + 1].kind = "alternative" =>
           batch[applied + 1].alternative \in request.alternatives
  BY <1>2 DEF Applicable, PatchedInv
<1>4. PICK I, j : I = 1 .. applied /\ j = applied + 1
  OBVIOUS
<1>5. /\ I \in SUBSET DOMAIN batch
      /\ j \in DOMAIN batch \ I
      /\ 1 .. applied + 1 = I \cup {j}
  BY <1>1, <1>4
<1>6. \A i \in 1 .. applied + 1 :
        /\ batch[i].kind # "unsupported"
        /\ batch[i].kind = "alternative" =>
             batch[i].alternative \in request.alternatives
  BY <1>1, <1>3 DEF CorrectedInv
<1>7. ASSUME ~ Conflicting(batch)
      PROVE  CorrectedBy(patched', request, batch, 1 .. applied + 1)
  <2>1. CorrectedBy(patched, request, batch, I)
    BY <1>4, <1>7 DEF CorrectedInv
  <2>2. PICK s : s = batch
    OBVIOUS
  <2>3. CorrectedBy(Applied(patched, s[j]), request, s, I \cup {j})
    BY <1>1, <1>3, <1>4, <1>5, <1>7, <2>1, <2>2, OneMoreCorrection
  <2> QED
    BY <1>2, <1>4, <1>5, <2>2, <2>3
<1> QED
  BY <1>2, <1>6, <1>7 DEF CorrectedInv, Conflicting

\* Every reachable state satisfies the invariant.
LEMMA DeltaInvariant == Spec => []DeltaInv
<1>1. Init => DeltaInv
  <2> SUFFICES ASSUME Init PROVE DeltaInv
    OBVIOUS
  <2>1. Started
    <3>1. batch \in Seq(DeltaVars)
      BY RequestAssumption DEF Init
    <3> QED
      BY <3>1 DEF Init, Started
  <2>2. request = [f \in RequestFields |-> request[f]]
    BY RequestAssumption DEF Init, WellShaped
  <2>3. Lost(request, batch, 0) = {}
    BY DEF Lost, LostTo
  <2>4. PatchedInv
    BY <2>2, <2>3 DEF Init, PatchedInv, KeepsTheRest
  <2>5. CorrectedInv
    <3>1. WellShaped(request)
      BY RequestAssumption DEF Init
    <3>2. 1 .. applied = {} /\ patched = request
      BY DEF Init
    <3>3. CorrectedBy(request, request, batch, {})
      BY <3>1, CorrectedByNone
    <3> QED
      BY <3>2, <3>3 DEF CorrectedInv
  <2> QED
    BY <2>1, <2>4, <2>5 DEF Init, DeltaInv, ReportInv
<1>2. DeltaInv /\ [Next]_vars => DeltaInv'
  <2> SUFFICES ASSUME DeltaInv, [Next]_vars PROVE DeltaInv'
    OBVIOUS
  <2> USE DEF DeltaInv
  <2>1. CASE EvaluateBaseline
    BY <2>1 DEF EvaluateBaseline, Started, PatchedInv, CorrectedInv, ReportInv
  <2>2. CASE ApplyDeltaVar
    <3>1. Started' /\ PatchedInv'
      BY <2>2, ApplyKeepsInvariant
    <3>2. CorrectedInv'
      BY <2>2, ApplyKeepsCorrections
    <3>3. ReportInv'
      BY <2>2 DEF ApplyDeltaVar, ReportInv
    <3> QED
      BY <3>1, <3>2, <3>3
  <2>3. CASE RefuseDeltaVar
    BY <2>3 DEF RefuseDeltaVar, Started, PatchedInv, CorrectedInv, ReportInv
  <2>4. CASE EvaluatePatched
    <3>1. Evaluate(patched) # NoResult
      BY PatchedEvaluates
    <3>2. CollectInvalidated(request, batch) \subseteq Assumptions
      BY DEF CollectInvalidated, InvalidationClosure
    <3>3. Started' /\ PatchedInv' /\ CorrectedInv'
      BY <2>4 DEF EvaluatePatched, Started, PatchedInv, CorrectedInv
    <3>4. ReportInv'
      BY <2>4, <3>1, <3>2 DEF EvaluatePatched, ReportInv
    <3> QED
      BY <3>3, <3>4
  <2>5. CASE EvaluationRaises
    BY <2>5 DEF EvaluationRaises, Started, PatchedInv, CorrectedInv, ReportInv
  <2>6. CASE UNCHANGED vars
    BY <2>6 DEF vars, Started, PatchedInv, CorrectedInv, ReportInv
  <2> QED
    BY <2>1, <2>2, <2>3, <2>4, <2>5, <2>6 DEF Next
<1> QED
  BY <1>1, <1>2, PTL DEF Spec

------------------------------------------------------------------------------
(***************************************************************************)
(* The theorems                                                            *)
(***************************************************************************)

\* The variables of a delta reconstruction keep their types: no variable
\* adds or removes a field of the request, or adds an alternative
\* (reconstruction.py:585-645).
THEOREM TypeCorrect == Spec => []TypeOK
<1>1. DeltaInv => TypeOK
  <2> SUFFICES ASSUME DeltaInv PROVE TypeOK
    OBVIOUS
  <2>1. request = [f \in RequestFields |-> request[f]]
    BY RequestAssumption DEF DeltaInv, Started, WellShaped
  <2>2. DOMAIN request = RequestFields /\ DOMAIN patched = RequestFields
    BY <2>1 DEF DeltaInv, PatchedInv, KeepsTheRest
  <2> QED
    BY <2>2 DEF DeltaInv, Started, PatchedInv, ReportInv, TypeOK
<1> QED
  BY <1>1, DeltaInvariant, PTL

\* Applying the variables in turn drops the alternatives that need what the
\* report calls invalidated, and no other, whatever else the batch corrects
\* (reconstruction.py:585-602, 648-660).
THEOREM DroppedTheorem == Spec => []DroppedAsReported
<1>1. DeltaInv => DroppedAsReported
  <2> SUFFICES ASSUME DeltaInv, call = "reported"
               PROVE  patched.alternatives =
                        {a \in request.alternatives :
                           request.requires[a] \cap invalidated = {}}
    BY DEF DroppedAsReported
  <2>1. Lost(request, batch, applied) = invalidated
    BY BatchesAreSequences, LostIsCollected DEF DeltaInv, ReportInv
  <2> QED
    BY <2>1 DEF DeltaInv, PatchedInv
<1> QED
  BY <1>1, DeltaInvariant, PTL

\* A batch of falsified assumptions leaves the request that the scenario
\* which fails everything it invalidates leaves; the scenario that fails what
\* it falsifies keeps no fewer alternatives, and more only if they require a
\* dependent (scenario.py:79-85).
THEOREM ScenarioTheorem == Spec => []ScenarioOfClosureIsDelta
<1>1. DeltaInv /\ call = "reported" /\ OnlyAssumptions
        => ApplyScenario(request, Failing(invalidated)) = patched
  <2> DEFINE scenario == Failing(invalidated)
  <2> SUFFICES ASSUME DeltaInv, call = "reported", OnlyAssumptions
               PROVE  ApplyScenario(request, scenario) = patched
    OBVIOUS
  <2>1. /\ applied = Len(batch)
        /\ DOMAIN batch = 1 .. Len(batch)
        /\ Lost(request, batch, applied) = invalidated
    BY BatchesAreSequences, LostIsCollected DEF DeltaInv, ReportInv
  <2>2. Surviving(request, scenario) = patched.alternatives
    BY <2>1 DEF Surviving, Failing, DeltaInv, PatchedInv
  <2>3. /\ request = [f \in RequestFields |-> request[f]]
        /\ request.metrics =
             [a \in Alternatives |->
                [m \in DOMAIN request.metrics[a] |-> request.metrics[a][m]]]
    BY RequestAssumption DEF DeltaInv, Started, WellShaped, IsTable
  <2>4. Overridden(request, scenario) = request.metrics
    <3>1. Overridden(request, scenario) =
            [a \in Alternatives |->
               [m \in DOMAIN request.metrics[a] |-> request.metrics[a][m]]]
      BY DEF Overridden, Failing
    <3> QED
      BY <2>3, <3>1
  <2> HIDE DEF scenario
  <2>5. ApplyScenario(request, scenario) =
          [request EXCEPT !.alternatives = patched.alternatives,
                          !.metrics = request.metrics]
    BY <2>2, <2>4 DEF ApplyScenario
  <2>6. /\ patched = [f \in RequestFields |-> patched[f]]
        /\ \A f \in RequestFields \ {"alternatives"} : patched[f] = request[f]
    BY <2>1 DEF OnlyAssumptions, DeltaInv, PatchedInv, KeepsTheRest
  <2> DEFINE left == [request EXCEPT !.alternatives = patched.alternatives,
                                     !.metrics = request.metrics]
  <2>7. /\ left = [f \in RequestFields |-> left[f]]
        /\ left.alternatives = patched.alternatives
        /\ \A f \in RequestFields \ {"alternatives"} : left[f] = request[f]
    BY <2>3 DEF RequestFields
  <2> HIDE DEF left
  <2>8. \A f \in RequestFields : left[f] = patched[f]
    BY <2>6, <2>7
  <2>9. left = patched
    BY <2>6, <2>7, <2>8
  <2> QED
    BY <2>5, <2>9 DEF left
<1>2. DeltaInv => ScenarioOfClosureIsDelta
  <2> DEFINE narrow == Failing(Falsifies(batch))
  <2> SUFFICES ASSUME DeltaInv, call = "reported", OnlyAssumptions
               PROVE  /\ patched.alternatives \subseteq Surviving(request, narrow)
                      /\ \A a \in Surviving(request, narrow) \ patched.alternatives :
                           request.requires[a]
                             \cap (invalidated \ Falsifies(batch)) # {}
    BY <1>1 DEF ScenarioOfClosureIsDelta
  <2>1. patched.alternatives =
          {a \in request.alternatives : request.requires[a] \cap invalidated = {}}
    <3>1. Lost(request, batch, applied) = invalidated
      BY BatchesAreSequences, LostIsCollected DEF DeltaInv, ReportInv
    <3> QED
      BY <3>1 DEF DeltaInv, PatchedInv
  <2>2. Surviving(request, narrow) =
          {a \in request.alternatives :
             request.requires[a] \cap Falsifies(batch) = {}}
    BY DEF Surviving, Failing
  <2>3. Falsifies(batch) \subseteq invalidated
    <3>1. batch \in Seq(DeltaVars)
      BY BatchesAreSequences DEF DeltaInv
    <3>2. Falsifies(batch) \subseteq Assumptions
      BY <3>1, RequestAssumption DEF Falsifies
    <3> QED
      BY <3>1, <3>2, FalsifiesInvalidates DEF DeltaInv, ReportInv
  <2> HIDE DEF narrow
  <2> QED
    BY <2>1, <2>2, <2>3
<1> QED
  BY <1>2, DeltaInvariant, PTL

\* A batch that writes nothing twice is a set of corrections: the variables,
\* taken in the opposite order, make the same ones.
LEMMA ReversedLeavesTheSame ==
  DeltaInv /\ call = "reported" => SameInReverse
<1> SUFFICES ASSUME DeltaInv, call = "reported", ~ Conflicting(batch)
             PROVE  After(request, Reversed(batch), Len(batch)) = patched
  BY DEF SameInReverse
<1>1. /\ batch \in Seq(DeltaVars)
      /\ DOMAIN batch = 1 .. Len(batch)
      /\ applied = Len(batch)
  BY BatchesAreSequences DEF DeltaInv, ReportInv
<1>2. /\ \A i \in DOMAIN batch : batch[i].kind # "unsupported"
      /\ CorrectedBy(patched, request, batch, 1 .. Len(batch))
  BY <1>1 DEF DeltaInv, CorrectedInv
<1>3. WellShaped(request)
  BY RequestAssumption DEF DeltaInv, Started
<1>4. CorrectedBy(After(request, Reversed(batch), Len(batch)), request, batch,
                  1 .. Len(batch))
  BY <1>1, <1>2, <1>3, ReversedCorrects
<1> QED
  BY <1>2, <1>4, CorrectionsDetermine

\* A batch that is reported in its own order is refused in the opposite one
\* only for measuring an alternative that it drops itself.
LEMMA RefusedForDropped ==
  DeltaInv /\ call = "reported" /\ ~ Accepted(request, Reversed(batch))
    => MeasuresDropped
<1> DEFINE N == Len(batch)
           reversed == Reversed(batch)
<1> SUFFICES ASSUME DeltaInv, call = "reported", ~ Accepted(request, reversed)
             PROVE  \E i \in DOMAIN batch :
                      /\ batch[i].kind = "alternative"
                      /\ batch[i].alternative
                           \in request.alternatives \ patched.alternatives
  BY DEF MeasuresDropped
<1>1. /\ batch \in Seq(DeltaVars)
      /\ N \in Nat /\ DOMAIN batch = 1 .. N
      /\ applied = N
  BY BatchesAreSequences DEF DeltaInv, ReportInv
<1>2. \A i \in 1 .. N :
        /\ batch[i].kind \in {"assumption", "criterion", "alternative"}
        /\ batch[i].kind = "alternative" =>
             batch[i].alternative \in request.alternatives
  <2>1. \A i \in 1 .. N : batch[i] \in DeltaVars
    BY <1>1
  <2> QED
    BY <1>1, <2>1, RequestAssumption DEF DeltaInv, CorrectedInv
<1>3. PICK i \in 1 .. N :
        ~ Applicable(After(request, reversed, i - 1), reversed[i])
  BY <1>1 DEF Accepted, Reversed
<1>4. PICK j : j = N + 1 - i
  OBVIOUS
<1>5. j \in 1 .. N /\ reversed[i] = batch[j]
  BY <1>1, <1>4 DEF Reversed
<1>6. /\ batch[j].kind = "alternative"
      /\ batch[j].alternative
           \notin After(request, reversed, i - 1).alternatives
  BY <1>2, <1>3, <1>5 DEF Applicable
<1>7. request = [f \in RequestFields |-> request[f]]
  BY RequestAssumption DEF DeltaInv, Started, WellShaped
<1>8. \A k \in 1 .. N : \E m \in 1 .. N : reversed[k] = batch[m]
  <2>1. \A k \in 1 .. N : N + 1 - k \in 1 .. N /\ reversed[k] = batch[N + 1 - k]
    BY <1>1 DEF Reversed
  <2> QED
    BY <2>1
<1>9. After(request, reversed, i - 1).alternatives =
        {a \in request.alternatives :
           request.requires[a] \cap Lost(request, reversed, i - 1) = {}}
  <2>1. \A k \in 1 .. N :
          reversed[k].kind \in {"assumption", "criterion", "alternative"}
    BY <1>2, <1>8
  <2>2. i - 1 \in 0 .. N
    BY <1>1
  <2> HIDE DEF reversed, N
  <2> QED
    BY <1>1, <1>7, <2>1, <2>2, AfterDrops
<1>10. Lost(request, reversed, i - 1) \subseteq Lost(request, batch, N)
  <2>1. \A k \in 1 .. i - 1 : k \in 1 .. N
    BY <1>1
  <2> HIDE DEF reversed, N
  <2> QED
    BY <1>8, <2>1 DEF Lost, LostTo
<1>11. batch[j].alternative \in request.alternatives \ patched.alternatives
  BY <1>1, <1>2, <1>5, <1>6, <1>9, <1>10 DEF DeltaInv, PatchedInv
<1> QED
  BY <1>1, <1>5, <1>6, <1>11

\* The order of a batch decides neither what it leaves, if it writes nothing
\* twice, nor whether it is accepted, if it measures nothing that it drops
\* (reconstruction.py:585-645).
THEOREM OrderTheorem == Spec => []OrderIrrelevant
<1>1. DeltaInv => OrderIrrelevant
  BY ReversedLeavesTheSame, RefusedForDropped DEF OrderIrrelevant
<1> QED
  BY <1>1, DeltaInvariant, PTL

\* The counterfactual of a critical assumption, read off the baseline without
\* a new selection, says whether the reconstruction that falsifies it has
\* other leading candidates, and the leaders it keeps lead there; those that
\* join or follow them it does not say (counterfactual.py:42-71,
\* reconstruction.py:429-564).
THEOREM CounterfactualTheorem == Spec => []CounterfactualsPredictDeltas
<1>1. DeltaInv => CounterfactualsPredictDeltas
  <2> SUFFICES ASSUME DeltaInv, call = "reported", before.leading # {},
                      NEW x \in request.critical, FalsifiesOnly(x)
               PROVE  /\ IsConverged <=> x \notin before.changing
                      /\ before.leading \ Affected(request, x)
                           \subseteq after.leading
    BY DEF CounterfactualsPredictDeltas
  <2>1. /\ batch \in Seq(DeltaVars)
        /\ DOMAIN batch = 1 .. 1
        /\ applied = 1
        /\ before = Evaluate(request)
        /\ after = Evaluate(patched)
        /\ Readable(request)
        /\ request \in Requests
    BY BatchesAreSequences DEF FalsifiesOnly, DeltaInv, ReportInv, Started
  <2>2. batch[1].kind = "assumption" /\ batch[1].assumption = x
    BY <2>1 DEF FalsifiesOnly, Falsifies
  <2>3. patched = Falsified(request, x)
    <3>1. Lost(request, batch, 1) = InvalidationClosure(request.deps, {x})
      <4>1. {j \in 1 .. 1 : batch[j].kind = "assumption"} = {1}
        BY <2>2
      <4> QED
        BY <2>2, <4>1 DEF Lost, LostTo
    <3>2. /\ patched = [f \in RequestFields |-> patched[f]]
          /\ patched.alternatives =
               {a \in request.alternatives :
                  request.requires[a]
                    \cap InvalidationClosure(request.deps, {x}) = {}}
          /\ \A f \in RequestFields \ {"alternatives"} : patched[f] = request[f]
      BY <2>1, <2>2, <3>1 DEF DeltaInv, PatchedInv, KeepsTheRest
    <3>3. request = [f \in RequestFields |-> request[f]]
      BY <2>1, RequestAssumption DEF WellShaped
    <3> QED
      BY <3>2, <3>3 DEF Falsified, RequestFields
  <2>4. /\ before.leading = LeadingCandidates(request)
        /\ before.changing =
             {y \in request.critical : DecisionChanged(request, y)}
        /\ after.leading = LeadingCandidates(Falsified(request, x))
    BY <2>1, <2>3 DEF Evaluate, FailureBranches
  <2>5. LeadingCandidates(request) = LeadingCandidates(Falsified(request, x))
          <=> ~ DecisionChanged(request, x)
    BY <2>1, <2>4, CounterfactualPredicts
  <2>6. LeadingCandidates(request) \ Affected(request, x)
          \subseteq LeadingCandidates(Falsified(request, x))
    BY <2>1, KeptLeadersLead
  <2> QED
    BY <2>4, <2>5, <2>6 DEF IsConverged
<1> QED
  BY <1>1, DeltaInvariant, PTL

\* Whatever is eligible and off the Pareto frontier is dominated by an
\* alternative on it (robustness.py:119-162).
THEOREM FrontierTheorem == Spec => []FrontierCovers
<1>1. DeltaInv => FrontierCovers
  BY FrontierCoversEligible DEF DeltaInv, Started, ReportInv, FrontierCovers
<1> QED
  BY <1>1, DeltaInvariant, PTL
=============================================================================
