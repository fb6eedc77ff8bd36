------------------------ MODULE BackwardTracing_proofs ------------------------
(***************************************************************************)
(* The chains of backward tracing are traces of declared dependencies, for *)
(* every dependency graph, circular ones included; on an acyclic graph the *)
(* search from each seed finds a root.  The second fact rests on an        *)
(* invariant of the search, that what it met either waits in the queue or  *)
(* has dependents, all met, and on maximal elements of finite orders.      *)
(***************************************************************************)
EXTENDS BackwardTracing, FiniteSetTheorems, WellFoundedInduction, TLAPS

\* What is waiting in the queue was met by the search.
WaitingIsVisited ==
  \A i \in DOMAIN frontier : \A k \in 1 .. Len(frontier[i]) :
    frontier[i][k] \in visited

SearchState ==
  /\ seeds \subseteq Seeds
  /\ seed = NoSeed => frontier = <<>>

TracingInv == TypeOK /\ ChainsTraceSeeds /\ WaitingIsVisited /\ SearchState

------------------------------------------------------------------------------
(***************************************************************************)
(* Queues and chains                                                       *)
(***************************************************************************)

\* What is in a queue after its head was taken off and others were appended
\* was in it or was appended.
LEMMA QueueAfter ==
  ASSUME NEW X, NEW q \in Seq(X), q # <<>>, NEW e \in Seq(X)
  PROVE  /\ Tail(q) \o e \in Seq(X)
         /\ Head(q) \in X
         /\ Head(q) = q[1]
         /\ 1 \in DOMAIN q
         /\ \A i \in DOMAIN (Tail(q) \o e) :
              \/ \E j \in DOMAIN q : (Tail(q) \o e)[i] = q[j]
              \/ \E j \in DOMAIN e : (Tail(q) \o e)[i] = e[j]
<1>1. /\ Tail(q) \in Seq(X)
      /\ Len(Tail(q)) = Len(q) - 1
      /\ Len(q) \in Nat \ {0}
      /\ \A i \in 1 .. Len(Tail(q)) : Tail(q)[i] = q[i + 1]
  OBVIOUS
<1>2. Tail(q) \o e \in Seq(X)
  BY <1>1
<1>3. ASSUME NEW i \in DOMAIN (Tail(q) \o e)
      PROVE  \/ \E j \in DOMAIN q : (Tail(q) \o e)[i] = q[j]
             \/ \E j \in DOMAIN e : (Tail(q) \o e)[i] = e[j]
  <2>1. i \in 1 .. Len(Tail(q)) + Len(e)
    BY <1>1, <1>3
  <2>2. CASE i <= Len(Tail(q))
    <3>1. (Tail(q) \o e)[i] = q[i + 1]
      BY <1>1, <2>1, <2>2
    <3>2. i + 1 \in DOMAIN q
      BY <1>1, <2>1, <2>2
    <3> QED
      BY <3>1, <3>2
  <2>3. CASE i > Len(Tail(q))
    <3>1. (Tail(q) \o e)[i] = e[i - Len(Tail(q))]
      BY <1>1, <2>1, <2>3
    <3>2. i - Len(Tail(q)) \in DOMAIN e
      BY <1>1, <2>1, <2>3
    <3> QED
      BY <3>1, <3>2
  <2> QED
    BY <1>1, <2>1, <2>2, <2>3
<1> QED
  BY <1>1, <1>2, <1>3

\* Whatever was in the queue but at its head is in it still, and so is what
\* was appended.
LEMMA QueueKeeps ==
  ASSUME NEW X, NEW q \in Seq(X), q # <<>>, NEW e \in Seq(X),
         NEW i \in DOMAIN q, i # 1
  PROVE  \E j \in DOMAIN (Tail(q) \o e) : (Tail(q) \o e)[j] = q[i]
<1>1. /\ Tail(q) \in Seq(X)
      /\ Len(Tail(q)) = Len(q) - 1
      /\ Len(q) \in Nat \ {0}
      /\ \A k \in 1 .. Len(Tail(q)) : Tail(q)[k] = q[k + 1]
  OBVIOUS
<1>2. i - 1 \in 1 .. Len(Tail(q)) /\ (i - 1) + 1 = i
  BY <1>1
<1>3. /\ i - 1 \in DOMAIN (Tail(q) \o e)
      /\ (Tail(q) \o e)[i - 1] = Tail(q)[i - 1]
  BY <1>1, <1>2
<1> QED
  BY <1>1, <1>2, <1>3

LEMMA QueueGains ==
  ASSUME NEW X, NEW q \in Seq(X), q # <<>>, NEW e \in Seq(X),
         NEW i \in DOMAIN e
  PROVE  \E j \in DOMAIN (Tail(q) \o e) : (Tail(q) \o e)[j] = e[i]
<1>1. Tail(q) \in Seq(X)
  OBVIOUS
<1>2. /\ Len(Tail(q)) + i \in DOMAIN (Tail(q) \o e)
      /\ (Tail(q) \o e)[Len(Tail(q)) + i] = e[i]
  BY <1>1
<1> QED
  BY <1>2

\* A chain with one more assumption before it.
LEMMA ChainBefore ==
  ASSUME NEW a \in Assumptions, NEW chain \in Chain
  PROVE  /\ <<a>> \o chain \in Chain
         /\ Len(<<a>> \o chain) = Len(chain) + 1
         /\ Len(chain) \in Nat \ {0}
         /\ (<<a>> \o chain)[1] = a
         /\ \A i \in 1 .. Len(chain) : (<<a>> \o chain)[i + 1] = chain[i]
BY DEF Chain

\* The lists of dependents hold the new open dependents and nothing else.
LEMMA OpenDependentsAre ==
  ASSUME NEW current
  PROVE  /\ OpenDependents(current) \in Seq(Assumptions)
         /\ \A i \in DOMAIN OpenDependents(current) :
              /\ OpenDependents(current)[i] \in Dependents(deps, current)
              /\ OpenDependents(current)[i] \notin visited
              /\ evidence[OpenDependents(current)[i]] # "supplied"
<1> DEFINE S == {a \in NewDependents(current) : ~Verified(a)}
<1>1. S \in SUBSET Assumptions
  BY DEF NewDependents, Dependents
<1>2. /\ InOrder[S] \in Seq(Assumptions)
      /\ {InOrder[S][i] : i \in DOMAIN InOrder[S]} = S
  BY <1>1, TracingAssumption
<1>3. \A i \in DOMAIN InOrder[S] : InOrder[S][i] \in S
  BY <1>2
<1>4. OpenDependents(current) = InOrder[S]
  BY DEF OpenDependents
<1>5. \A a \in S : /\ a \in Dependents(deps, current)
                   /\ a \notin visited
                   /\ evidence[a] # "supplied"
  BY DEF NewDependents, Verified
<1> HIDE DEF S
<1> QED
  BY <1>2, <1>3, <1>4, <1>5

\* Extending a chain that traces a seed, by a dependent not met before,
\* gives a chain that traces the seed.
LEMMA ExtendedTraces ==
  ASSUME NEW chain \in Chain, Traces(chain),
         \A k \in 1 .. Len(chain) : chain[k] \in visited,
         NEW i \in DOMAIN Extended(chain)
  PROVE  /\ Extended(chain)[i] \in Chain
         /\ Traces(Extended(chain)[i])
         /\ \A k \in 1 .. Len(Extended(chain)[i]) :
              Extended(chain)[i][k] \in visited \cup Dependents(deps, chain[1])
<1> DEFINE a == OpenDependents(chain[1])[i]
           longer == <<a>> \o chain
           n == Len(chain)
<1>1. i \in DOMAIN OpenDependents(chain[1]) /\ Extended(chain)[i] = longer
  BY DEF Extended
<1>2. /\ a \in Assumptions
      /\ a \in Dependents(deps, chain[1])
      /\ a \notin visited
      /\ evidence[a] # "supplied"
  BY <1>1, OpenDependentsAre DEF Dependents
<1> HIDE DEF a
<1>3. /\ longer \in Chain
      /\ Len(longer) = n + 1
      /\ n \in Nat \ {0}
      /\ longer[1] = a
      /\ \A k \in 1 .. n : longer[k + 1] = chain[k]
  BY <1>2, ChainBefore
<1> HIDE DEF longer, n
<1>4. \A k \in 2 .. n + 1 : /\ k - 1 \in 1 .. n
                           /\ longer[k] = chain[k - 1]
  <2> TAKE k \in 2 .. n + 1
  <2>1. k - 1 \in 1 .. n /\ (k - 1) + 1 = k
    BY <1>3
  <2> QED
    BY <1>3, <2>1
<1>5. longer[Len(longer)] \in Seeds
  <2>1. n + 1 \in 2 .. n + 1 /\ (n + 1) - 1 = n
    BY <1>3
  <2>2. longer[n + 1] = chain[n]
    BY <1>4, <2>1
  <2> QED
    BY <1>3, <2>2 DEF Traces, n
<1>6. \A k \in 1 .. Len(longer) :
        longer[k] \in visited \cup Dependents(deps, chain[1])
  <2> TAKE k \in 1 .. Len(longer)
  <2>1. CASE k = 1
    BY <1>2, <1>3, <2>1
  <2>2. CASE k \in 2 .. n + 1
    BY <1>4, <2>2 DEF n
  <2> QED
    BY <1>3, <2>1, <2>2
<1>7. \A j, k \in 1 .. Len(longer) : longer[j] = longer[k] => j = k
  <2>1. \A k \in 2 .. n + 1 : longer[k] # a
    BY <1>2, <1>4 DEF n
  <2>2. \A j, k \in 2 .. n + 1 : longer[j] = longer[k] => j = k
    <3> TAKE j, k \in 2 .. n + 1
    <3> HAVE longer[j] = longer[k]
    <3>1. j - 1 = k - 1
      BY <1>4 DEF Traces, n
    <3> QED
      BY <1>3, <3>1
  <2> QED
    BY <1>3, <2>1, <2>2
<1>8. \A k \in 1 .. Len(longer) - 1 :
        longer[k] \in Dependents(deps, longer[k + 1])
  <2> TAKE k \in 1 .. Len(longer) - 1
  <2>1. CASE k = 1
    BY <1>2, <1>3, <1>4, <2>1
  <2>2. CASE k \in 2 .. n
    <3>1. /\ longer[k] = chain[k - 1]
          /\ longer[k + 1] = chain[k]
          /\ k - 1 \in 1 .. n - 1
          /\ (k - 1) + 1 = k
      BY <1>3, <2>2, <1>4
    <3> QED
      BY <3>1 DEF Traces, n
  <2> QED
    BY <1>3, <2>1, <2>2
<1>9. \A k \in 1 .. Len(longer) : evidence[longer[k]] # "supplied"
  <2> TAKE k \in 1 .. Len(longer)
  <2>1. CASE k = 1
    BY <1>2, <1>3, <2>1
  <2>2. CASE k \in 2 .. n + 1
    BY <1>4, <2>2 DEF Traces, n
  <2> QED
    BY <1>3, <2>1, <2>2
<1> QED
  BY <1>1, <1>3, <1>5, <1>6, <1>7, <1>8, <1>9 DEF Traces

------------------------------------------------------------------------------
(***************************************************************************)
(* The invariant                                                           *)
(***************************************************************************)

LEMMA StartKeepsTraces == TracingInv /\ StartSeed => TracingInv'
<1> SUFFICES ASSUME TracingInv, StartSeed PROVE TracingInv'
  OBVIOUS
<1>1. PICK s \in seeds :
        /\ seed = NoSeed
        /\ seeds' = seeds \ {s}
        /\ seed' = s
        /\ frontier' = <<<<s>>>>
        /\ visited' = {s}
        /\ localRoots' = {}
        /\ UNCHANGED <<request, roots>>
  BY DEF StartSeed
<1>2. /\ UNCHANGED <<deps, evidence, mentions, roots>>
      /\ Seeds' = Seeds
  BY <1>1 DEF request, Seeds, Match
<1>3. s \in Seeds /\ s \in Assumptions /\ evidence[s] # "supplied"
  BY DEF TracingInv, SearchState, TypeOK, Seeds, Match
<1>4. \A i \in DOMAIN frontier' : i = 1 /\ frontier'[i] = <<s>>
  BY <1>1
<1>5. <<s>> \in Chain /\ Len(<<s>>) = 1 /\ <<s>>[1] = s
  BY <1>3 DEF Chain
<1>6. TypeOK'
  BY <1>1, <1>2, <1>3, <1>5 DEF TracingInv, TypeOK
<1>7. Traces(<<s>>)'
  BY <1>2, <1>3, <1>5 DEF Traces
<1>8. \A r \in DOMAIN roots : Traces(roots[r])' <=> Traces(roots[r])
  BY <1>2 DEF Traces
<1>9. ChainsTraceSeeds'
  BY <1>1, <1>2, <1>4, <1>7, <1>8 DEF TracingInv, ChainsTraceSeeds
<1>10. WaitingIsVisited'
  BY <1>1, <1>4, <1>5 DEF WaitingIsVisited
<1>11. SearchState'
  BY <1>1, <1>2, <1>3, TracingAssumption DEF TracingInv, SearchState
<1> QED
  BY <1>6, <1>9, <1>10, <1>11 DEF TracingInv

LEMMA VisitKeepsTraces == TracingInv /\ Visit => TracingInv'
<1> SUFFICES ASSUME TracingInv, Visit PROVE TracingInv'
  OBVIOUS
<1> DEFINE chain == Head(frontier)
<1>1. /\ frontier # <<>>
      /\ frontier' = Tail(frontier) \o Extended(chain)
      /\ visited' = visited \cup Dependents(deps, chain[1])
      /\ localRoots' = localRoots \cup (IF EndsAt(chain) THEN {chain} ELSE {})
      /\ UNCHANGED <<request, seeds, seed, roots>>
  BY DEF Visit
<1>2. /\ UNCHANGED <<deps, evidence, mentions, seeds, seed, roots>>
      /\ Seeds' = Seeds
  BY <1>1 DEF request, Seeds, Match
<1>3. frontier \in Seq(Chain)
  BY DEF TracingInv, TypeOK
<1>4. /\ chain \in Chain
      /\ chain = frontier[1]
      /\ 1 \in DOMAIN frontier
  BY <1>1, <1>3
<1>5. /\ Traces(chain)
      /\ \A k \in 1 .. Len(chain) : chain[k] \in visited
  BY <1>4 DEF TracingInv, ChainsTraceSeeds, WaitingIsVisited
<1> HIDE DEF chain
<1>6. \A i \in DOMAIN Extended(chain) :
        /\ Extended(chain)[i] \in Chain
        /\ Traces(Extended(chain)[i])
        /\ \A k \in 1 .. Len(Extended(chain)[i]) :
             Extended(chain)[i][k] \in visited'
  BY <1>1, <1>4, <1>5, ExtendedTraces
<1>7. Extended(chain) \in Seq(Chain)
  <2>1. OpenDependents(chain[1]) \in Seq(Assumptions)
    BY OpenDependentsAre
  <2>2. /\ DOMAIN Extended(chain) = 1 .. Len(OpenDependents(chain[1]))
        /\ Len(OpenDependents(chain[1])) \in Nat
        /\ Extended(chain) = [i \in DOMAIN Extended(chain) |-> Extended(chain)[i]]
    BY <2>1 DEF Extended
  <2> QED
    BY <1>6, <2>2
<1>8. /\ frontier' \in Seq(Chain)
      /\ \A i \in DOMAIN frontier' :
           \/ \E j \in DOMAIN frontier : frontier'[i] = frontier[j]
           \/ \E j \in DOMAIN Extended(chain) :
                frontier'[i] = Extended(chain)[j]
  BY <1>1, <1>3, <1>7, QueueAfter
<1>9. \A c : Traces(c)' <=> Traces(c)
  BY <1>2 DEF Traces
<1>10. TypeOK'
  BY <1>1, <1>2, <1>4, <1>8 DEF TracingInv, TypeOK, Dependents
<1>11. ChainsTraceSeeds'
  <2>1. \A i \in DOMAIN frontier' : Traces(frontier'[i])
    BY <1>6, <1>8 DEF TracingInv, ChainsTraceSeeds
  <2>2. \A c \in localRoots' : Traces(c)
    BY <1>1, <1>5 DEF TracingInv, ChainsTraceSeeds
  <2>3. \A r \in DOMAIN roots' : Traces(roots'[r]) /\ roots'[r][1] = r
    BY <1>2 DEF TracingInv, ChainsTraceSeeds
  <2> QED
    BY <1>9, <2>1, <2>2, <2>3 DEF ChainsTraceSeeds
<1>12. WaitingIsVisited'
  BY <1>1, <1>6, <1>8 DEF TracingInv, WaitingIsVisited
<1>13. SearchState'
  BY <1>1, <1>2 DEF TracingInv, SearchState
<1> QED
  BY <1>10, <1>11, <1>12, <1>13 DEF TracingInv

LEMMA FinishKeepsTraces == TracingInv /\ FinishSeed => TracingInv'
<1> SUFFICES ASSUME TracingInv, FinishSeed PROVE TracingInv'
  OBVIOUS
<1>1. /\ UNCHANGED <<deps, evidence, mentions, seeds, frontier, visited,
                     localRoots>>
      /\ frontier = <<>>
      /\ seed' = NoSeed
      /\ Seeds' = Seeds
  BY DEF FinishSeed, request, Seeds, Match
<1>2. \A c : Traces(c)' <=> Traces(c)
  BY <1>1 DEF Traces
<1>3. ASSUME NEW r \in DOMAIN roots'
      PROVE  /\ r \in Assumptions
             /\ roots'[r] \in Chain
             /\ Traces(roots'[r])
             /\ roots'[r][1] = r
  <2>1. /\ r \in DOMAIN roots \cup {chain[1] : chain \in localRoots}
        /\ roots'[r] = IF \E chain \in Found(r) : Kept(chain)
                       THEN CHOOSE chain \in Found(r) : Kept(chain)
                       ELSE roots[r]
    BY <1>3 DEF FinishSeed
  <2>2. CASE \E chain \in Found(r) : Kept(chain)
    <3>1. roots'[r] \in Found(r)
      BY <2>1, <2>2
    <3>2. /\ roots'[r] \in localRoots
          /\ roots'[r][1] = r
      BY <3>1 DEF Found
    <3>3. roots'[r] \in Chain /\ Traces(roots'[r])
      BY <3>2 DEF TracingInv, TypeOK, ChainsTraceSeeds
    <3> QED
      BY <3>2, <3>3 DEF Chain
  <2>3. CASE ~ \E chain \in Found(r) : Kept(chain)
    <3>1. r \in DOMAIN roots
      BY <2>1, <2>3 DEF Found, Kept
    <3> QED
      BY <2>1, <2>3, <3>1 DEF TracingInv, TypeOK, ChainsTraceSeeds
  <2> QED
    BY <2>2, <2>3
<1>4. TypeOK'
  BY <1>1, <1>3 DEF TracingInv, TypeOK
<1>5. ChainsTraceSeeds'
  BY <1>1, <1>2, <1>3 DEF TracingInv, ChainsTraceSeeds
<1>6. WaitingIsVisited' /\ SearchState'
  BY <1>1 DEF TracingInv, WaitingIsVisited, SearchState
<1> QED
  BY <1>4, <1>5, <1>6 DEF TracingInv

\* Every reachable state keeps the invariant of the search.
LEMMA TracingInvariant == Spec => []TracingInv
<1>1. ASSUME Init
      PROVE  TracingInv
  <2>1. \A signal \in Signals : mentions[signal] \subseteq Assumptions
    BY <1>1, TracingAssumption DEF Init
  <2>2. seeds \subseteq Assumptions
    BY <1>1, <2>1 DEF Init, Seeds, Match
  <2>3. DOMAIN roots = {}
    BY <1>1 DEF Init
  <2>4. frontier \in Seq(Chain) /\ DOMAIN frontier = {}
    BY <1>1 DEF Init
  <2>5. TypeOK
    BY <1>1, <2>2, <2>3, <2>4 DEF Init, TypeOK
  <2>6. ChainsTraceSeeds
    BY <1>1, <2>3, <2>4 DEF Init, ChainsTraceSeeds
  <2>7. WaitingIsVisited /\ SearchState
    BY <1>1, <2>4 DEF Init, WaitingIsVisited, SearchState
  <2> QED
    BY <2>5, <2>6, <2>7 DEF TracingInv
<1>2. TracingInv /\ UNCHANGED vars => TracingInv'
  BY DEF vars, TracingInv, TypeOK, ChainsTraceSeeds, WaitingIsVisited,
         SearchState, Seeds, Match, Traces
<1>3. TracingInv /\ [Next]_vars => TracingInv'
  BY <1>2, StartKeepsTraces, VisitKeepsTraces, FinishKeepsTraces DEF Next
<1> QED
  BY <1>1, <1>3, PTL DEF Spec

\* The search's variables keep their types.
THEOREM TypeCorrect == Spec => []TypeOK
<1>1. TracingInv => TypeOK
  BY DEF TracingInv
<1> QED
  BY <1>1, TracingInvariant, PTL

\* Every chain follows declared dependencies to a seed, never meets an
\* assumption twice and passes none whose evidence is supplied and has not
\* expired, on circular dependencies too.
THEOREM TracesAreDeclared == Spec => []ChainsTraceSeeds
<1>1. TracingInv => ChainsTraceSeeds
  BY DEF TracingInv
<1> QED
  BY <1>1, TracingInvariant, PTL

------------------------------------------------------------------------------
(***************************************************************************)
(* Every seed has a root                                                   *)
(***************************************************************************)

\* A non-empty set of naturals has a least element.
LEMMA LeastNatural ==
  ASSUME NEW T \in SUBSET Nat, T # {}
  PROVE  \E x \in T : \A y \in T : x <= y
<1> DEFINE R == {p \in Nat \X Nat : p[1] < p[2]}
<1>1. IsWellFoundedOn(OpToRel(<, Nat), Nat)
  BY NatLessThanWellFounded
<1>2. OpToRel(<, Nat) = R
  BY DEF OpToRel
<1>3. IsWellFoundedOn(R, Nat)
  BY <1>1, <1>2
<1> HIDE DEF R
<1>4. PICK x \in T : \A y \in T : ~ (<<y, x>> \in R)
  BY <1>3, WFMin
<1>5. \A y \in T : ~ (y < x)
  BY <1>4 DEF R
<1> QED
  BY <1>5

\* A strict order has maximal elements in every non-empty finite set.
LEMMA MaximalElement ==
  ASSUME NEW S, IsFiniteSet(S), NEW R, NEW T \in SUBSET S, T # {},
         \A x \in S : <<x, x>> \notin R,
         \A x, y, z \in S : <<x, y>> \in R /\ <<y, z>> \in R => <<x, z>> \in R
  PROVE  \E x \in T : \A y \in S : <<x, y>> \notin R \/ y \notin T
<1> DEFINE Above(x) == {y \in T : <<x, y>> \in R}
           sizes == {n \in Nat : \E x \in T : n = Cardinality(Above(x))}
<1>1. \A x \in T : Above(x) \in SUBSET S
  OBVIOUS
<1>2. \A x \in T : IsFiniteSet(Above(x))
  BY <1>1, FS_Subset
<1>3. \A x \in T : Cardinality(Above(x)) \in Nat
  BY <1>2, FS_CardinalityType
<1>4. PICK n \in sizes : \A m \in sizes : n <= m
  <2>1. sizes \in SUBSET Nat /\ sizes # {}
    <3>1. PICK x \in T : TRUE
      OBVIOUS
    <3>2. Cardinality(Above(x)) \in sizes
      BY <1>3
    <3> QED
      BY <3>2
  <2> HIDE DEF sizes
  <2>2. \E k \in sizes : \A m \in sizes : k <= m
    BY <2>1, LeastNatural
  <2> QED
    BY <2>2
<1>5. PICK x \in T : n = Cardinality(Above(x))
  OBVIOUS
<1>6. ASSUME NEW y \in T, <<x, y>> \in R
      PROVE  FALSE
  <2>1. Above(y) \subseteq Above(x)
    BY <1>6
  <2>2. y \in Above(x) /\ y \notin Above(y)
    BY <1>6
  <2>3. Cardinality(Above(y)) <= Cardinality(Above(x))
    BY <1>2, <2>1, FS_Subset
  <2>4. Cardinality(Above(y)) # Cardinality(Above(x))
    BY <1>2, <2>1, <2>2, FS_Subset
  <2>5. n <= Cardinality(Above(y))
    <3>1. Cardinality(Above(y)) \in sizes
      BY <1>3
    <3> HIDE DEF sizes
    <3> QED
      BY <1>4, <3>1
  <2> HIDE DEF Above
  <2> QED
    BY <1>3, <1>5, <2>3, <2>4, <2>5
<1> QED
  BY <1>6

\* The assumptions are listed, hence finite.
LEMMA AssumptionsAreFinite == IsFiniteSet(Assumptions)
<1> DEFINE s == InOrder[Assumptions]
<1>1. /\ s \in Seq(Assumptions)
      /\ {s[i] : i \in DOMAIN s} = Assumptions
  BY TracingAssumption
<1>2. Len(s) \in Nat /\ DOMAIN s = 1 .. Len(s)
  BY <1>1
<1>3. IsFiniteSet(1 .. Len(s))
  BY <1>2, FS_Interval
<1>4. s \in Surjection(1 .. Len(s), Assumptions)
  BY <1>1, <1>2 DEF Surjection
<1> HIDE DEF s
<1> QED
  BY <1>3, <1>4, FS_Surjection

\* Where nothing that depends on s lies on a circle, some member of a set of
\* such assumptions has no dependent in the set.
LEMMA CircleFreeHasTop ==
  ASSUME deps \in DependencyGraph, NEW s, CircleFree(s),
         NEW T \in SUBSET InvalidationClosure(deps, {s}), T # {}
  PROVE  \E x \in T : Dependents(deps, x) \cap T = {}
<1> DEFINE Cl(a) == InvalidationClosure(deps, Dependents(deps, a))
           R == {p \in Assumptions \X Assumptions : p[2] \in Cl(p[1])}
           S == InvalidationClosure(deps, {s})
<1>1. S \subseteq Assumptions /\ \A a \in S : <<a, a>> \notin R
  BY DEF CircleFree, InvalidationClosure
<1>2. \A a, b, c \in Assumptions :
        <<a, b>> \in R /\ <<b, c>> \in R => <<a, c>> \in R
  <2> SUFFICES ASSUME NEW a \in Assumptions, NEW b \in Assumptions,
                      NEW c \in Assumptions, b \in Cl(a), c \in Cl(b),
                      NEW U \in SUBSET Assumptions,
                      Dependents(deps, a) \subseteq U,
                      ClosedUnderDependents(deps, U)
               PROVE  c \in U
    BY DEF InvalidationClosure
  <2>1. b \in U
    BY DEF InvalidationClosure
  <2>2. Dependents(deps, b) \subseteq U
    BY <2>1 DEF ClosedUnderDependents
  <2> QED
    BY <2>2 DEF InvalidationClosure
<1>3. \A a \in Assumptions : \A b \in Dependents(deps, a) : <<a, b>> \in R
  <2>1. \A a \in Assumptions : Dependents(deps, a) \subseteq Cl(a)
    BY DEF InvalidationClosure, Dependents
  <2>2. \A a : Dependents(deps, a) \subseteq Assumptions
    BY DEF Dependents
  <2> QED
    BY <2>1, <2>2
<1> HIDE DEF R, S
<1>4. IsFiniteSet(S)
  BY <1>1, AssumptionsAreFinite, FS_Subset
<1>5. \A a, b, c \in S : <<a, b>> \in R /\ <<b, c>> \in R => <<a, c>> \in R
  BY <1>1, <1>2
<1>6. T \in SUBSET S
  BY DEF S
<1>7. \E x \in T : \A y \in S : <<x, y>> \notin R \/ y \notin T
  BY <1>1, <1>4, <1>5, <1>6, MaximalElement
<1> QED
  BY <1>1, <1>3, <1>6, <1>7

\* What the search met from the seed is reached from it; as long as it found
\* no root, each of these waits in the queue, or something depends on it and
\* all its dependents are met.
SearchCovers ==
  seed # NoSeed =>
    /\ seed \in visited
    /\ visited \subseteq InvalidationClosure(deps, {seed})
    /\ \A chain \in localRoots : chain[1] \in visited
    /\ localRoots = {} =>
         \A v \in visited :
           \/ \E i \in DOMAIN frontier : frontier[i][1] = v
           \/ /\ Dependents(deps, v) # {}
              /\ Dependents(deps, v) \subseteq visited

\* The seeds traced so far have a root.
TracedHaveRoots ==
  \A s \in Seeds \ (seeds \cup {seed}) :
    CircleFree(s) => InvalidationClosure(deps, {s}) \cap DOMAIN roots # {}

RootsInv == TracingInv /\ SearchCovers /\ TracedHaveRoots

LEMMA StartKeepsRoots == RootsInv /\ StartSeed => RootsInv'
<1> SUFFICES ASSUME RootsInv, StartSeed PROVE RootsInv'
  OBVIOUS
<1>1. TracingInv'
  BY StartKeepsTraces DEF RootsInv
<1>2. PICK s \in seeds :
        /\ seed = NoSeed
        /\ seeds' = seeds \ {s}
        /\ seed' = s
        /\ frontier' = <<<<s>>>>
        /\ visited' = {s}
        /\ localRoots' = {}
        /\ UNCHANGED <<request, roots>>
  BY DEF StartSeed
<1>3. /\ UNCHANGED <<deps, evidence, mentions, roots>>
      /\ Seeds' = Seeds
  BY <1>2 DEF request, Seeds, Match
<1>4. s \in Assumptions
  BY DEF RootsInv, TracingInv, TypeOK
<1>5. SearchCovers'
  <2>1. s \in InvalidationClosure(deps, {s})
    BY <1>4 DEF InvalidationClosure
  <2>2. 1 \in DOMAIN frontier' /\ frontier'[1][1] = s
    BY <1>2
  <2> QED
    BY <1>2, <1>3, <2>1, <2>2 DEF SearchCovers
<1>6. TracedHaveRoots'
  <2>1. seeds' \cup {seed'} = seeds
    BY <1>2
  <2>2. NoSeed \notin Seeds
    <3>1. Seeds \subseteq Assumptions
      BY TracingAssumption DEF RootsInv, TracingInv, TypeOK, Seeds, Match
    <3> QED
      BY <3>1, TracingAssumption
  <2> QED
    BY <1>2, <1>3, <2>1, <2>2 DEF RootsInv, TracedHaveRoots, CircleFree
<1> QED
  BY <1>1, <1>5, <1>6 DEF RootsInv

LEMMA VisitKeepsRoots == RootsInv /\ Visit => RootsInv'
<1> SUFFICES ASSUME RootsInv, Visit PROVE RootsInv'
  OBVIOUS
<1> DEFINE chain == Head(frontier)
           current == chain[1]
<1>1. TracingInv'
  BY VisitKeepsTraces DEF RootsInv
<1>2. /\ frontier # <<>>
      /\ frontier' = Tail(frontier) \o Extended(chain)
      /\ visited' = visited \cup Dependents(deps, current)
      /\ localRoots' = localRoots \cup (IF EndsAt(chain) THEN {chain} ELSE {})
      /\ UNCHANGED <<request, seeds, seed, roots>>
  BY DEF Visit
<1>3. /\ UNCHANGED <<deps, evidence, mentions, seeds, seed, roots>>
      /\ Seeds' = Seeds
  BY <1>2 DEF request, Seeds, Match
<1>4. /\ frontier \in Seq(Chain)
      /\ visited \subseteq Assumptions
  BY DEF RootsInv, TracingInv, TypeOK
<1>5. /\ chain \in Chain
      /\ chain = frontier[1]
      /\ 1 \in DOMAIN frontier
  BY <1>2, <1>4
<1>6. current \in visited
  <2>1. 1 \in 1 .. Len(chain)
    BY <1>5 DEF Chain
  <2> QED
    BY <1>5, <2>1 DEF RootsInv, TracingInv, WaitingIsVisited
<1> DEFINE open == OpenDependents(current)
<1>7. /\ open \in Seq(Assumptions)
      /\ {open[i] : i \in DOMAIN open} = {a \in NewDependents(current) : ~Verified(a)}
  <2>1. {a \in NewDependents(current) : ~Verified(a)} \in SUBSET Assumptions
    BY DEF NewDependents, Dependents
  <2> QED
    BY <2>1, TracingAssumption DEF OpenDependents
<1>8. /\ Extended(chain) \in Seq(Chain)
      /\ DOMAIN Extended(chain) = DOMAIN open
      /\ \A i \in DOMAIN open : Extended(chain)[i][1] = open[i]
  <2>1. \A i \in DOMAIN open : /\ <<open[i]>> \o chain \in Chain
                               /\ (<<open[i]>> \o chain)[1] = open[i]
    <3> SUFFICES ASSUME NEW i \in DOMAIN open
                 PROVE  /\ <<open[i]>> \o chain \in Chain
                        /\ (<<open[i]>> \o chain)[1] = open[i]
      OBVIOUS
    <3>1. open[i] \in Assumptions
      BY <1>7
    <3> QED
      BY <1>5, <3>1, ChainBefore
  <2>2. /\ DOMAIN Extended(chain) = DOMAIN open
        /\ \A i \in DOMAIN open : Extended(chain)[i] = <<open[i]>> \o chain
        /\ Extended(chain) = [i \in DOMAIN Extended(chain) |-> Extended(chain)[i]]
    BY DEF Extended
  <2>3. DOMAIN open = 1 .. Len(open) /\ Len(open) \in Nat
    BY <1>7
  <2> HIDE DEF open, chain
  <2>4. /\ DOMAIN Extended(chain) = 1 .. Len(open)
        /\ \A i \in DOMAIN Extended(chain) : Extended(chain)[i] \in Chain
    BY <2>1, <2>2, <2>3
  <2>5. Extended(chain) \in Seq(Chain)
    BY <2>2, <2>3, <2>4
  <2> QED
    BY <2>1, <2>2, <2>5
<1> HIDE DEF chain, current, open
<1>9. /\ \A i \in DOMAIN frontier \ {1} : \E j \in DOMAIN frontier' : frontier'[j] = frontier[i]
      /\ \A i \in DOMAIN open : \E j \in DOMAIN frontier' : frontier'[j] = Extended(chain)[i]
  <2>1. PICK q, e : q = frontier /\ e = Extended(chain)
    OBVIOUS
  <2>2. q \in Seq(Chain) /\ q # <<>> /\ e \in Seq(Chain)
    BY <1>2, <1>4, <1>8, <2>1
  <2>3. /\ \A i \in DOMAIN q \ {1} : \E j \in DOMAIN (Tail(q) \o e) : (Tail(q) \o e)[j] = q[i]
        /\ \A i \in DOMAIN e : \E j \in DOMAIN (Tail(q) \o e) : (Tail(q) \o e)[j] = e[i]
    <3>1. \A i \in DOMAIN q \ {1} :
            \E j \in DOMAIN (Tail(q) \o e) : (Tail(q) \o e)[j] = q[i]
      BY <2>2, QueueKeeps
    <3>2. \A i \in DOMAIN e :
            \E j \in DOMAIN (Tail(q) \o e) : (Tail(q) \o e)[j] = e[i]
      BY <2>2, QueueGains
    <3> QED
      BY <3>1, <3>2
  <2> QED
    BY <1>2, <1>8, <2>1, <2>3
<1>10. SearchCovers'
  <2> SUFFICES ASSUME seed # NoSeed
               PROVE  SearchCovers'
    BY <1>3 DEF SearchCovers
  <2>1. seed \in visited'
    BY <1>2 DEF RootsInv, SearchCovers
  <2>2. visited' \subseteq InvalidationClosure(deps, {seed})
    <3>1. current \in InvalidationClosure(deps, {seed})
      BY <1>6 DEF RootsInv, SearchCovers
    <3>2. Dependents(deps, current) \subseteq InvalidationClosure(deps, {seed})
      <4> SUFFICES ASSUME NEW a \in Dependents(deps, current),
                          NEW U \in SUBSET Assumptions, {seed} \subseteq U,
                          ClosedUnderDependents(deps, U)
                   PROVE  a \in U
        BY DEF InvalidationClosure, Dependents
      <4>1. current \in U
        BY <3>1 DEF InvalidationClosure
      <4> QED
        BY <4>1 DEF ClosedUnderDependents
    <3> QED
      BY <1>2, <3>2 DEF RootsInv, SearchCovers
  <2>3. \A c \in localRoots' : c[1] \in visited'
    BY <1>2, <1>6 DEF RootsInv, SearchCovers, current
  <2>4. ASSUME localRoots' = {}, NEW v \in visited'
        PROVE  \/ \E i \in DOMAIN frontier' : frontier'[i][1] = v
               \/ /\ Dependents(deps, v) # {}
                  /\ Dependents(deps, v) \subseteq visited'
    <3>1. /\ localRoots = {}
          /\ Dependents(deps, current) # {}
          /\ \A a \in NewDependents(current) : ~ Verified(a)
      BY <1>2, <2>4 DEF EndsAt, current
    <3>2. CASE v = current
      BY <1>2, <3>1, <3>2
    <3>3. CASE v \in visited /\ v # current
      <4>1. \/ \E i \in DOMAIN frontier : frontier[i][1] = v
            \/ /\ Dependents(deps, v) # {}
               /\ Dependents(deps, v) \subseteq visited
        BY <3>1, <3>3 DEF RootsInv, SearchCovers
      <4>2. CASE \E i \in DOMAIN frontier : frontier[i][1] = v
        <5>1. PICK i \in DOMAIN frontier : frontier[i][1] = v
          BY <4>2
        <5>2. i # 1
          BY <1>5, <3>3, <5>1 DEF current
        <5> QED
          BY <1>9, <5>1, <5>2
      <4> QED
        BY <1>2, <4>1, <4>2
    <3>4. CASE v \notin visited
      <4>1. v \in NewDependents(current)
        BY <1>2, <3>4 DEF NewDependents
      <4>2. PICK i \in DOMAIN open : open[i] = v
        BY <1>7, <3>1, <4>1
      <4> QED
        BY <1>8, <1>9, <4>2
    <3> QED
      BY <3>2, <3>3, <3>4
  <2> QED
    BY <1>3, <2>1, <2>2, <2>3, <2>4 DEF SearchCovers
<1>11. TracedHaveRoots'
  BY <1>3 DEF RootsInv, TracedHaveRoots, CircleFree
<1> QED
  BY <1>1, <1>10, <1>11 DEF RootsInv

LEMMA FinishKeepsRoots == RootsInv /\ FinishSeed => RootsInv'
<1> SUFFICES ASSUME RootsInv, FinishSeed PROVE RootsInv'
  OBVIOUS
<1>1. TracingInv'
  BY FinishKeepsTraces DEF RootsInv
<1>2. /\ UNCHANGED <<deps, evidence, mentions, seeds, frontier, visited,
                     localRoots>>
      /\ seed # NoSeed
      /\ frontier = <<>>
      /\ seed' = NoSeed
      /\ Seeds' = Seeds
      /\ DOMAIN roots' = DOMAIN roots \cup {chain[1] : chain \in localRoots}
  BY DEF FinishSeed, request, Seeds, Match
<1>3. SearchCovers'
  BY <1>2 DEF SearchCovers
<1>4. CircleFree(seed) =>
        InvalidationClosure(deps, {seed}) \cap DOMAIN roots' # {}
  <2> SUFFICES ASSUME CircleFree(seed)
               PROVE  InvalidationClosure(deps, {seed}) \cap DOMAIN roots' # {}
    OBVIOUS
  <2>1. localRoots # {}
    <3> SUFFICES ASSUME localRoots = {}
                 PROVE  FALSE
      OBVIOUS
    <3>1. \A v \in visited : /\ Dependents(deps, v) # {}
                             /\ Dependents(deps, v) \subseteq visited
      BY <1>2 DEF RootsInv, SearchCovers
    <3>2. /\ visited # {}
          /\ visited \in SUBSET InvalidationClosure(deps, {seed})
          /\ deps \in DependencyGraph
      BY <1>2 DEF RootsInv, SearchCovers, TracingInv, TypeOK
    <3>3. PICK x \in visited : Dependents(deps, x) \cap visited = {}
      BY <3>2, CircleFreeHasTop
    <3> QED
      BY <3>1, <3>3
  <2>2. PICK chain \in localRoots : TRUE
    BY <2>1
  <2>3. chain[1] \in InvalidationClosure(deps, {seed})
    BY <1>2 DEF RootsInv, SearchCovers
  <2> QED
    BY <1>2, <2>3
<1>5. TracedHaveRoots'
  <2> SUFFICES ASSUME NEW s \in Seeds, s \notin seeds, CircleFree(s)
               PROVE  InvalidationClosure(deps, {s}) \cap DOMAIN roots' # {}
    BY <1>2 DEF TracedHaveRoots, CircleFree
  <2>1. CASE s = seed
    BY <1>4, <2>1
  <2>2. CASE s # seed
    BY <1>2, <2>2 DEF RootsInv, TracedHaveRoots
  <2> QED
    BY <2>1, <2>2
<1> QED
  BY <1>1, <1>3, <1>5 DEF RootsInv

\* The invariant of the search, and what it leaves of each seed.
LEMMA RootsInvariant == Spec => []RootsInv
<1>1. Init => SearchCovers /\ TracedHaveRoots
  BY DEF Init, SearchCovers, TracedHaveRoots
<1>2. RootsInv /\ UNCHANGED vars => SearchCovers' /\ TracedHaveRoots'
  <2> SUFFICES ASSUME RootsInv, UNCHANGED vars
               PROVE  SearchCovers' /\ TracedHaveRoots'
    OBVIOUS
  <2>1. /\ UNCHANGED <<deps, evidence, mentions, seeds, seed, frontier,
                       visited, localRoots, roots>>
        /\ Seeds' = Seeds
    BY DEF vars, Seeds, Match
  <2>2. SearchCovers'
    BY <2>1 DEF RootsInv, SearchCovers
  <2>3. TracedHaveRoots'
    BY <2>1 DEF RootsInv, TracedHaveRoots, CircleFree
  <2> QED
    BY <2>2, <2>3
<1>3. RootsInv /\ TracingInv' /\ [Next]_vars => RootsInv'
  BY <1>2, StartKeepsRoots, VisitKeepsRoots, FinishKeepsRoots DEF Next, RootsInv
<1>4. TracingInv /\ SearchCovers /\ TracedHaveRoots <=> RootsInv
  BY DEF RootsInv
<1> QED
  BY <1>1, <1>3, <1>4, TracingInvariant, PTL DEF Spec

\* The searches report for every matched assumption a root among what depends
\* on it, directly or not, unless there is a circle among that
\* (reconstruction.py:144-186): a search without a root would end with a
\* non-empty set of assumptions each of which has a dependent in the set.
THEOREM RootsTheorem == Spec => []EverySeedHasRoot
<1>1. RootsInv => EverySeedHasRoot
  <2> SUFFICES ASSUME RootsInv, Done, NEW s \in Seeds, CircleFree(s)
               PROVE  InvalidationClosure(deps, {s}) \cap DOMAIN roots # {}
    BY DEF EverySeedHasRoot
  <2>1. Seeds \subseteq Assumptions
    BY TracingAssumption DEF RootsInv, TracingInv, TypeOK, Seeds, Match
  <2>2. s \in Seeds \ (seeds \cup {seed})
    BY <2>1, TracingAssumption DEF Done
  <2> QED
    BY <2>2 DEF RootsInv, TracedHaveRoots
<1> QED
  BY <1>1, RootsInvariant, PTL
=============================================================================
