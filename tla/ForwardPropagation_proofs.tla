----------------------- MODULE ForwardPropagation_proofs -----------------------
(***************************************************************************)
(* Forward propagation ends in the least closed set, for every dependency  *)
(* graph, batch and order of the worklist; and the closure operator itself *)
(* behaves: it is closed, least, and distributes over unions.              *)
(***************************************************************************)
EXTENDS ForwardPropagation, TLAPS

------------------------------------------------------------------------------
(***************************************************************************)
(* The closure operator                                                    *)
(***************************************************************************)

\* The closure holds what it is the closure of, and consists of assumptions.
LEMMA ClosureHolds ==
  ASSUME NEW g \in DependencyGraph, NEW S \in SUBSET Assumptions
  PROVE  /\ S \subseteq InvalidationClosure(g, S)
         /\ InvalidationClosure(g, S) \subseteq Assumptions
BY DEF InvalidationClosure

\* With an assumption, the closure holds its dependents.
LEMMA ClosureClosed ==
  ASSUME NEW g \in DependencyGraph, NEW S \in SUBSET Assumptions
  PROVE  ClosedUnderDependents(g, InvalidationClosure(g, S))
<1> SUFFICES ASSUME NEW a \in InvalidationClosure(g, S),
                    NEW b \in Dependents(g, a)
             PROVE  b \in InvalidationClosure(g, S)
  BY DEF ClosedUnderDependents
<1>1. b \in Assumptions
  BY DEF Dependents
<1>2. ASSUME NEW T \in SUBSET Assumptions, S \subseteq T,
             ClosedUnderDependents(g, T)
      PROVE  b \in T
  <2>1. a \in T
    BY <1>2 DEF InvalidationClosure
  <2> QED
    BY <1>2, <2>1 DEF ClosedUnderDependents
<1> QED
  BY <1>1, <1>2 DEF InvalidationClosure

\* Every closed set that holds S holds the closure of S.
LEMMA ClosureLeast ==
  ASSUME NEW g \in DependencyGraph, NEW S \in SUBSET Assumptions,
         NEW T \in SUBSET Assumptions,
         S \subseteq T, ClosedUnderDependents(g, T)
  PROVE  InvalidationClosure(g, S) \subseteq T
BY DEF InvalidationClosure

\* Nothing fails when nothing is declared to fail.
LEMMA ClosureOfNothing ==
  ASSUME NEW g \in DependencyGraph
  PROVE  InvalidationClosure(g, {}) = {}
<1>1. ClosedUnderDependents(g, {})
  BY DEF ClosedUnderDependents
<1> QED
  BY <1>1, ClosureLeast

\* Failures propagate independently: failing two sets of assumptions at once
\* invalidates what failing one and then the other does.
THEOREM ClosureOfUnion ==
  ASSUME NEW g \in DependencyGraph,
         NEW S \in SUBSET Assumptions, NEW T \in SUBSET Assumptions
  PROVE  InvalidationClosure(g, S \cup T) =
           InvalidationClosure(g, S) \cup InvalidationClosure(g, T)
<1> DEFINE CS == InvalidationClosure(g, S)
           CT == InvalidationClosure(g, T)
           CU == InvalidationClosure(g, S \cup T)
<1>1. CS \cup CT \subseteq CU
  <2>1. /\ S \cup T \subseteq CU
        /\ CU \subseteq Assumptions
        /\ ClosedUnderDependents(g, CU)
    BY ClosureHolds, ClosureClosed
  <2> HIDE DEF CU
  <2> QED
    BY <2>1, ClosureLeast
<1>2. CU \subseteq CS \cup CT
  <2>1. /\ S \subseteq CS
        /\ T \subseteq CT
        /\ CS \cup CT \subseteq Assumptions
    BY ClosureHolds
  <2>2. ClosedUnderDependents(g, CS) /\ ClosedUnderDependents(g, CT)
    BY ClosureClosed
  <2> HIDE DEF CS, CT
  <2>3. ClosedUnderDependents(g, CS \cup CT)
    BY <2>2 DEF ClosedUnderDependents
  <2> QED
    BY <2>1, <2>3, ClosureLeast
<1> QED
  BY <1>1, <1>2

------------------------------------------------------------------------------
(***************************************************************************)
(* The invariant of the two loops                                          *)
(***************************************************************************)

\* The worklist invariant: the trigger is known; nothing outside its closure
\* is; and what depends on a visited assumption is visited or waiting.
Frontier(known) ==
  /\ trigger \in known
  /\ known \subseteq InvalidationClosure(deps, {trigger})
  /\ \A a \in invalidated : Dependents(deps, a) \subseteq known

ClosureInv ==
  /\ trigger # NoTrigger =>
       /\ ~Done
       /\ batch[at] = trigger
       /\ Frontier(invalidated \cup frontier)
  /\ trigger = NoTrigger => frontier = {}

PropagationInv == TypeOK /\ ClosureInv

LEMMA BatchPositions ==
  ASSUME TypeOK
  PROVE  /\ Len(batch) \in Nat
         /\ at \in Nat
         /\ ~Done => at \in DOMAIN batch /\ at \in 1 .. Len(batch)
         /\ batch \in [1 .. Len(batch) -> Assumptions \cup {OtherPath}]
<1> PICK n \in 0 .. MaxPaths : batch \in [1 .. n -> Assumptions \cup {OtherPath}]
  BY DEF TypeOK, Batch
<1>1. Len(batch) = n /\ n \in Nat
  BY PropagationAssumption
<1> QED
  BY <1>1 DEF TypeOK, Done

\* Every reachable state is well-formed and keeps the worklist invariant.
LEMMA PropagationInvariant == Spec => []PropagationInv
<1> USE DEF PropagationInv
<1>1. Init => PropagationInv
  <2> SUFFICES ASSUME Init PROVE PropagationInv
    OBVIOUS
  <2>1. Len(batch) \in Nat
    <3> PICK n \in 0 .. MaxPaths :
          batch \in [1 .. n -> Assumptions \cup {OtherPath}]
      BY DEF Init, Batch
    <3> QED
      BY PropagationAssumption
  <2> QED
    BY <2>1, PropagationAssumption DEF Init, TypeOK, ClosureInv
<1>2. PropagationInv /\ [Next]_vars => PropagationInv'
  <2> SUFFICES ASSUME PropagationInv, [Next]_vars PROVE PropagationInv'
    OBVIOUS
  <2>0. /\ Len(batch) \in Nat
        /\ at \in Nat
        /\ ~Done => at \in DOMAIN batch /\ at \in 1 .. Len(batch)
    BY BatchPositions
  <2>1. CASE SkipPath
    BY <2>0, <2>1 DEF SkipPath, TypeOK, ClosureInv, Done
  <2>2. CASE StartClosure
    <3>1. TypeOK'
      BY <2>2 DEF StartClosure, TypeOK
    <3>2. {trigger'} \subseteq InvalidationClosure(deps, {trigger'})
      BY <2>2, ClosureHolds DEF StartClosure, TypeOK
    <3>3. /\ invalidated' \cup frontier' = {trigger'}
          /\ invalidated' = {}
          /\ UNCHANGED <<deps, batch, at>>
          /\ ~Done'
          /\ batch'[at'] = trigger'
      BY <2>2 DEF StartClosure, Done
    <3>4. Frontier(invalidated \cup frontier)'
      BY <3>2, <3>3 DEF Frontier
    <3>5. trigger' # NoTrigger
      BY <2>2, PropagationAssumption DEF StartClosure
    <3> QED
      BY <3>1, <3>3, <3>4, <3>5 DEF ClosureInv
  <2>3. CASE Visit
    <3>1. PICK current \in frontier :
            /\ invalidated' = invalidated \cup {current}
            /\ frontier' = (frontier \ {current}) \cup NewlyInvalidated(current)
            /\ UNCHANGED <<deps, batch, at, trigger, collected>>
      BY <2>3 DEF Visit
    <3>2. NewlyInvalidated(current) \subseteq Dependents(deps, current)
      BY DEF NewlyInvalidated
    <3>3. TypeOK'
      BY <3>1, <3>2 DEF TypeOK, Dependents
    <3>4. trigger # NoTrigger /\ trigger \in Assumptions
      BY <3>1 DEF ClosureInv, TypeOK
    <3>5. Frontier(invalidated \cup frontier)
      BY <3>4 DEF ClosureInv
    <3>6. Dependents(deps, current)
            \subseteq InvalidationClosure(deps, {trigger})
      BY <3>1, <3>4, <3>5, ClosureClosed
      DEF Frontier, ClosedUnderDependents, TypeOK
    <3>7. invalidated' \cup frontier' =
            invalidated \cup frontier \cup NewlyInvalidated(current)
      BY <3>1
    <3>8. Dependents(deps, current) \subseteq invalidated' \cup frontier'
      BY <3>1, <3>5, <3>7 DEF NewlyInvalidated, Frontier
    <3>9. Frontier(invalidated \cup frontier)'
      BY <3>1, <3>2, <3>5, <3>6, <3>7, <3>8 DEF Frontier
    <3> QED
      BY <3>1, <3>3, <3>4, <3>9 DEF ClosureInv, Done
  <2>4. CASE FinishClosure
    BY <2>0, <2>4 DEF FinishClosure, TypeOK, ClosureInv, Done
  <2>5. CASE UNCHANGED vars
    BY <2>5 DEF vars, TypeOK, ClosureInv, Done, Frontier
  <2> QED
    BY <2>1, <2>2, <2>3, <2>4, <2>5 DEF Next
<1> QED
  BY <1>1, <1>2, PTL DEF Spec

\* The variables of the two loops keep their types.
THEOREM TypeCorrect == Spec => []TypeOK
BY PropagationInvariant, PTL DEF PropagationInv

\* The worklist ends with the trigger's closure, for any graph, circular
\* ones included, and any order of the worklist.
LEMMA ClosureIsExact == PropagationInv => ClosureExact
<1> SUFFICES ASSUME PropagationInv, trigger # NoTrigger, frontier = {}
             PROVE  invalidated = InvalidationClosure(deps, {trigger})
  BY DEF ClosureExact
<1>1. /\ trigger \in invalidated
      /\ invalidated \subseteq InvalidationClosure(deps, {trigger})
      /\ ClosedUnderDependents(deps, invalidated)
  BY DEF PropagationInv, ClosureInv, Frontier, ClosedUnderDependents
<1>2. InvalidationClosure(deps, {trigger}) \subseteq invalidated
  BY <1>1, ClosureLeast DEF PropagationInv, TypeOK
<1> QED
  BY <1>1, <1>2

\* The same of every reachable state.
THEOREM PropagationIsExact == Spec => []ClosureExact
BY PropagationInvariant, ClosureIsExact, PTL

\* What the batch invalidates is the joint closure of its assumptions.
THEOREM CollectionIsJointClosure == Spec => []CollectedIsJointClosure
<1>1. Init => CollectedIsJointClosure
  <2> SUFFICES ASSUME Init PROVE CollectedIsJointClosure
    OBVIOUS
  <2>1. FalsifiedSoFar = {}
    BY DEF Init, FalsifiedSoFar
  <2> QED
    BY <2>1, ClosureOfNothing DEF Init, CollectedIsJointClosure
<1>2. PropagationInv /\ CollectedIsJointClosure /\ [Next]_vars
        => CollectedIsJointClosure'
  <2> SUFFICES ASSUME PropagationInv, CollectedIsJointClosure, [Next]_vars
               PROVE  CollectedIsJointClosure'
    OBVIOUS
  <2>0. /\ Len(batch) \in Nat
        /\ at \in Nat \ {0}
        /\ deps \in DependencyGraph
        /\ FalsifiedSoFar \in SUBSET Assumptions
    BY BatchPositions DEF PropagationInv, TypeOK, FalsifiedSoFar
  <2>1. CASE SkipPath
    <3>1. FalsifiedSoFar' = FalsifiedSoFar
      BY <2>0, <2>1 DEF SkipPath, FalsifiedSoFar
    <3> QED
      BY <2>1, <3>1 DEF SkipPath, CollectedIsJointClosure
  <2>2. CASE StartClosure
    BY <2>2 DEF StartClosure, CollectedIsJointClosure, FalsifiedSoFar
  <2>3. CASE Visit
    BY <2>3 DEF Visit, CollectedIsJointClosure, FalsifiedSoFar
  <2>4. CASE FinishClosure
    <3>1. /\ batch[at] = trigger
          /\ trigger \in Assumptions
      BY <2>4 DEF FinishClosure, PropagationInv, ClosureInv, TypeOK
    <3>2. FalsifiedSoFar' = FalsifiedSoFar \cup {trigger}
      BY <2>0, <2>4, <3>1 DEF FinishClosure, FalsifiedSoFar
    <3>3. invalidated = InvalidationClosure(deps, {trigger})
      BY <2>4, ClosureIsExact DEF FinishClosure, ClosureExact
    <3>4. trigger \in InvalidationClosure(deps, {trigger})
      BY <2>0, <3>1, ClosureHolds
    <3>5. collected' = InvalidationClosure(deps, FalsifiedSoFar)
                         \cup InvalidationClosure(deps, {trigger})
      BY <2>4, <3>3, <3>4 DEF FinishClosure, CollectedIsJointClosure
    <3>6. collected' = InvalidationClosure(deps, FalsifiedSoFar \cup {trigger})
      BY <2>0, <3>1, <3>5, ClosureOfUnion
    <3> QED
      BY <2>4, <3>2, <3>6 DEF FinishClosure, CollectedIsJointClosure
  <2>5. CASE UNCHANGED vars
    BY <2>5 DEF vars, CollectedIsJointClosure, FalsifiedSoFar
  <2> QED
    BY <2>1, <2>2, <2>3, <2>4, <2>5 DEF Next
<1> QED
  BY <1>1, <1>2, PropagationInvariant, PTL DEF Spec
=============================================================================
