-------------------------- MODULE ForwardPropagation --------------------------
(***************************************************************************)
(* Forward propagation of declared failures: the worklist of               *)
(* invalidation_closure (decision/causal.py) and the loop over delta       *)
(* variables around it in _collect_delta_invalidated                       *)
(* (decision/reconstruction.py).  The worklist is a Python set, so which   *)
(* member pop() returns is not determined by the request.                  *)
(***************************************************************************)
EXTENDS Integers, Sequences, AssumptionGraph

CONSTANTS
  OtherPath,   \* a delta path that names no declared assumption
  NoTrigger,   \* no closure is being computed
  MaxPaths     \* bound on the length of a batch

ASSUME PropagationAssumption ==
  /\ {OtherPath, NoTrigger} \cap Assumptions = {}
  /\ MaxPaths \in Nat

VARIABLES
  deps,          \* the declared dependencies
  batch,         \* the paths of the delta variables, in their order
  at,            \* the delta variable the outer loop is at
  trigger,       \* the assumption whose closure is being computed
  invalidated,   \* the set of that name in invalidation_closure
  frontier,      \* the worklist
  collected      \* the set `invalidated` of _collect_delta_invalidated

vars == <<deps, batch, at, trigger, invalidated, frontier, collected>>

Batch == UNION {[1 .. n -> Assumptions \cup {OtherPath}] : n \in 0 .. MaxPaths}

Init ==
  /\ deps \in DependencyGraph
  /\ batch \in Batch
  /\ at = 1
  /\ trigger = NoTrigger
  /\ invalidated = {}
  /\ frontier = {}
  /\ collected = {}

Done == at > Len(batch)

\* A path that is not an assumption's invalidates nothing.
SkipPath ==
  /\ trigger = NoTrigger
  /\ ~Done
  /\ batch[at] \notin Assumptions
  /\ at' = at + 1
  /\ UNCHANGED <<deps, batch, trigger, invalidated, frontier, collected>>

\* Faulty variant: the path is not looked up among the assumptions.
StartAnyClosure ==
  /\ trigger = NoTrigger
  /\ ~Done
  /\ trigger' = batch[at]
  /\ frontier' = {batch[at]}
  /\ invalidated' = {}
  /\ UNCHANGED <<deps, batch, at, collected>>

\* invalidation_closure is called for the assumption a path names.
StartClosure ==
  /\ trigger = NoTrigger
  /\ ~Done
  /\ batch[at] \in Assumptions
  /\ trigger' = batch[at]
  /\ frontier' = {batch[at]}
  /\ invalidated' = {}
  /\ UNCHANGED <<deps, batch, at, collected>>

\* Faulty variant: what the assumption depends on, not what depends on it.
NewlyInvalidatedUpward(current) ==
  IF current \in invalidated THEN {}
  ELSE deps[current] \ (invalidated \cup {current})

\* The unvisited dependents of current, none if current was visited before.
NewlyInvalidated(current) ==
  IF current \in invalidated THEN {}
  ELSE Dependents(deps, current) \ (invalidated \cup {current})

\* Faulty variant: what was visited is not remembered.
VisitForgotten ==
  \E current \in frontier :
    /\ frontier' = (frontier \ {current}) \cup NewlyInvalidated(current)
    /\ UNCHANGED <<deps, batch, at, trigger, invalidated, collected>>

\* One turn of the loop.
Visit ==
  \E current \in frontier :
    /\ invalidated' = invalidated \cup {current}
    /\ frontier' = (frontier \ {current}) \cup NewlyInvalidated(current)
    /\ UNCHANGED <<deps, batch, at, trigger, collected>>

\* Faulty variant: the trigger alone is collected.
FinishTriggerOnly ==
  /\ trigger # NoTrigger
  /\ frontier = {}
  /\ collected' = collected \cup {trigger}
  /\ trigger' = NoTrigger
  /\ at' = at + 1
  /\ UNCHANGED <<deps, batch, invalidated, frontier>>

\* The worklist is empty: the closure joins what the batch invalidates.
FinishClosure ==
  /\ trigger # NoTrigger
  /\ frontier = {}
  /\ collected' = collected \cup {trigger} \cup invalidated
  /\ trigger' = NoTrigger
  /\ at' = at + 1
  /\ UNCHANGED <<deps, batch, invalidated, frontier>>

Next == SkipPath \/ StartClosure \/ Visit \/ FinishClosure

Spec == Init /\ [][Next]_vars

\* The loops run until they are over.
FairSpec == Spec /\ WF_vars(Next)

------------------------------------------------------------------------------
(***************************************************************************)
(* Properties                                                              *)
(***************************************************************************)

\* Type invariant.
TypeOK ==
  /\ deps \in DependencyGraph
  /\ batch \in Batch
  /\ at \in 1 .. Len(batch) + 1
  /\ trigger \in Assumptions \cup {NoTrigger}
  /\ invalidated \subseteq Assumptions
  /\ frontier \subseteq Assumptions
  /\ collected \subseteq Assumptions

\* Whatever order the worklist is taken in, and whatever circles the
\* dependencies make, the loop ends with the trigger's closure: "the
\* closure follows only declared edges" (causal.py:8).
ClosureExact ==
  trigger # NoTrigger /\ frontier = {} =>
    invalidated = InvalidationClosure(deps, {trigger})

\* The assumption paths of the batch up to the one the loop is at.
FalsifiedSoFar == {batch[i] : i \in 1 .. at - 1} \cap Assumptions

\* Closure by closure, the batch invalidates what all its assumptions would
\* if they failed at once (reconstruction.py:653-660).
CollectedIsJointClosure ==
  collected = InvalidationClosure(deps, FalsifiedSoFar)

\* The loops end, circular dependencies included.
Terminates == <>Done
=============================================================================
