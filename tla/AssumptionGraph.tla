--------------------------- MODULE AssumptionGraph ---------------------------
(***************************************************************************)
(* The assumptions of a decision request and the dependencies they declare *)
(* on each other (models/schemas.py, Assumption).  Validation refuses      *)
(* unknown ids and nothing else: an assumption may depend on itself, and   *)
(* assumptions may depend on each other in a circle.                       *)
(***************************************************************************)

CONSTANT Assumptions   \* the assumption ids the request declares

\* What each assumption declares it depends on.
DependencyGraph == [Assumptions -> SUBSET Assumptions]

\* The assumptions that declare a dependency on a.
Dependents(deps, a) == {b \in Assumptions : a \in deps[b]}

\* Every dependent of a member is a member.
ClosedUnderDependents(deps, T) == \A a \in T : Dependents(deps, a) \subseteq T

\* What fails when the assumptions in S fail: the least set that holds them
\* and is closed under dependents.
InvalidationClosure(deps, S) ==
  {a \in Assumptions : \A T \in SUBSET Assumptions :
     S \subseteq T /\ ClosedUnderDependents(deps, T) => a \in T}
=============================================================================
