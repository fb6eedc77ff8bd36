--------------------------- MODULE ScenarioAnalysis ---------------------------
(***************************************************************************)
(* Declared stress scenarios (hub/scenario.py).  A scenario is a record    *)
(* of the assumptions it fails and the metric values it overrides,         *)
(* <<alternative, metric, value>>.                                         *)
(***************************************************************************)
EXTENDS DecisionEngine

\* Faulty variant: an alternative stays while one of its assumptions holds.
SupportedBySome(r, s) ==
  {a \in r.alternatives : r.requires[a] = {} \/ ~(r.requires[a] \subseteq s.failed)}

\* What survives the scenario: an alternative goes when it requires a failed
\* assumption itself; what depends on a failed assumption does not fail.
Surviving(r, s) == {a \in r.alternatives : r.requires[a] \cap s.failed = {}}

\* Overrides of alternatives that are gone, or were never there, are ignored.
Overridden(r, s) ==
  [a \in Alternatives |->
     [m \in DOMAIN r.metrics[a] |->
        IF a \in Surviving(r, s) /\ \E o \in s.overrides : o[1] = a /\ o[2] = m
        THEN (CHOOSE o \in s.overrides : o[1] = a /\ o[2] = m)[3]
        ELSE r.metrics[a][m]]]

ApplyScenario(r, s) ==
  [r EXCEPT !.alternatives = Surviving(r, s), !.metrics = Overridden(r, s)]

\* The scenario's outcome; an evaluation that raises blocks it alone.
ScenarioOutcome(r, s) ==
  CASE Surviving(r, s) = {} -> "no_viable_alternative"
    [] Surviving(r, s) # {} /\ ~Readable(ApplyScenario(r, s)) -> "blocked"
    [] OTHER -> "evaluated"
=============================================================================
