--------------------------- MODULE CognitiveOperators ---------------------------
(***************************************************************************)
(* The operators of the cognitive audit, each a function of the decision   *)
(* context and of the results before it (audit/cognitive/plugins).         *)
(*                                                                         *)
(* A context is a record:                                                  *)
(*   text        what the scanners find in it: its marked segments, the    *)
(*               patterns it hits, whether the marked share is above the   *)
(*               ceiling and whether it calls something random; or NoText  *)
(*   decision, outcome, origin, goal    statements, or None                *)
(*   assumptions  a sequence of statements, which are named by position    *)
(*   branches     a sequence of the assumptions they answer                *)
(*   deps         pairs of positions: the first requires the second        *)
(*   resources    the gaps of the resource blocks, Undeclared where the    *)
(*                block does not allow the subtraction                     *)
(*   facts, verify  the facts to check, and the switch                     *)
(*   feedback     what was observed of some statements                     *)
(*   levels, exposure  is a rollout ladder declared; "none", "part", "full"*)
(*   topology     an explicit graph, or NoTopology                         *)
(*                                                                         *)
(* A result has a status or None, a reason, pass, the number of halts it   *)
(* reports at its top level (0 when the field is missing) and what else    *)
(* its JSON tells apart.                                                   *)
(***************************************************************************)
EXTENDS TopologyGraph

CONSTANTS
  Statements,        \* assumptions and claims, as texts
  VagueMarkers,      \* how many vague words each holds
  Unfalsifiable,     \* those with an absolute word
  Conditional,       \* those with a word such as "if" or "not"
  None, NoText, NoTopology,
  VagueOwner,        \* is the organisation a vague name
  AuditEntropyCeiling

ASSUME StatementsAssumption ==
  /\ VagueMarkers \in [Statements -> Nat]
  /\ Unfalsifiable \subseteq Statements
  /\ Conditional \subseteq Statements

\* Where the code has None, it has no status and no verdict.
ASSUME NoneAssumption ==
  None \notin {"PASS", "SKIPPED", "WARNING", "HIGH_RISK", "BLOCKED", "CRITICAL",
               "CONVERGED", "BUDGET_EXHAUSTED", "FLAT_SPIRAL",
               "SUPERPOSITION_VIOLATION"}

Result(status, reason, pass, detail) ==
  [status |-> status, reason |-> reason, pass |-> pass, halts |-> 0,
   detail |-> detail]

\* The fields of a context, and of a delta to it, from which the graph is
\* built.
WellFormed(x) ==
  /\ "assumptions" \in DOMAIN x => IsSequence(x.assumptions)
  /\ "branches" \in DOMAIN x => IsSequence(x.branches)
  /\ "deps" \in DOMAIN x => IsFiniteSet(x.deps)
  /\ "topology" \in DOMAIN x /\ x.topology # NoTopology => IsGraph(x.topology)

GraphFields == {"assumptions", "branches", "deps", "topology"}

Assumed(c)  == ToSet(c.assumptions)
Answered(c) == ToSet(c.branches)

------------------------------------------------------------------------------
(***************************************************************************)
(* NS, the narrative strip: every marked segment is a violation.           *)
(***************************************************************************)
Segments(c) == IF c.text = NoText THEN {} ELSE c.text.segments

NS(c) == Result(None, None, Segments(c) = {}, Segments(c))

(***************************************************************************)
(* IAP, the implicit assumptions.  Without a text the decision is scanned, *)
(* in which the model finds nothing.                                       *)
(***************************************************************************)
Hits(c) == IF c.text = NoText THEN {} ELSE c.text.hits

Circular(c) ==
  IF c.decision # None /\ c.decision = c.outcome
  THEN {"circular_justification"} ELSE {}

Missing(c) ==
  IF c.decision # None /\ c.assumptions = <<>>
  THEN {"missing_assumptions"} ELSE {}

\* With neither a text nor an assumption there is nothing to look at.
Flags(c) ==
  IF c.text = NoText /\ c.decision = None /\ c.assumptions = <<>>
  THEN {}
  ELSE Hits(c) \cup Circular(c) \cup Missing(c)

HaltFlags == {"privilege_bypass", "circular_justification"}

IAP(c) == Result(None, None, Flags(c) = {}, Flags(c))

(***************************************************************************)
(* LCH, the fragility latch, in hundredths.                                *)
(***************************************************************************)
Dependents(c, i) == {d[1] : d \in {e \in c.deps : e[2] = i}}

Fragility(c, i) ==
  LET s == c.assumptions[i]
      raw == 30 + (IF s \in Answered(c) THEN -10 ELSE 30)
                + 15 * Cardinality(Dependents(c, i))
                + 10 * VagueMarkers[s]
                + (IF s \in Unfalsifiable THEN 25 ELSE 0)
  IN  Max({0, Min({100, raw})})

SystemDeltaD(c) == Max({0} \cup {Fragility(c, i) : i \in DOMAIN c.assumptions})

Covered(c) == Assumed(c) \subseteq Answered(c)

LCH(c) ==
  Result(None, None, SystemDeltaD(c) < 70 /\ Covered(c),
         [delta |-> SystemDeltaD(c), covered |-> Covered(c),
          report |-> <<c.assumptions, Answered(c), c.deps>>])

(***************************************************************************)
(* CCS, the causal chain: its four checks, each with its severity.         *)
(***************************************************************************)
InverseCheck(c) ==
  LET answers == Len(c.branches)
      needed  == Max({1, Len(c.assumptions)})
  IN  CASE c.decision = None -> "WARN"
        [] c.decision # None /\ answers = 0 -> "HALT"
        [] c.decision # None /\ answers > 0 ->
             CASE answers >= needed -> "PASS"
               [] answers < needed /\ 2 * answers >= needed -> "WARN"
               [] OTHER -> "HALT"

CounterfactualCheck(c) ==
  IF c.decision # None /\ c.outcome # None /\ Answered(c) \cap Conditional # {}
  THEN "PASS" ELSE "WARN"

ChainIntegrityCheck(c) ==
  CASE c.decision = None -> "WARN"
    [] c.decision # None /\ c.outcome = None /\ c.assumptions = <<>> -> "HALT"
    [] c.decision # None /\ c.outcome # None /\ c.assumptions # <<>> -> "PASS"
    [] OTHER -> "WARN"

BlackholeCheck(c) ==
  IF c.decision = None \/ c.outcome = None \/ c.assumptions = <<>>
  THEN "HALT" ELSE "PASS"

Checks(c) ==
  [inverse |-> InverseCheck(c), counterfactual |-> CounterfactualCheck(c),
   chain_integrity |-> ChainIntegrityCheck(c), blackhole |-> BlackholeCheck(c)]

ChecksAt(c, severity) == {k \in DOMAIN Checks(c) : Checks(c)[k] = severity}

CCS(c) ==
  [Result(None, None, ChecksAt(c, "HALT") = {},
          <<Checks(c), c.decision, Len(c.branches), Len(c.assumptions)>>) EXCEPT
     !.halts = Cardinality(ChecksAt(c, "HALT"))]

------------------------------------------------------------------------------
(***************************************************************************)
(* ORI, the origin anchor.                                                 *)
(***************************************************************************)
ORI(c) ==
  LET R(status, reason) ==
        Result(status, reason, status = "PASS", <<c.origin, c.goal, c.resources>>)
  IN  CASE c.origin = None -> R("BLOCKED", "ORIGIN_VACUUM")
        [] c.origin # None /\ c.goal = None -> R("HIGH_RISK", "GOAL_UNANCHORED")
        [] c.origin # None /\ c.goal # None ->
             CASE \E g \in c.resources \ {Undeclared} : g < 0 ->
                    R("HIGH_RISK", "RESOURCE_DEFICIT")
               [] Undeclared \in c.resources
                    /\ \A g \in c.resources \ {Undeclared} : g >= 0 ->
                    R("WARNING", "UNSPECIFIED_RESOURCE")
               [] OTHER -> R("PASS", "ANCHORED")

(***************************************************************************)
(* TPG, the topology: the declared one, or the context projected onto one. *)
(* Assumptions and branches are named by their position.                   *)
(***************************************************************************)
OriginNode   == <<"origin">>
DecisionNode == <<"decision">>
OutcomeNode  == <<"outcome">>
AssumptionNode(i) == <<"A", i>>
BranchNode(j)     == <<"delta", j>>

\* A branch starts at the assumption it answers, and at the one with its own
\* number when it answers none that is assumed; of two equal assumptions the
\* later one keeps the name.
AnswersTo(c, j) ==
  IF c.branches[j] \in Assumed(c)
  THEN AssumptionNode(Max({i \in DOMAIN c.assumptions :
                             c.assumptions[i] = c.branches[j]}))
  ELSE AssumptionNode(j)

BuildFromContext(c) ==
  LET Has(f) == f # None
      given  == (IF Has(c.origin) THEN {OriginNode} ELSE {})
                \cup (IF Has(c.decision) THEN {DecisionNode} ELSE {})
                \cup (IF Has(c.outcome) THEN {OutcomeNode} ELSE {})
                \cup {AssumptionNode(i) : i \in DOMAIN c.assumptions}
      trunk  == (IF Has(c.origin) /\ Has(c.decision)
                 THEN <<Edge(OriginNode, DecisionNode, "causal")>> ELSE <<>>)
                \o (IF Has(c.decision) /\ Has(c.outcome)
                    THEN <<Edge(DecisionNode, OutcomeNode, "causal")>> ELSE <<>>)
      inputs == IF Has(c.decision)
                THEN [i \in DOMAIN c.assumptions |->
                        Edge(AssumptionNode(i), DecisionNode, "requires")]
                ELSE <<>>
      answers == [j \in DOMAIN c.branches |->
                    Edge(AnswersTo(c, j), BranchNode(j), "causal")]
      needs   == [k \in 1 .. Cardinality(c.deps) |->
                    LET d == SetToSeq(c.deps)[k]
                    IN  Edge(AssumptionNode(d[2]), AssumptionNode(d[1]), "requires")]
  IN  Graph(given, trunk \o inputs \o answers \o needs, DefaultConstraints,
            IF Has(c.origin) THEN 2 ELSE 1)

Topology(c) == IF c.topology # NoTopology THEN c.topology ELSE BuildFromContext(c)

\* The call raises when the graph cannot be fingerprinted.
Raises(c) == Unsortable(Topology(c))

TPG(c) ==
  LET g == Topology(c)
      detail == [fatal |-> FatalIssues(g), warnings |-> WarningIssues(g), graph |-> g]
      R(status, reason) == Result(status, reason, status = "PASS", detail)
  IN  CASE detail.fatal # {} -> R("BLOCKED", "TOPOLOGY_ILLEGAL")
        [] detail.fatal = {} /\ detail.warnings # {} -> R("WARNING", "TOPOLOGY_OPEN")
        [] detail.fatal = {} /\ detail.warnings = {} ->
             IF c.topology = NoTopology /\ g.edges = <<>>
             THEN R("WARNING", "EMPTY_TOPOLOGY")
             ELSE R("PASS", "TOPOLOGY_CLOSED")

------------------------------------------------------------------------------
(***************************************************************************)
(* BFC, the binary fact check.  A fact has a claim, its evidence ("none",  *)
(* "neutral", "support", "oppose", "conflict") and what is declared of it: *)
(* "true", "false", "token" (a string such as "false", which is read as    *)
(* neither) or "undeclared".                                               *)
(***************************************************************************)
Vacuum(f)     == f.evidence = "none"
Conflict(f)   == f.evidence = "conflict"
Open(f)       == f.declared = "undeclared" /\ ~Vacuum(f) /\ ~Conflict(f)
Falsified(c, f) == f.declared = "false" /\ f.claim \in Assumed(c)

BFC(c) ==
  LET Some(P(_)) == \E f \in c.facts : P(f)
      Broken(f)  == Falsified(c, f)
      R(status, reason) == Result(status, reason, status = "PASS", c.facts)
  IN  CASE c.facts = {} /\ ~c.verify -> [R("SKIPPED", "NOT_ENABLED") EXCEPT !.pass = TRUE]
        [] c.facts = {} /\ c.verify -> R("WARNING", "NOTHING_TO_VERIFY")
        [] c.facts # {} ->
             CASE Some(Conflict) -> R("BLOCKED", "EVIDENCE_CONFLICT")
               [] ~Some(Conflict) /\ Some(Vacuum) -> R("BLOCKED", "EVIDENCE_VACUUM")
               [] ~Some(Conflict) /\ ~Some(Vacuum) /\ Some(Broken) ->
                    R("BLOCKED", "FALSIFIED_PREMISE")
               [] ~Some(Conflict) /\ ~Some(Vacuum) /\ ~Some(Broken) /\ Some(Open) ->
                    R("HIGH_RISK", "VERDICT_UNDECLARED")
               [] OTHER -> R("PASS", "VERIFIED")

(***************************************************************************)
(* GRF, the gray feedback.                                                 *)
(***************************************************************************)
Observed(c, verdict) == {s \in DOMAIN c.feedback : c.feedback[s] = verdict}

\* Falsified, and no branch answers it.
Contradictions(c) == Observed(c, "falsified") \ (Answered(c) \cap Assumed(c))

UnknownSubjects(c) ==
  IF c.assumptions = <<>> THEN {} ELSE DOMAIN c.feedback \ Assumed(c)

GRF(c) ==
  LET R(status, reason) ==
        Result(status, reason, status = "PASS", <<c.feedback, c.levels, c.exposure>>)
  IN  CASE Contradictions(c) # {} -> R("BLOCKED", "REALITY_CONTRADICTION")
        [] Contradictions(c) = {} /\ ~c.levels /\ c.exposure # "part" ->
             R("HIGH_RISK", "NO_GRAY_LADDER")
        [] Contradictions(c) = {} /\ (c.levels \/ c.exposure = "part") ->
             CASE Observed(c, "unobserved") # {} -> R("WARNING", "UNOBSERVED_ASSUMPTION")
               [] Observed(c, "unobserved") = {} /\ UnknownSubjects(c) # {} ->
                    R("WARNING", "UNKNOWN_FEEDBACK_SUBJECT")
               [] OTHER -> R("PASS", "ALIGNED")

------------------------------------------------------------------------------
(***************************************************************************)
(* META, the meta-causal ledger, reads the results of the operators that   *)
(* ran before it and the number of layers so far.  It never blocks.        *)
(***************************************************************************)
\* Assumption nodes with neither a branch nor an observation.
TraceGaps(c, g) ==
  {n \in g.nodes :
     /\ n[1] = "A"
     /\ \A e \in ToSet(g.edges) : e.src = n => e.dst[1] # "delta"
     /\ ~(n[2] \in DOMAIN c.assumptions /\ c.assumptions[n[2]] \in DOMAIN c.feedback)}

Base(status, reason) == [status |-> status, reason |-> reason]

TraceGap(c, g) ==
  LET random == c.text # NoText /\ c.text.misattributed
      gaps   == TraceGaps(c, g) # {}
  IN  CASE random /\ gaps   -> Base("HIGH_RISK", "TRACE_MISATTRIBUTED_WITH_GAPS")
        [] random /\ ~gaps  -> Base("WARNING", "TRACE_MISATTRIBUTED")
        [] ~random /\ gaps  -> Base("WARNING", "TRACE_GAPS_UNRESOLVED")
        [] ~random /\ ~gaps -> Base("PASS", "TRACE_RESOLVED")

Measure(bad, reason) == IF bad THEN Base("WARNING", reason) ELSE Base("PASS", "OK")

\* Without a topology there is no order, and the succession is broken.
Bases(c, prior, layers) ==
  LET g == IF "TPG" \in prior THEN Topology(c) ELSE Graph({}, <<>>, {}, 0)
  IN  [trace_gap |-> TraceGap(c, g),
       parallel_convergence |->
         Measure(Forks(g) # {}, "CONVERGENCE_FORK_VIOLATION"),
       narrative_occlusion |->
         Measure("NS" \in prior /\ c.text # NoText /\ c.text.occluded,
                 "NARRATIVE_OCCLUDED"),
       bounded_audit |->
         Measure(g.provenance > AuditEntropyCeiling * layers,
                 "AUDIT_ENTROPY_UNBOUNDED"),
       causal_succession |->
         Measure("TPG" \notin prior \/ Unassignable(g) # {} \/ Inverted(g) # {},
                 "SUCCESSION_BROKEN")]

BasesAt(bases, status) == {b \in DOMAIN bases : bases[b].status = status}

META(c, prior, layers) ==
  LET bases  == Bases(c, prior, layers)
      status == CASE BasesAt(bases, "HIGH_RISK") # {} -> "HIGH_RISK"
                  [] BasesAt(bases, "HIGH_RISK") = {}
                       /\ BasesAt(bases, "WARNING") # {} -> "WARNING"
                  [] BasesAt(bases, "PASS") = DOMAIN bases -> "PASS"
  IN  Result(status, BasesAt(bases, status), status = "PASS",
             [bases |-> bases, layers |-> layers, topology |-> Topology(c),
              text |-> c.text, feedback |-> c.feedback,
              seen |-> {"ORI", "GRF"} \cap prior])

(***************************************************************************)
(* STATE, the responsibility anchor, aggregates the results of all others. *)
(* Its certificate carries the time in seconds.                            *)
(***************************************************************************)
Blocking == {"BLOCKED", "CRITICAL"}
Risky    == {"HIGH_RISK", "WARNING"}

\* What the four operators without a status halt on.  Counting these alone
\* is the faulty variant: a blocked operator would be swallowed.
HaltsOfFour(c, results) ==
  {<<"IAP", f>> : f \in IF "IAP" \in DOMAIN results THEN Flags(c) \cap HaltFlags ELSE {}}
  \cup {<<"LCH", d>> : d \in IF "LCH" \in DOMAIN results /\ SystemDeltaD(c) >= 70
                              THEN {SystemDeltaD(c)} ELSE {}}
  \cup {<<"CCS", k>> : k \in IF "CCS" \in DOMAIN results THEN ChecksAt(c, "HALT") ELSE {}}

Halts(c, results) ==
  HaltsOfFour(c, results)
  \cup {<<n, results[n].reason>> :
          n \in {m \in DOMAIN results : results[m].status \in Blocking}}

Warns(c, results) ==
  {<<"NS", s>> : s \in IF "NS" \in DOMAIN results THEN Segments(c) ELSE {}}
  \cup {<<"IAP", f>> : f \in IF "IAP" \in DOMAIN results THEN Flags(c) \ HaltFlags ELSE {}}
  \cup {<<"LCH", d>> : d \in IF "LCH" \in DOMAIN results /\ ~results["LCH"].pass
                              THEN {SystemDeltaD(c)} ELSE {}}
  \cup {<<"CCS", k>> : k \in IF "CCS" \in DOMAIN results THEN ChecksAt(c, "WARN") ELSE {}}
  \cup {<<n, results[n].reason>> :
          n \in {m \in DOMAIN results : results[m].status \in Risky}}

Level(c, results) ==
  CASE Halts(c, results) # {} -> "AUDIT_HALT"
    [] Halts(c, results) = {} /\ Warns(c, results) # {} -> "AUDIT_WARN"
    [] Halts(c, results) = {} /\ Warns(c, results) = {} -> "AUDIT_PASS"

\* The level and the halts are inside the verdict, not at the top level.
StateAnchor(c, results, second) ==
  Result(None, None, Level(c, results) # "AUDIT_HALT",
         [level |-> Level(c, results), halts |-> Halts(c, results),
          warns |-> Warns(c, results), vague |-> VagueOwner, second |-> second])

------------------------------------------------------------------------------
(***************************************************************************)
(* CognitiveAuditEngine.audit: the registered operators in order, STATE    *)
(* last whatever its place.                                                *)
(***************************************************************************)
Analyze(n, c, prior, layers, second) ==
  CASE n = "NS" -> NS(c)   [] n = "IAP" -> IAP(c) [] n = "LCH" -> LCH(c)
    [] n = "TPG" -> TPG(c) [] n = "BFC" -> BFC(c) [] n = "CCS" -> CCS(c)
    [] n = "ORI" -> ORI(c) [] n = "GRF" -> GRF(c)
    [] n = "META" -> META(c, DOMAIN prior, layers)
    [] n = "STATE" -> StateAnchor(c, prior, second)

\* The results with that of one more operator.
Extended(prior, n, c, layers, second) ==
  [m \in DOMAIN prior \cup {n} |->
     IF m = n THEN Analyze(n, c, prior, layers, second) ELSE prior[m]]

\* The results of the operators other than STATE among the first k.
ResultsOf(registered, c, layers, second) ==
  LET results[k \in 0 .. Len(registered)] ==
        IF k = 0 THEN <<>>
        ELSE IF registered[k] = "STATE" THEN results[k - 1]
        ELSE Extended(results[k - 1], registered[k], c, layers, second)
  IN  results

Audit(registered, c, layers, second) ==
  LET prior == ResultsOf(registered, c, layers, second)[Len(registered)]
  IN  IF "STATE" \in ToSet(registered)
      THEN Extended(prior, "STATE", c, layers, second)
      ELSE prior
=============================================================================
