---------------------------- MODULE EvolutionEngine ----------------------------
(***************************************************************************)
(* CognitiveAuditEngine.evolve and approve_evolution_proposal              *)
(* (audit/cognitive/engine.py) on the spiral of superimposed layers        *)
(* (plugins/spiral.py).  One engine serves a sequence of calls; each call  *)
(* applies the approved deltas one after the other, audits the context     *)
(* after each, and proposes what recurred.                                 *)
(*                                                                         *)
(* A delta is a record of the fields it overwrites.  The report the audit  *)
(* returns has neither an origin anchor nor implicit assumptions at the    *)
(* places the loop looks for them, so the spiral's drift check and the     *)
(* unresolved assumptions never apply.                                     *)
(***************************************************************************)
EXTENDS CognitiveReport

CONSTANTS
  Calls,           \* what callers evolve: a context, the approved deltas in
                   \* their order and an energy budget
  Unbounded,       \* the budget of a call that sets none
  OperatorSets,    \* the sequences of registered operators
  MaxLoops, LoopCost, GapThreshold, ProposalLimit,
  OtherProposal,   \* an id no call proposed
  MaxCalls, MaxApprovals   \* bounds of the model

\* An engine has the operators this module knows, in any order.
ASSUME EngineAssumption ==
  /\ MaxLoops \in Nat \ {0}
  /\ GapThreshold \in Nat \ {0}
  /\ LoopCost \in Nat \ {0}
  /\ OperatorSets \subseteq Seq(ToSet(BaseOperators) \cup {"ORI", "GRF"})

\* Contexts and deltas have the fields the operators read, of their types.
ASSUME CallAssumption ==
  \A call \in Calls :
    /\ GraphFields \subseteq DOMAIN call.context
    /\ WellFormed(call.context)
    /\ IsSequence(call.deltas)
    /\ \A i \in DOMAIN call.deltas : WellFormed(call.deltas[i])

VARIABLES
  registered,   \* the engine's operators
  approvals,    \* approved proposals, in order
  chain,        \* the event chain
  proposed,     \* what the calls so far proposed
  pc,           \* "idle", "loop" or "scan"
  context, deltas, budget,   \* the call's arguments, the deltas applied
  idx,          \* the loop counter
  layers,       \* the spiral: state, risks and graph of every layer
  frozen,       \* the converged nodes
  violated,     \* did a frozen node vanish
  spent,        \* the energy used
  tally,        \* how often each gap was seen
  analysis,     \* the last audit
  state, verdict,
  second        \* the clock, in seconds since the call

engineVars == <<registered, approvals, chain, proposed>>
spiralVars == <<layers, frozen, violated, spent>>
callVars   == <<context, deltas, budget, idx, tally, analysis, state, verdict>>
vars == <<engineVars, pc, spiralVars, callVars, second>>

NothingAudited == <<>>
NoDelta == {}     \* the fields of a delta that changes nothing

Init ==
  /\ registered \in OperatorSets
  /\ approvals = <<>> /\ chain = <<>> /\ proposed = {}
  /\ pc = "idle"
  /\ context = None /\ deltas = <<>> /\ budget = Unbounded
  /\ idx = 0
  /\ layers = <<>> /\ frozen = {} /\ violated = FALSE /\ spent = 0
  /\ tally = EmptyBag
  /\ analysis = NothingAudited
  /\ state = "DIVERGED" /\ verdict = "AWAITING_HUMAN"
  /\ second = 0

\* The call is over: its locals are gone.
Return ==
  /\ pc' = "idle"
  /\ context' = None /\ deltas' = <<>> /\ budget' = Unbounded
  /\ idx' = 0
  /\ layers' = <<>> /\ frozen' = {} /\ violated' = FALSE /\ spent' = 0
  /\ tally' = EmptyBag
  /\ analysis' = NothingAudited
  /\ state' = "DIVERGED" /\ verdict' = "AWAITING_HUMAN"
  /\ second' = 0

EventsOf(type) == {i \in DOMAIN chain : chain[i].type = type}

------------------------------------------------------------------------------
(***************************************************************************)
(* The spiral.                                                             *)
(***************************************************************************)
\* The first layer is not asked for; every other must fit the budget.
CanRun == IF budget = Unbounded THEN TRUE ELSE spent + LoopCost <= budget

Neighbourhood(g, n) ==
  {<<"out", e.dst, e.relation>> : e \in {f \in ToSet(g.edges) : f.src = n}}
  \cup {<<"in", e.src, e.relation>> : e \in {f \in ToSet(g.edges) : f.dst = n}}

\* The nodes with the same edges in two adjacent layers.
StableNodes(g) ==
  IF layers = <<>> THEN {}
  ELSE {n \in g.nodes :
          /\ Neighbourhood(g, n) # {}
          /\ Neighbourhood(g, n) = Neighbourhood(Last(layers).graph, n)}

\* Faulty variant: only what this layer freezes must be there.
VanishedIncoming(g) == StableNodes(g) \ g.nodes

Vanished(g) == frozen \ g.nodes

Radius(l) == Cardinality(l.risks)

\* Three layers of the same radius.
IsStatic(s) ==
  /\ Len(s) >= 3
  /\ \A i \in Len(s) - 2 .. Len(s) : Radius(s[i]) = Radius(Last(s))

------------------------------------------------------------------------------
(***************************************************************************)
(* The convergence checker.                                                *)
(***************************************************************************)
\* A result without a status blocks by its halts, and is a risk if it fails.
StatusOf(r) ==
  CASE r.status # None -> r.status
    [] r.status = None /\ r.halts > 0 -> "BLOCKED"
    [] r.status = None /\ r.halts = 0 /\ ~r.pass -> "HIGH_RISK"
    [] r.status = None /\ r.halts = 0 /\ r.pass -> None

RiskSet(a) ==
  {<<n, StatusOf(a[n]), a[n]>> :
     n \in {m \in DOMAIN a : StatusOf(a[m]) \in Blocking \cup Risky}}

HasBlocking(a) == \E n \in DOMAIN a : StatusOf(a[n]) \in Blocking

\* Faulty variant: the last round still compares.
ClassifyLate(i, risks, blocking) ==
  CASE blocking -> "BLOCKED"
    [] ~blocking /\ i > 0 /\ Last(layers).risks = risks -> "FIXED_POINT"
    [] ~blocking /\ (i = 0 \/ Last(layers).risks # risks) /\ risks = {} -> "NO_GAIN"
    [] OTHER -> IF i > MaxLoops THEN "BUDGET_EXHAUSTED" ELSE "DIVERGED"

\* The first that applies, in this order.
Classify(i, risks, blocking) ==
  LET same == i > 0 /\ Last(layers).risks = risks
  IN  CASE blocking -> "BLOCKED"
        [] ~blocking /\ i >= MaxLoops -> "BUDGET_EXHAUSTED"
        [] ~blocking /\ i < MaxLoops /\ same -> "FIXED_POINT"
        [] ~blocking /\ i < MaxLoops /\ ~same /\ risks = {} -> "NO_GAIN"
        [] OTHER -> "DIVERGED"

IsTrueConvergence(s) == s \in {"FIXED_POINT", "NO_GAIN"}

------------------------------------------------------------------------------
(***************************************************************************)
(* evolve.                                                                 *)
(***************************************************************************)
Evolve(call) ==
  /\ pc = "idle"
  /\ Cardinality(EventsOf("EVOLUTION_SCAN")) < MaxCalls
  /\ Cardinality({i \in EventsOf("DELTA_APPLIED") : chain[i].loop = 0}) < MaxCalls
  /\ context' = call.context /\ deltas' = call.deltas /\ budget' = call.budget
  /\ pc' = "loop"
  /\ UNCHANGED <<engineVars, spiralVars, idx, tally, analysis, state, verdict, second>>

Stop(v) ==
  /\ verdict' = v
  /\ pc' = "scan"
  /\ UNCHANGED <<registered, approvals, proposed, context, deltas, budget, idx,
                 tally, analysis, state, second>>
  /\ UNCHANGED spiralVars

RunOutOfEnergy ==
  /\ pc = "loop" /\ idx > 0 /\ ~CanRun
  /\ Stop("BUDGET_EXHAUSTED")
  /\ UNCHANGED chain

RefuseEmptyDelta ==
  /\ pc = "loop" /\ (idx = 0 \/ CanRun)
  /\ idx < Len(deltas) /\ DOMAIN deltas[idx + 1] = NoDelta
  /\ Stop("BLOCKED")
  /\ UNCHANGED chain

AwaitHuman ==
  /\ pc = "loop" /\ idx > 0 /\ CanRun
  /\ idx >= Len(deltas)
  /\ Stop("AWAITING_HUMAN")
  /\ UNCHANGED chain

\* dict.update
Updated(c, d) == [f \in DOMAIN c |-> IF f \in DOMAIN d THEN d[f] ELSE c[f]]

\* What a layer's audit leaves to improve; META counts by its bases alone.
Gaps(a) ==
  {<<n, a[n].reason>> :
     n \in {m \in DOMAIN a \ {"META"} : a[m].status \notin {None, "PASS", "SKIPPED"}}}
  \cup {<<b, a["META"].detail.bases[b].reason>> :
          b \in IF "META" \in DOMAIN a
                THEN DOMAIN a["META"].detail.bases \ BasesAt(a["META"].detail.bases, "PASS")
                ELSE {}}

\* Why the loop ends after a layer, or None when it goes on.
VerdictAfter(s, broken, newLayers) ==
  CASE broken -> "SUPERPOSITION_VIOLATION"
    [] ~broken /\ IsTrueConvergence(s) -> "CONVERGED"
    [] ~broken /\ s = "BLOCKED" -> "BLOCKED"
    [] ~broken /\ s = "BUDGET_EXHAUSTED" -> "BUDGET_EXHAUSTED"
    [] ~broken /\ s = "DIVERGED" /\ IsStatic(newLayers) -> "FLAT_SPIRAL"
    [] OTHER -> None

\* The first layer audits the context as it is when no delta is approved.
HasInput ==
  IF idx < Len(deltas) THEN DOMAIN deltas[idx + 1] # NoDelta ELSE idx = 0

InputContext ==
  IF idx < Len(deltas) THEN Updated(context, deltas[idx + 1]) ELSE context

DeltaApplied ==
  IF idx < Len(deltas) THEN <<[type |-> "DELTA_APPLIED", loop |-> idx]>> ELSE <<>>

RunLayer ==
  /\ pc = "loop" /\ (idx = 0 \/ CanRun)
  /\ HasInput
  /\ second' \in {second, second + 1}
  /\ context' = InputContext /\ ~Raises(context')
  /\ analysis' = Audit(registered, context', Max({1, Len(layers)}), second')
  /\ state' = Classify(idx, RiskSet(analysis'), HasBlocking(analysis'))
  /\ tally' = tally (+) SetToBag(Gaps(analysis'))
  /\ layers' = Append(layers, [state |-> state', risks |-> RiskSet(analysis'),
                               graph |-> Topology(context')])
  /\ violated' = (violated \/ Vanished(Last(layers').graph) # {})
  /\ frozen' = frozen \cup StableNodes(Last(layers').graph)
  /\ spent' = spent + LoopCost
  /\ chain' = chain \o DeltaApplied
  /\ LET v == VerdictAfter(state', violated', layers')
     IN  IF v = None
         THEN /\ IF idx < MaxLoops THEN idx' = idx + 1 /\ pc' = "loop"
                                   ELSE pc' = "scan" /\ UNCHANGED idx
              /\ UNCHANGED verdict
         ELSE verdict' = v /\ pc' = "scan" /\ UNCHANGED idx
  /\ UNCHANGED <<registered, approvals, proposed, deltas, budget>>

\* The topology cannot be fingerprinted: the call raises after the delta's
\* event, and scans nothing.
RaiseInAudit ==
  /\ pc = "loop" /\ (idx = 0 \/ CanRun)
  /\ HasInput
  /\ Raises(InputContext)
  /\ chain' = chain \o DeltaApplied
  /\ Return
  /\ UNCHANGED <<registered, approvals, proposed>>

\* The gaps seen often enough, up to the limit; the code takes them in the
\* order of their codes, and any order will do.
Proposals ==
  LET recurring == {g \in DOMAIN tally : tally[g] >= GapThreshold}
  IN  CHOOSE s \in SUBSET recurring :
        Cardinality(s) = Min({ProposalLimit, Cardinality(recurring)})

Scan ==
  /\ pc = "scan"
  /\ proposed' = proposed \cup Proposals
  /\ chain' = Append(chain, [type |-> "EVOLUTION_SCAN",
                             proposals |-> Cardinality(Proposals),
                             generation |-> Len(approvals)])
  /\ Return
  /\ UNCHANGED <<registered, approvals>>

------------------------------------------------------------------------------
\* Faulty variant: a proposal approved before is logged and not recorded.
ApproveOnce(p) ==
  /\ pc = "idle"
  /\ Cardinality(EventsOf("EVOLUTION_APPROVED")) < MaxApprovals
  /\ chain' = Append(chain, [type |-> "EVOLUTION_APPROVED", id |-> p,
                             generation |-> Len(approvals)])
  /\ approvals' = IF p \in ToSet(approvals) THEN approvals ELSE Append(approvals, p)
  /\ UNCHANGED <<registered, proposed, pc, spiralVars, callVars, second>>

\* A person approves a proposal.  Neither that it was made nor that it was
\* not approved before is checked.
Approve(p) ==
  /\ pc = "idle"
  /\ Cardinality(EventsOf("EVOLUTION_APPROVED")) < MaxApprovals
  /\ approvals' = Append(approvals, p)
  /\ chain' = Append(chain, [type |-> "EVOLUTION_APPROVED", id |-> p,
                             generation |-> Len(approvals)])
  /\ UNCHANGED <<registered, proposed, pc, spiralVars, callVars, second>>

Next ==
  \/ \E call \in Calls : Evolve(call)
  \/ RunOutOfEnergy
  \/ RefuseEmptyDelta
  \/ AwaitHuman
  \/ RunLayer
  \/ RaiseInAudit
  \/ Scan
  \/ \E p \in proposed \cup {OtherProposal} : Approve(p)

Spec == Init /\ [][Next]_vars

------------------------------------------------------------------------------
(***************************************************************************)
(* Properties                                                              *)
(***************************************************************************)

\* Type invariant, with what a call that is over says: it waits for a person
\* only when it ran out of approved deltas, never because the loop's range
\* ended without a decision (engine.py:626-644, 719-731).
TypeOK ==
  /\ registered \in OperatorSets
  /\ pc \in {"idle", "loop", "scan"}
  /\ deltas \in {<<>>} \cup {call.deltas : call \in Calls}
  /\ budget \in {Unbounded} \cup {call.budget : call \in Calls}
  /\ idx \in 0 .. MaxLoops
  /\ Len(layers) \in 0 .. MaxLoops + 1
  /\ spent = LoopCost * Len(layers)
  /\ pc = "scan" /\ verdict = "AWAITING_HUMAN" => idx >= Len(deltas)
  /\ violated \in BOOLEAN
  /\ IsABag(tally)
  /\ state \in {"BLOCKED", "BUDGET_EXHAUSTED", "FIXED_POINT", "NO_GAIN", "DIVERGED"}
  /\ second \in Nat

\* Superposition: a node declared converged is in every later layer, or the
\* call ends with the violation (spiral.py:157-215, engine.py:713-718).
FrozenNeverLost ==
  \/ layers = <<>>
  \/ frozen \subseteq Last(layers).graph.nodes
  \/ pc # "loop" /\ verdict = "SUPERPOSITION_VIOLATION"

\* A scan's lineage carries the generation the chain before it proves: the
\* number of approvals on it, so that each root names its own generation
\* (engine.py:544-563, 778-788, 824-863).
GenerationsProvable ==
  \A i \in DOMAIN chain :
    chain[i].type \in {"EVOLUTION_SCAN", "EVOLUTION_APPROVED"} =>
      chain[i].generation = Cardinality({j \in EventsOf("EVOLUTION_APPROVED") : j < i})

\* The two searches of a graph agree: a causal paradox (T303) is reported
\* exactly when some node has no time (T308), and otherwise every edge goes
\* forward in time (topology.py:318-367, 371-472).
OrderIffAcyclic ==
  layers # <<>> =>
    LET g == Last(layers).graph
        t == TimeOrder(g)
    IN  /\ ("T303" \in WarningIssues(g)) <=> ("T308" \in WarningIssues(g))
        /\ \/ "T308" \in WarningIssues(g)
           \/ \A e \in ToSet(g.edges) : t[e.src] < t[e.dst]

\* A halted audit leaves an error among the hub's findings, whatever halted
\* it; the fact check, which the hub does not feed, is the exception
\* (adapter.py:461-465, state.py:90-178).
HaltLeavesError ==
  LET bridged == ToSet(BaseOperators) \subseteq DOMAIN analysis
                   /\ context.facts = {} /\ ~context.verify
  IN  bridged /\ analysis["STATE"].detail.level = "AUDIT_HALT" =>
        \E f \in TranslateFindings(analysis) : f.severity = "ERROR"
=============================================================================
