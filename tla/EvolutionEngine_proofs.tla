----------------------- MODULE EvolutionEngine_proofs ------------------------
(***************************************************************************)
(* Proofs about EvolutionEngine, for any contexts, deltas, budgets and     *)
(* operators, and any number of loops, calls and approvals.                *)
(***************************************************************************)
EXTENDS EvolutionEngine, SequenceTheorems, FiniteSetTheorems,
        WellFoundedInduction, TLAPS

------------------------------------------------------------------------------
(***************************************************************************)
(* The chain and its generations                                           *)
(***************************************************************************)

\* Counting the approvals, what the chain's events say of their generation
\* is what the chain before them proves.
ChainInv ==
  /\ \E S : chain \in Seq(S)
  /\ \E S : approvals \in Seq(S)
  /\ IsFiniteSet(EventsOf("EVOLUTION_APPROVED"))
  /\ Len(approvals) = Cardinality(EventsOf("EVOLUTION_APPROVED"))
  /\ GenerationsProvable

\* An event at the end of a chain.
LEMMA OneMore ==
  ASSUME NEW S, NEW s \in Seq(S), NEW e
  PROVE  /\ Append(s, e) \in Seq(S \cup {e})
         /\ Len(Append(s, e)) = Len(s) + 1
         /\ DOMAIN Append(s, e) = DOMAIN s \cup {Len(s) + 1}
         /\ \A i \in DOMAIN s : Append(s, e)[i] = s[i]
         /\ Append(s, e)[Len(s) + 1] = e
         /\ DOMAIN s = 1 .. Len(s)
         /\ Len(s) \in Nat
OBVIOUS

\* An event that is no approval leaves the approvals on the chain.
LEMMA OtherEvent ==
  ASSUME ChainInv, NEW e,
         chain' = Append(chain, e),
         e.type # "EVOLUTION_APPROVED",
         e.type = "EVOLUTION_SCAN" => e.generation = Len(approvals),
         UNCHANGED approvals
  PROVE  ChainInv'
<1>1. PICK S : chain \in Seq(S)
  BY DEF ChainInv
<1>2. /\ chain' \in Seq(S \cup {e})
      /\ DOMAIN chain' = DOMAIN chain \cup {Len(chain) + 1}
      /\ \A i \in DOMAIN chain : chain'[i] = chain[i]
      /\ chain'[Len(chain) + 1] = e
      /\ DOMAIN chain = 1 .. Len(chain)
      /\ Len(chain) \in Nat
  BY <1>1, OneMore
<1>3. EventsOf("EVOLUTION_APPROVED")' = EventsOf("EVOLUTION_APPROVED")
  BY <1>2 DEF EventsOf
<1>4. GenerationsProvable'
  <2> SUFFICES ASSUME NEW i \in DOMAIN chain',
                      chain'[i].type \in {"EVOLUTION_SCAN", "EVOLUTION_APPROVED"}
               PROVE  chain'[i].generation
                        = Cardinality({j \in EventsOf("EVOLUTION_APPROVED")' : j < i})
    BY DEF GenerationsProvable
  <2>1. CASE i \in DOMAIN chain
    BY <2>1, <1>2, <1>3 DEF ChainInv, GenerationsProvable
  <2>2. CASE i = Len(chain) + 1
    <3>1. {j \in EventsOf("EVOLUTION_APPROVED") : j < i} = EventsOf("EVOLUTION_APPROVED")
      BY <2>2, <1>2 DEF EventsOf
    <3> QED
      BY <3>1, <2>2, <1>2, <1>3 DEF ChainInv
  <2> QED
    BY <2>1, <2>2, <1>2
<1> QED
  BY <1>2, <1>3, <1>4 DEF ChainInv

\* An approval adds itself to both.
LEMMA ApprovalEvent ==
  ASSUME ChainInv, NEW e, NEW p,
         chain' = Append(chain, e),
         e.type = "EVOLUTION_APPROVED",
         e.generation = Len(approvals),
         approvals' = Append(approvals, p)
  PROVE  ChainInv'
<1> DEFINE A == EventsOf("EVOLUTION_APPROVED")
           n == Len(chain) + 1
<1>1. PICK S : chain \in Seq(S)
  BY DEF ChainInv
<1>2. /\ chain' \in Seq(S \cup {e})
      /\ DOMAIN chain' = DOMAIN chain \cup {Len(chain) + 1}
      /\ \A i \in DOMAIN chain : chain'[i] = chain[i]
      /\ chain'[Len(chain) + 1] = e
      /\ DOMAIN chain = 1 .. Len(chain)
      /\ Len(chain) \in Nat
  BY <1>1, OneMore
<1>3. EventsOf("EVOLUTION_APPROVED")' = A \cup {n}
  BY <1>2 DEF EventsOf
<1>4. n \notin A /\ IsFiniteSet(A)
  BY <1>2 DEF EventsOf, ChainInv
<1>5. IsFiniteSet(A \cup {n}) /\ Cardinality(A \cup {n}) = Cardinality(A) + 1
  BY <1>4, FS_AddElement
<1>6. PICK T : approvals \in Seq(T)
  BY DEF ChainInv
<1>7. approvals' \in Seq(T \cup {p}) /\ Len(approvals') = Len(approvals) + 1
  BY <1>6, OneMore
<1>8. GenerationsProvable'
  <2> SUFFICES ASSUME NEW i \in DOMAIN chain',
                      chain'[i].type \in {"EVOLUTION_SCAN", "EVOLUTION_APPROVED"}
               PROVE  chain'[i].generation = Cardinality({j \in A \cup {n} : j < i})
    BY <1>3 DEF GenerationsProvable
  <2>1. {j \in A \cup {n} : j < i} = {j \in A : j < i}
    BY <1>2 DEF EventsOf
  <2>2. CASE i \in DOMAIN chain
    BY <2>1, <2>2, <1>2 DEF ChainInv, GenerationsProvable
  <2>3. CASE i = n
    <3>1. {j \in A : j < i} = A
      BY <2>3, <1>2 DEF EventsOf
    <3> QED
      BY <3>1, <2>1, <2>3, <1>2 DEF ChainInv
  <2> QED
    BY <2>2, <2>3, <1>2
<1> QED
  BY <1>2, <1>3, <1>5, <1>7, <1>8 DEF ChainInv

\* What a layer, or a call that raises, appends.
LEMMA DeltaEvents ==
  ASSUME ChainInv, chain' = chain \o DeltaApplied, UNCHANGED approvals
  PROVE  ChainInv'
<1>1. PICK S : chain \in Seq(S)
  BY DEF ChainInv
<1>2. CASE idx < Len(deltas)
  <2> DEFINE e == [type |-> "DELTA_APPLIED", loop |-> idx]
  <2>1. chain' = Append(chain, e)
    <3>1. chain \in Seq(S \cup {e}) /\ e \in S \cup {e}
      BY <1>1
    <3> QED
      BY <3>1, <1>2 DEF DeltaApplied
  <2> QED
    BY <2>1, OtherEvent
<1>3. CASE ~ (idx < Len(deltas))
  <2>1. chain' = chain
    BY <1>1, <1>3 DEF DeltaApplied
  <2> QED
    BY <2>1 DEF ChainInv, GenerationsProvable, EventsOf
<1> QED
  BY <1>2, <1>3

\* Every scan and every approval names the generation that the chain before
\* it proves (engine.py:544-563, 778-788, 824-863).
THEOREM GenerationsTheorem == Spec => []GenerationsProvable
<1>1. Init => ChainInv
  <2> SUFFICES ASSUME Init
               PROVE  ChainInv
    OBVIOUS
  <2>1. EventsOf("EVOLUTION_APPROVED") = {} /\ chain \in Seq({}) /\ approvals \in Seq({})
    BY DEF Init, EventsOf
  <2>2. GenerationsProvable
    BY DEF Init, GenerationsProvable
  <2> QED
    BY <2>1, <2>2, FS_EmptySet DEF Init, ChainInv
<1>2. ChainInv /\ [Next]_vars => ChainInv'
  <2> SUFFICES ASSUME ChainInv, [Next]_vars
               PROVE  ChainInv'
    OBVIOUS
  <2>1. CASE UNCHANGED <<chain, approvals>>
    BY <2>1 DEF ChainInv, GenerationsProvable, EventsOf
  <2>2. CASE RunLayer \/ RaiseInAudit
    BY <2>2, DeltaEvents DEF RunLayer, RaiseInAudit
  <2>3. CASE Scan
    <3> DEFINE e == [type |-> "EVOLUTION_SCAN", proposals |-> Cardinality(Proposals),
                     generation |-> Len(approvals)]
    <3>1. chain' = Append(chain, e) /\ UNCHANGED approvals
      BY <2>3 DEF Scan
    <3> QED
      BY <3>1, OtherEvent
  <2>4. ASSUME NEW p \in proposed \cup {OtherProposal}, Approve(p)
        PROVE  ChainInv'
    <3> DEFINE e == [type |-> "EVOLUTION_APPROVED", id |-> p,
                     generation |-> Len(approvals)]
    <3>1. chain' = Append(chain, e) /\ approvals' = Append(approvals, p)
      BY <2>4 DEF Approve
    <3> QED
      BY <3>1, ApprovalEvent
  <2>5. CASE UNCHANGED vars
    BY <2>1, <2>5 DEF vars, engineVars
  <2>6. CASE RunOutOfEnergy \/ RefuseEmptyDelta \/ AwaitHuman
    BY <2>1, <2>6 DEF RunOutOfEnergy, RefuseEmptyDelta, AwaitHuman, Stop
  <2>7. CASE \E call \in Calls : Evolve(call)
    BY <2>1, <2>7 DEF Evolve, engineVars
  <2> QED
    BY <2>2, <2>3, <2>4, <2>5, <2>6, <2>7 DEF Next
<1>3. ChainInv => GenerationsProvable
  BY DEF ChainInv
<1> QED
  BY <1>1, <1>2, <1>3, PTL DEF Spec

------------------------------------------------------------------------------
(***************************************************************************)
(* Type correctness                                                        *)
(***************************************************************************)

Verdicts == {"CONVERGED", "BLOCKED", "BUDGET_EXHAUSTED", "FLAT_SPIRAL",
             "SUPERPOSITION_VIOLATION"}

States == {"BLOCKED", "BUDGET_EXHAUSTED", "FIXED_POINT", "NO_GAIN", "DIVERGED"}

\* The checker knows five answers, and in the last round only two of them.
LEMMA ClassifyTypes ==
  ASSUME NEW i \in 0 .. MaxLoops, NEW risks, NEW blocking \in BOOLEAN
  PROVE  /\ Classify(i, risks, blocking) \in States
         /\ i = MaxLoops => Classify(i, risks, blocking) \in {"BLOCKED", "BUDGET_EXHAUSTED"}
<1>1. MaxLoops \in Nat
  BY EngineAssumption
<1> DEFINE same == i > 0 /\ Last(layers).risks = risks
<1>2. CASE blocking
  BY <1>1, <1>2 DEF Classify, States
<1>3. CASE ~ blocking /\ i = MaxLoops
  BY <1>1, <1>3 DEF Classify, States
<1>4. CASE ~ blocking /\ i < MaxLoops /\ same
  BY <1>1, <1>4 DEF Classify, States
<1>5. CASE ~ blocking /\ i < MaxLoops /\ ~ same
  BY <1>1, <1>5 DEF Classify, States
<1> QED
  BY <1>1, <1>2, <1>3, <1>4, <1>5

\* A verdict is one of five, and the two answers of the last round end the
\* loop.
LEMMA VerdictTypes ==
  ASSUME NEW s, NEW broken \in BOOLEAN, NEW spiral
  PROVE  /\ VerdictAfter(s, broken, spiral) \in Verdicts \cup {None}
         /\ s \in {"BLOCKED", "BUDGET_EXHAUSTED"} =>
              VerdictAfter(s, broken, spiral) \in Verdicts
         /\ broken => VerdictAfter(s, broken, spiral) = "SUPERPOSITION_VIOLATION"
<1>1. CASE broken
  BY <1>1 DEF VerdictAfter, Verdicts
<1>2. CASE ~ broken /\ IsTrueConvergence(s)
  BY <1>2 DEF VerdictAfter, Verdicts, IsTrueConvergence
<1>3. CASE ~ broken /\ s = "BLOCKED"
  BY <1>3 DEF VerdictAfter, Verdicts, IsTrueConvergence
<1>4. CASE ~ broken /\ s = "BUDGET_EXHAUSTED"
  BY <1>4 DEF VerdictAfter, Verdicts, IsTrueConvergence
<1>5. CASE ~ broken /\ s = "DIVERGED" /\ IsStatic(spiral)
  BY <1>5 DEF VerdictAfter, Verdicts, IsTrueConvergence
<1>6. CASE /\ ~ broken
           /\ ~ IsTrueConvergence(s)
           /\ s \notin {"BLOCKED", "BUDGET_EXHAUSTED"}
           /\ ~ (s = "DIVERGED" /\ IsStatic(spiral))
  <2>1. VerdictAfter(s, broken, spiral) = None
    BY <1>6 DEF VerdictAfter
  <2> QED
    BY <1>6, <2>1
<1> QED
  BY <1>1, <1>2, <1>3, <1>4, <1>5, <1>6

\* One layer costs the same as the next.
LEMMA OneLayerMore ==
  ASSUME NEW n \in Nat, NEW c \in Nat
  PROVE  c * (n + 1) = c * n + c
BY Z3

\* The inductive invariant: the loop counter counts the layers.
TypeInv ==
  /\ TypeOK
  /\ \E S : layers \in Seq(S)
  /\ pc = "idle" => layers = <<>> /\ idx = 0 /\ tally = EmptyBag
  /\ pc = "loop" => Len(layers) = idx
  /\ pc = "scan" => Len(layers) \in {idx, idx + 1}

\* What the end of a call leaves.
LEMMA ReturnTypes ==
  ASSUME TypeInv, Return, UNCHANGED registered
  PROVE  TypeInv'
<1>1. LoopCost \in Nat /\ MaxLoops \in Nat
  BY EngineAssumption
<1>2. LoopCost * 0 = 0
  BY <1>1
<1>3. layers' = <<>> /\ Len(<<>>) = 0 /\ layers' \in Seq({})
  BY DEF Return
<1>4. IsABag(EmptyBag)
  BY DEF IsABag, EmptyBag, SetToBag
<1>5. 0 \in 0 .. MaxLoops /\ 0 \in 0 .. MaxLoops + 1
  BY <1>1
<1>6. TypeOK'
  BY <1>2, <1>3, <1>4, <1>5 DEF Return, TypeInv, TypeOK
<1>7. pc' = "idle" /\ idx' = 0 /\ tally' = EmptyBag
  BY DEF Return
<1> QED
  BY <1>3, <1>6, <1>7 DEF TypeInv

\* What an early end of the loop leaves.
LEMMA StopTypes ==
  ASSUME TypeInv, NEW v, Stop(v), pc = "loop",
         v = "AWAITING_HUMAN" => idx >= Len(deltas)
  PROVE  TypeInv'
BY DEF Stop, spiralVars, TypeInv, TypeOK

\* What a layer leaves.
LEMMA LayerTypes ==
  ASSUME TypeInv, RunLayer
  PROVE  TypeInv'
<1>1. LoopCost \in Nat /\ MaxLoops \in Nat
  BY EngineAssumption
<1>2. PICK S : layers \in Seq(S)
  BY DEF TypeInv
<1> DEFINE layer == [state |-> state', risks |-> RiskSet(analysis'),
                     graph |-> Topology(context')]
<1>3. /\ layers' \in Seq(S \cup {layer})
      /\ Len(layers') = Len(layers) + 1
      /\ Len(layers) \in Nat
  <2>1. layers' = Append(layers, layer)
    BY DEF RunLayer
  <2> QED
    BY <1>2, <2>1, OneMore
<1>4. Len(layers) = idx /\ pc = "loop"
  BY DEF TypeInv, RunLayer
<1>5. idx \in 0 .. MaxLoops
  BY DEF TypeInv, TypeOK
<1>6. spent' = LoopCost * Len(layers')
  <2>1. spent' = LoopCost * Len(layers) + LoopCost
    BY DEF RunLayer, TypeInv, TypeOK
  <2> QED
    BY <1>1, <1>3, <2>1, OneLayerMore
<1>7. IsABag(tally')
  <2>1. tally' = tally (+) SetToBag(Gaps(analysis'))
    BY DEF RunLayer
  <2>2. IsABag(tally)
    BY DEF TypeInv, TypeOK
  <2> QED
    BY <2>1, <2>2 DEF IsABag, (+), SetToBag
<1>8. /\ state' \in States
      /\ idx = MaxLoops => state' \in {"BLOCKED", "BUDGET_EXHAUSTED"}
  <2>1. state' = Classify(idx, RiskSet(analysis'), HasBlocking(analysis'))
    BY DEF RunLayer
  <2>2. HasBlocking(analysis') \in BOOLEAN
    BY DEF HasBlocking
  <2> QED
    BY <1>5, <2>1, <2>2, ClassifyTypes
<1>9. violated' \in BOOLEAN
  <2>1. violated' = (violated \/ Vanished(Last(layers').graph) # {})
    BY DEF RunLayer
  <2> QED
    BY <2>1, Zenon
<1> DEFINE v == VerdictAfter(state', violated', layers')
<1>10. /\ v \in Verdicts \cup {None}
       /\ idx = MaxLoops => v \in Verdicts
  BY <1>8, <1>9, VerdictTypes
<1>11. \/ /\ v = None
          /\ IF idx < MaxLoops THEN idx' = idx + 1 /\ pc' = "loop"
                               ELSE pc' = "scan" /\ UNCHANGED idx
       \/ v # None /\ verdict' = v /\ pc' = "scan" /\ UNCHANGED idx
  BY DEF RunLayer
<1> HIDE DEF v
<1>12. \/ idx < MaxLoops /\ idx' = idx + 1 /\ pc' = "loop"
       \/ verdict' \in Verdicts /\ pc' = "scan" /\ UNCHANGED idx
  <2>1. None \notin Verdicts
    BY NoneAssumption DEF Verdicts
  <2> QED
    BY <1>1, <1>5, <1>10, <1>11, <2>1
<1>13. /\ second \in Nat => second' \in Nat
       /\ UNCHANGED <<registered, deltas, budget>>
  BY DEF RunLayer
<1>14. /\ registered' \in OperatorSets
       /\ deltas' \in {<<>>} \cup {call.deltas : call \in Calls}
       /\ budget' \in {Unbounded} \cup {call.budget : call \in Calls}
       /\ second' \in Nat
  BY <1>13 DEF TypeInv, TypeOK
<1>15. /\ pc' \in {"loop", "scan"}
       /\ idx' \in 0 .. MaxLoops
       /\ Len(layers') \in 0 .. MaxLoops + 1
       /\ pc' = "loop" => Len(layers') = idx'
       /\ pc' = "scan" => Len(layers') \in {idx', idx' + 1} /\ verdict' # "AWAITING_HUMAN"
  BY <1>1, <1>3, <1>4, <1>5, <1>12 DEF Verdicts
<1> QED
  BY <1>3, <1>6, <1>7, <1>8, <1>9, <1>14, <1>15 DEF TypeInv, TypeOK, States

\* Every value keeps its type, and a call waits for a person only when it
\* ran out of approved deltas (engine.py:626-644, 719-731).
LEMMA TypeInvariant == Spec => []TypeInv
<1>1. Init => TypeInv
  <2> SUFFICES ASSUME Init
               PROVE  TypeInv
    OBVIOUS
  <2>1. LoopCost \in Nat /\ MaxLoops \in Nat /\ LoopCost * 0 = 0
    BY EngineAssumption
  <2>2. IsABag(EmptyBag)
    BY DEF IsABag, EmptyBag, SetToBag
  <2>3. layers \in Seq({}) /\ layers = <<>> /\ Len(layers) = 0
    BY DEF Init
  <2>4. TypeOK
    <3>1. 0 \in 0 .. MaxLoops /\ 0 \in 0 .. MaxLoops + 1
      BY <2>1
    <3> QED
      BY <2>1, <2>2, <2>3, <3>1 DEF Init, TypeOK
  <2> QED
    BY <2>3, <2>4 DEF Init, TypeInv
<1>2. TypeInv /\ [Next]_vars => TypeInv'
  <2> SUFFICES ASSUME TypeInv, [Next]_vars
               PROVE  TypeInv'
    OBVIOUS
  <2>1. ASSUME NEW call \in Calls, Evolve(call)
        PROVE  TypeInv'
    BY <2>1, EngineAssumption DEF Evolve, engineVars, spiralVars, TypeInv, TypeOK
  <2>2. CASE RunOutOfEnergy
    BY <2>2, StopTypes DEF RunOutOfEnergy
  <2>3. CASE RefuseEmptyDelta
    BY <2>3, StopTypes DEF RefuseEmptyDelta
  <2>4. CASE AwaitHuman
    BY <2>4, StopTypes DEF AwaitHuman
  <2>5. CASE RunLayer
    BY <2>5, LayerTypes
  <2>6. CASE RaiseInAudit
    BY <2>6, ReturnTypes DEF RaiseInAudit
  <2>7. CASE Scan
    BY <2>7, ReturnTypes DEF Scan
  <2>8. ASSUME NEW p \in proposed \cup {OtherProposal}, Approve(p)
        PROVE  TypeInv'
    BY <2>8 DEF Approve, spiralVars, callVars, TypeInv, TypeOK
  <2>9. CASE UNCHANGED vars
    BY <2>9 DEF vars, engineVars, spiralVars, callVars, TypeInv, TypeOK
  <2> QED
    BY <2>1, <2>2, <2>3, <2>4, <2>5, <2>6, <2>7, <2>8, <2>9 DEF Next
<1> QED
  BY <1>1, <1>2, PTL DEF Spec

THEOREM TypeCorrect == Spec => []TypeOK
<1>1. TypeInv => TypeOK
  BY DEF TypeInv
<1> QED
  BY <1>1, TypeInvariant, PTL

------------------------------------------------------------------------------
(***************************************************************************)
(* Superposition                                                           *)
(***************************************************************************)

\* The inductive invariant: while the loop goes on nothing has vanished, and
\* what is frozen was frozen in a layer.
FrozenInv ==
  /\ FrozenNeverLost
  /\ layers = <<>> => frozen = {}
  /\ pc # "scan" => ~ violated

\* A layer that has what was frozen before has what it freezes, and one
\* that has not ends the loop.
LEMMA LayerKeepsFrozen ==
  ASSUME TypeInv, FrozenInv, RunLayer
  PROVE  FrozenInv'
<1> DEFINE g == Topology(context')
           layer == [state |-> state', risks |-> RiskSet(analysis'), graph |-> g]
<1>1. PICK S : layers \in Seq(S)
  BY DEF TypeInv
<1>2. layers' = Append(layers, layer)
  BY DEF RunLayer
<1>3. layers' # <<>> /\ Last(layers').graph = g
  <2>1. /\ layers' \in Seq(S \cup {layer})
        /\ Len(layers') = Len(layers) + 1
        /\ layers'[Len(layers) + 1] = layer
        /\ Len(layers) \in Nat
    BY <1>1, <1>2, OneMore
  <2>2. Last(layers') = layer
    BY <2>1 DEF Last
  <2> QED
    BY <2>1, <2>2
<1>4. /\ violated' = (violated \/ Vanished(g) # {})
      /\ frozen' = frozen \cup StableNodes(g)
  BY <1>3, Zenon DEF RunLayer
<1>5. StableNodes(g) \subseteq g.nodes
  BY DEF StableNodes
<1>6. ~ violated
  BY DEF RunLayer, FrozenInv
<1>7. CASE Vanished(g) = {}
  <2>1. frozen' \subseteq Last(layers').graph.nodes
    BY <1>3, <1>4, <1>5, <1>7 DEF Vanished
  <2>2. ~ violated'
    BY <1>4, <1>6, <1>7, Zenon
  <2> QED
    BY <1>3, <2>1, <2>2 DEF FrozenInv, FrozenNeverLost
<1>8. CASE Vanished(g) # {}
  <2>1. violated' = TRUE
    BY <1>4, <1>8, Zenon
  <2>2. VerdictAfter(state', violated', layers') = "SUPERPOSITION_VIOLATION"
    BY <2>1, VerdictTypes
  <2>3. "SUPERPOSITION_VIOLATION" # None
    BY NoneAssumption
  <2>4. verdict' = "SUPERPOSITION_VIOLATION" /\ pc' = "scan"
    BY <2>2, <2>3 DEF RunLayer
  <2> QED
    BY <1>3, <2>4 DEF FrozenInv, FrozenNeverLost
<1> QED
  BY <1>7, <1>8

\* A node declared converged is in every later layer, or the call ends with
\* the violation (spiral.py:157-215, engine.py:713-718).
THEOREM FrozenTheorem == Spec => []FrozenNeverLost
<1>1. Init => FrozenInv
  BY DEF Init, FrozenInv, FrozenNeverLost
<1>2. TypeInv /\ FrozenInv /\ [Next]_vars => FrozenInv'
  <2> SUFFICES ASSUME TypeInv, FrozenInv, [Next]_vars
               PROVE  FrozenInv'
    OBVIOUS
  <2>1. ASSUME NEW call \in Calls, Evolve(call)
        PROVE  FrozenInv'
    <3>1. /\ layers = <<>> /\ pc = "idle"
          /\ UNCHANGED <<layers, frozen, violated>>
      BY <2>1 DEF Evolve, spiralVars, TypeInv
    <3> QED
      BY <2>1, <3>1 DEF FrozenInv, FrozenNeverLost
  <2>2. CASE RunOutOfEnergy \/ RefuseEmptyDelta \/ AwaitHuman
    <3>1. /\ pc = "loop" /\ pc' = "scan"
          /\ UNCHANGED <<layers, frozen>>
      BY <2>2 DEF RunOutOfEnergy, RefuseEmptyDelta, AwaitHuman, Stop, spiralVars
    <3> QED
      BY <3>1 DEF FrozenInv, FrozenNeverLost
  <2>3. CASE RunLayer
    BY <2>3, LayerKeepsFrozen
  <2>4. CASE RaiseInAudit \/ Scan
    BY <2>4 DEF RaiseInAudit, Scan, Return, FrozenInv, FrozenNeverLost
  <2>5. ASSUME NEW p \in proposed \cup {OtherProposal}, Approve(p)
        PROVE  FrozenInv'
    BY <2>5 DEF Approve, spiralVars, callVars, FrozenInv, FrozenNeverLost
  <2>6. CASE UNCHANGED vars
    BY <2>6 DEF vars, engineVars, spiralVars, callVars, FrozenInv, FrozenNeverLost
  <2> QED
    BY <2>1, <2>2, <2>3, <2>4, <2>5, <2>6 DEF Next
<1>3. FrozenInv => FrozenNeverLost
  BY DEF FrozenInv
<1> QED
  BY <1>1, <1>2, <1>3, TypeInvariant, PTL DEF Spec

------------------------------------------------------------------------------
(***************************************************************************)
(* What an audit returns                                                   *)
(***************************************************************************)

Names == ToSet(BaseOperators) \cup {"ORI", "GRF"}

LEMMA NamesListed ==
  /\ ToSet(BaseOperators) = {"NS", "IAP", "LCH", "TPG", "BFC", "CCS", "META", "STATE"}
  /\ Names = {"NS", "IAP", "LCH", "TPG", "BFC", "CCS", "META", "STATE", "ORI", "GRF"}
<1>1. DOMAIN BaseOperators = 1 .. 8
  BY DEF BaseOperators
<1>2. ToSet(BaseOperators) = {"NS", "IAP", "LCH", "TPG", "BFC", "CCS", "META", "STATE"}
  BY <1>1 DEF ToSet, BaseOperators
<1> QED
  BY <1>2 DEF Names

\* A non-empty set of naturals has a least element.
LEMMA LeastNatural ==
  ASSUME NEW T \in SUBSET Nat, T # {}
  PROVE  \E x \in T : \A y \in T : x <= y
<1> DEFINE R == {p \in Nat \X Nat : p[1] < p[2]}
<1>1. IsWellFoundedOn(OpToRel(<, Nat), Nat)
  BY NatLessThanWellFounded
<1>2. OpToRel(<, Nat) = R
  BY DEF OpToRel
<1>3. IsWellFoundedOn(R, Nat)
  BY <1>1, <1>2
<1> HIDE DEF R
<1>4. PICK x \in T : \A y \in T : ~ (<<y, x>> \in R)
  BY <1>3, WFMin
<1>5. \A y \in T : ~ (y < x)
  BY <1>4 DEF R
<1> QED
  BY <1>5

\* The recursion of ResultsOf, as an equation.
Joined(r, c, l, t, p, k) ==
  IF r[k] = "STATE" THEN p ELSE Extended(p, r[k], c, l, t)

ResultsStep(r, c, l, t, n, f) ==
  [k \in 0 .. n |-> IF k = 0 THEN <<>> ELSE Joined(r, c, l, t, f[k - 1], k)]

LEMMA ResultsExist ==
  ASSUME NEW r, NEW c, NEW l, NEW t, NEW n \in Nat
  PROVE  \E f : f = ResultsStep(r, c, l, t, n, f)
<1> DEFINE J(p, k) == Joined(r, c, l, t, p, k)
           Solved(k) == \E f : f = ResultsStep(r, c, l, t, k, f)
           bad == {k \in Nat : ~ Solved(k)}
<1>1. Solved(0)
  <2> DEFINE f == [i \in 0 .. 0 |-> <<>>]
  <2>1. f = ResultsStep(r, c, l, t, 0, f)
    BY DEF ResultsStep
  <2> HIDE DEF f
  <2> QED
    BY <2>1
<1>2. ASSUME NEW k \in Nat, Solved(k)
      PROVE  Solved(k + 1)
  <2>1. PICK f : f = ResultsStep(r, c, l, t, k, f)
    BY <1>2
  <2> DEFINE h == [i \in 0 .. k + 1 |-> IF i = k + 1 THEN J(f[k], k + 1) ELSE f[i]]
  <2>2. \A i \in 0 .. k : h[i] = f[i]
    OBVIOUS
  <2>3. \A i \in 0 .. k : f[i] = IF i = 0 THEN <<>> ELSE J(f[i - 1], i)
    BY <2>1 DEF ResultsStep
  <2>4. \A i \in 0 .. k + 1 : h[i] = IF i = 0 THEN <<>> ELSE J(h[i - 1], i)
    <3> SUFFICES ASSUME NEW i \in 0 .. k + 1
                 PROVE  h[i] = IF i = 0 THEN <<>> ELSE J(h[i - 1], i)
      OBVIOUS
    <3> HIDE DEF J
    <3>1. CASE i = 0
      BY <2>2, <2>3, <3>1
    <3>2. CASE i \in 1 .. k
      <4>1. i \in 0 .. k /\ i - 1 \in 0 .. k /\ i # 0
        BY <3>2
      <4>2. h[i - 1] = f[i - 1] /\ h[i] = f[i]
        BY <2>2, <4>1
      <4> HIDE DEF h
      <4> QED
        BY <2>3, <4>1, <4>2
    <3>3. CASE i = k + 1
      <4>1. i - 1 = k /\ k \in 0 .. k /\ i # 0
        BY <3>3
      <4>2. h[i] = J(f[k], k + 1) /\ h[i - 1] = f[k]
        BY <2>2, <3>3, <4>1
      <4> HIDE DEF h
      <4> QED
        BY <3>3, <4>1, <4>2
    <3> QED
      BY <3>1, <3>2, <3>3
  <2>5. DOMAIN h = 0 .. k + 1 /\ h = [i \in 0 .. k + 1 |-> h[i]]
    OBVIOUS
  <2> HIDE DEF h
  <2>6. h = ResultsStep(r, c, l, t, k + 1, h)
    BY <2>4, <2>5 DEF ResultsStep
  <2> QED
    BY <2>6
<1>3. bad = {}
  <2> SUFFICES ASSUME bad # {}
               PROVE  FALSE
    OBVIOUS
  <2> HIDE DEF Solved
  <2>1. bad \in SUBSET Nat
    OBVIOUS
  <2>2. PICK k \in bad : \A m \in bad : k <= m
    BY <2>1, LeastNatural
  <2>3. k # 0
    BY <1>1
  <2>4. k - 1 \in Nat /\ k - 1 \notin bad
    BY <2>2, <2>3
  <2>5. Solved(k - 1 + 1)
    BY <1>2, <2>4
  <2>6. k - 1 + 1 = k
    OBVIOUS
  <2> QED
    BY <2>5, <2>6
<1> QED
  BY <1>3

LEMMA ResultsValue ==
  ASSUME NEW r, NEW c, NEW l, NEW t, Len(r) \in Nat
  PROVE  ResultsOf(r, c, l, t) = ResultsStep(r, c, l, t, Len(r), ResultsOf(r, c, l, t))
<1> DEFINE Sol == CHOOSE f : f = ResultsStep(r, c, l, t, Len(r), f)
<1>1. Sol = ResultsStep(r, c, l, t, Len(r), Sol)
  BY ResultsExist
<1>2. ResultsOf(r, c, l, t) = Sol
  BY DEF ResultsOf, ResultsStep, Joined
<1> HIDE DEF Sol
<1> QED
  BY <1>1, <1>2

\* The ledger never blocks.
LEMMA LedgerNeverBlocks ==
  ASSUME NEW c, NEW prior, NEW l
  PROVE  META(c, prior, l).status \notin Blocking
<1> DEFINE bases == Bases(c, prior, l)
           keys == {"trace_gap", "parallel_convergence", "narrative_occlusion",
                    "bounded_audit", "causal_succession"}
<1>1. \A g : TraceGap(c, g).status \in {"PASS", "WARNING", "HIGH_RISK"}
  BY DEF TraceGap, Base
<1>2. \A bad, reason : Measure(bad, reason).status \in {"PASS", "WARNING"}
  BY DEF Measure, Base
<1>3. DOMAIN bases = keys
  BY DEF Bases
<1>4. \A k \in keys : bases[k].status \in {"PASS", "WARNING", "HIGH_RISK"}
  <2>1. bases.trace_gap.status \in {"PASS", "WARNING", "HIGH_RISK"}
    BY <1>1 DEF Bases
  <2>2. /\ bases.parallel_convergence.status \in {"PASS", "WARNING"}
        /\ bases.narrative_occlusion.status \in {"PASS", "WARNING"}
        /\ bases.bounded_audit.status \in {"PASS", "WARNING"}
        /\ bases.causal_succession.status \in {"PASS", "WARNING"}
    BY <1>2 DEF Bases
  <2> HIDE DEF bases
  <2> QED
    BY <2>1, <2>2
<1> HIDE DEF bases, keys
<1> DEFINE status ==
      CASE BasesAt(bases, "HIGH_RISK") # {} -> "HIGH_RISK"
        [] BasesAt(bases, "HIGH_RISK") = {} /\ BasesAt(bases, "WARNING") # {} -> "WARNING"
        [] BasesAt(bases, "PASS") = DOMAIN bases -> "PASS"
<1>5. META(c, prior, l).status = status
  BY DEF META, Result, bases
<1>6. \/ BasesAt(bases, "HIGH_RISK") # {}
      \/ BasesAt(bases, "HIGH_RISK") = {} /\ BasesAt(bases, "WARNING") # {}
      \/ BasesAt(bases, "PASS") = DOMAIN bases
  BY <1>3, <1>4 DEF BasesAt
<1>7. status \in {"HIGH_RISK", "WARNING", "PASS"}
  BY <1>6
<1> QED
  BY <1>5, <1>7 DEF Blocking

\* What an audit holds before STATE: each operator's result depends on the
\* context alone, but for the ledger, which never blocks.
PriorSound(p, c, l, t) ==
  /\ DOMAIN p \subseteq Names \ {"STATE"}
  /\ \A n \in DOMAIN p \ {"META"} : p[n] = Analyze(n, c, <<>>, l, t)
  /\ "META" \in DOMAIN p => p["META"].status \notin Blocking

LEMMA ExtendedSound ==
  ASSUME NEW p, NEW c, NEW l, NEW t, PriorSound(p, c, l, t), NEW n \in Names \ {"STATE"}
  PROVE  PriorSound(Extended(p, n, c, l, t), c, l, t)
<1> DEFINE q == Extended(p, n, c, l, t)
<1>1. /\ DOMAIN q = DOMAIN p \cup {n}
      /\ q[n] = Analyze(n, c, p, l, t)
      /\ \A m \in DOMAIN p \ {n} : q[m] = p[m]
  BY DEF Extended
<1>2. n # "META" => Analyze(n, c, p, l, t) = Analyze(n, c, <<>>, l, t)
  BY NamesListed DEF Analyze
<1>3. n = "META" => Analyze(n, c, p, l, t) = META(c, DOMAIN p, l)
  BY DEF Analyze
<1> HIDE DEF q
<1>4. DOMAIN q \subseteq Names \ {"STATE"}
  BY <1>1 DEF PriorSound
<1>5. \A m \in DOMAIN q \ {"META"} : q[m] = Analyze(m, c, <<>>, l, t)
  BY <1>1, <1>2 DEF PriorSound
<1>6. "META" \in DOMAIN q => q["META"].status \notin Blocking
  BY <1>1, <1>3, LedgerNeverBlocks DEF PriorSound
<1>7. PriorSound(q, c, l, t)
  BY <1>4, <1>5, <1>6 DEF PriorSound
<1> QED
  BY <1>7 DEF q

LEMMA ResultsAreSound ==
  ASSUME NEW r \in Seq(Names), NEW c, NEW l, NEW t
  PROVE  PriorSound(ResultsOf(r, c, l, t)[Len(r)], c, l, t)
<1>1. PICK f : f = ResultsOf(r, c, l, t)
  OBVIOUS
<1>2. Len(r) \in Nat /\ DOMAIN r = 1 .. Len(r)
  OBVIOUS
<1>3. f = ResultsStep(r, c, l, t, Len(r), f)
  BY <1>1, <1>2, ResultsValue
<1>4. \A k \in 0 .. Len(r) : f[k] = IF k = 0 THEN <<>> ELSE Joined(r, c, l, t, f[k - 1], k)
  BY <1>3 DEF ResultsStep
<1> DEFINE bad == {k \in Nat : k <= Len(r) /\ ~ PriorSound(f[k], c, l, t)}
<1>5. bad = {}
  <2> SUFFICES ASSUME bad # {}
               PROVE  FALSE
    OBVIOUS
  <2>1. \E k \in bad : \A i \in bad : k <= i
    <3>1. bad \in SUBSET Nat
      OBVIOUS
    <3> HIDE DEF bad
    <3> QED
      BY <3>1, LeastNatural
  <2>2. PICK k \in bad : \A i \in bad : k <= i
    BY <2>1
  <2>3. k \in 0 .. Len(r) /\ ~ PriorSound(f[k], c, l, t)
    BY <1>2
  <2>4. k # 0
    <3>1. DOMAIN <<>> = {}
      OBVIOUS
    <3>2. f[0] = <<>>
      BY <1>2, <1>4
    <3>3. PriorSound(<<>>, c, l, t)
      BY <3>1 DEF PriorSound
    <3> QED
      BY <2>3, <3>2, <3>3
  <2>5. k - 1 \in Nat /\ k - 1 <= Len(r) /\ k - 1 \notin bad
    BY <1>2, <2>2, <2>3, <2>4
  <2>6. PriorSound(f[k - 1], c, l, t)
    BY <2>5
  <2>7. f[k] = Joined(r, c, l, t, f[k - 1], k)
    BY <1>4, <2>3, <2>4
  <2>8. r[k] \in Names
    BY <1>2, <2>3, <2>4
  <2>9. CASE r[k] = "STATE"
    BY <2>3, <2>6, <2>7, <2>9 DEF Joined
  <2>10. CASE r[k] # "STATE"
    BY <2>3, <2>6, <2>7, <2>8, <2>10, ExtendedSound DEF Joined
  <2> QED
    BY <2>9, <2>10
<1> QED
  BY <1>1, <1>2, <1>5

------------------------------------------------------------------------------
(***************************************************************************)
(* A halt and its findings                                                 *)
(***************************************************************************)

\* The causal chain has no status, and reports its checks.
LEMMA ChainResult ==
  ASSUME NEW c
  PROVE  CCS(c).status = None /\ CCS(c).detail[1] = Checks(c)
<1> DEFINE detail == <<Checks(c), c.decision, Len(c.branches), Len(c.assumptions)>>
           r == [status |-> None, reason |-> None, pass |-> ChecksAt(c, "HALT") = {},
                 halts |-> 0, detail |-> detail]
<1>1. CCS(c) = [r EXCEPT !.halts = Cardinality(ChecksAt(c, "HALT"))]
  BY DEF CCS, Result
<1>2. r.status = None /\ r.detail = detail
  OBVIOUS
<1>3. detail[1] = Checks(c)
  OBVIOUS
<1>4. \A h : [r EXCEPT !.halts = h].status = r.status /\ [r EXCEPT !.halts = h].detail = r.detail
  <2> HIDE DEF detail
  <2> QED
    OBVIOUS
<1> HIDE DEF r, detail
<1> QED
  BY <1>1, <1>2, <1>3, <1>4

\* An audit of a context without facts to check.
LEMMA HaltHasFinding ==
  ASSUME NEW p, NEW c, NEW l, NEW t, PriorSound(p, c, l, t),
         NEW a, a = Extended(p, "STATE", c, l, t),
         ToSet(BaseOperators) \subseteq DOMAIN a,
         c.facts = {}, ~ c.verify,
         Halts(c, p) # {}
  PROVE  \E f \in TranslateFindings(a) : f.severity = "ERROR"
<1>1. DOMAIN a = DOMAIN p \cup {"STATE"} /\ \A n \in DOMAIN p \ {"STATE"} : a[n] = p[n]
  BY DEF Extended
<1>2. \A n \in DOMAIN p : n # "STATE" /\ n \in Names
  BY DEF PriorSound
<1>3. \A n \in {"NS", "IAP", "LCH", "TPG", "BFC", "CCS"} :
        n \in DOMAIN p /\ a[n] = Analyze(n, c, <<>>, l, t)
  BY <1>1, <1>2, NamesListed DEF PriorSound
<1>4. /\ a["NS"] = NS(c) /\ a["IAP"] = IAP(c) /\ a["LCH"] = LCH(c)
      /\ a["TPG"] = TPG(c) /\ a["BFC"] = BFC(c) /\ a["CCS"] = CCS(c)
  BY <1>3 DEF Analyze
<1>5. SeverityOf("HALT") = "ERROR"
  BY DEF SeverityOf
<1>6. CASE \E f \in Flags(c) : f \in HaltFlags
  <2>1. PICK f \in Flags(c) : f \in HaltFlags
    BY <1>6
  <2>2. a["IAP"].detail = Flags(c)
    BY <1>4 DEF IAP, Result
  <2>3. Finding(<<"IAP", f>>, "ERROR") \in ScannerFindings(a)
    BY <1>5, <2>1, <2>2 DEF ScannerFindings
  <2> QED
    BY <2>3 DEF TranslateFindings, Finding
<1>7. CASE SystemDeltaD(c) >= 70
  <2>1. a["LCH"].detail.delta = SystemDeltaD(c) /\ a["LCH"].detail.report[1] = c.assumptions
    BY <1>4 DEF LCH, Result
  <2>2. PICK i \in DOMAIN c.assumptions : TRUE
    <3> SUFFICES ASSUME DOMAIN c.assumptions = {}
                 PROVE  FALSE
      OBVIOUS
    <3>1. SystemDeltaD(c) = Max({0})
      BY DEF SystemDeltaD
    <3>2. Max({0}) = 0
      BY DEF Max
    <3> QED
      BY <1>7, <3>1, <3>2
  <2> DEFINE d == a["LCH"].detail
             severity == CASE d.delta >= 70 -> "ERROR"
                           [] d.delta >= 40 /\ ~ (d.delta >= 70) -> "WARNING"
                           [] OTHER -> "INFO"
  <2>4. severity = "ERROR"
    BY <1>7, <2>1
  <2>5. Finding(<<"LCH", "weakest">>, severity) \in LatchFindings(a)
    <3>1. LatchFindings(a) =
            {Finding(<<"LCH", "weakest">>, severity) : j \in DOMAIN d.report[1]}
            \cup {Finding(<<"LCH", "incomplete">>, "ERROR") : x \in {FALSE} \cap {d.covered}}
      BY DEF LatchFindings
    <3> HIDE DEF severity
    <3> QED
      BY <2>1, <2>2, <3>1
  <2>3. Finding(<<"LCH", "weakest">>, "ERROR") \in LatchFindings(a)
    BY <2>4, <2>5
  <2> QED
    BY <2>3 DEF TranslateFindings, Finding
<1>8. CASE ChecksAt(c, "HALT") # {}
  <2>1. PICK k \in DOMAIN Checks(c) : Checks(c)[k] = "HALT"
    BY <1>8 DEF ChecksAt
  <2>2. a["CCS"].detail[1] = Checks(c)
    BY <1>4, ChainResult
  <2>3. Finding(<<"CCS", k>>, "ERROR") \in ChainFindings(a)
    BY <1>5, <2>1, <2>2 DEF ChainFindings
  <2> QED
    BY <2>3 DEF TranslateFindings, Finding
<1>9. CASE \E n \in DOMAIN p : p[n].status \in Blocking
  <2>1. PICK n \in DOMAIN p : p[n].status \in Blocking
    BY <1>9
  <2>2. n # "META"
    BY <2>1 DEF PriorSound
  <2>3. None \notin Blocking
    BY NoneAssumption DEF Blocking
  <2>4. n \notin {"NS", "IAP", "LCH"}
    BY <1>1, <1>2, <1>4, <2>1, <2>3 DEF NS, IAP, LCH, Result
  <2>5. n # "CCS"
    BY <1>1, <1>2, <1>4, <2>1, <2>3, ChainResult
  <2>6. n # "BFC"
    <3>1. BFC(c).status = "SKIPPED"
      BY DEF BFC, Result
    <3> QED
      BY <1>1, <1>2, <1>4, <2>1, <3>1 DEF Blocking
  <2>7. CASE n = "TPG"
    <3>1. TPG(c).status \in Blocking
      BY <1>1, <1>2, <1>4, <2>1, <2>7
    <3>2. FatalIssues(Topology(c)) # {}
      BY <3>1 DEF TPG, Result, Blocking
    <3>3. a["TPG"].detail.fatal = FatalIssues(Topology(c))
      BY <1>4 DEF TPG, Result
    <3>4. PICK x \in FatalIssues(Topology(c)) : TRUE
      BY <3>2
    <3>5. Finding(<<"TPG", x>>, "ERROR") \in TopologyFindings(a)
      BY <3>3, <3>4 DEF TopologyFindings
    <3> QED
      BY <3>5 DEF TranslateFindings, Finding
  <2>8. CASE n \in {"ORI", "GRF"}
    <3>1. n \in DOMAIN a /\ a[n].status \in Blocking
      BY <1>1, <1>2, <2>1
    <3>2. a[n].status = "BLOCKED"
      <4>1. a[n] = Analyze(n, c, <<>>, l, t)
        BY <1>1, <1>2, <2>2 DEF PriorSound
      <4>2. CASE n = "ORI"
        <5>1. a[n] = ORI(c)
          BY <4>1, <4>2 DEF Analyze
        <5>2. ORI(c).status # "CRITICAL"
          BY DEF ORI, Result
        <5> QED
          BY <3>1, <5>1, <5>2 DEF Blocking
      <4>3. CASE n = "GRF"
        <5>1. a[n] = GRF(c)
          BY <4>1, <4>3 DEF Analyze
        <5>2. GRF(c).status # "CRITICAL"
          BY DEF GRF, Result
        <5> QED
          BY <3>1, <5>1, <5>2 DEF Blocking
      <4> QED
        BY <2>8, <4>2, <4>3
    <3>3. Finding(<<n, a[n].reason>>, "ERROR") \in StatusFindings(a)
      BY <2>8, <3>1, <3>2 DEF StatusFindings
    <3> QED
      BY <3>3 DEF TranslateFindings, Finding
  <2> QED
    BY <1>2, <2>2, <2>4, <2>5, <2>6, <2>7, <2>8, NamesListed
<1> QED
  <2>1. PICK h : h \in Halts(c, p)
    OBVIOUS
  <2> QED
    BY <1>6, <1>7, <1>8, <1>9, <2>1 DEF Halts, HaltsOfFour

\* The inductive invariant: what was analysed is the call's context as it
\* is, by the engine's operators.
AuditInv ==
  /\ registered \in OperatorSets
  /\ pc = "idle" => analysis = NothingAudited
  /\ \/ analysis = NothingAudited
     \/ \E l, t : analysis = Audit(registered, context, l, t)

LEMMA AuditInvariant == Spec => []AuditInv
<1>1. Init => AuditInv
  BY DEF Init, AuditInv
<1>2. AuditInv /\ [Next]_vars => AuditInv'
  <2> SUFFICES ASSUME AuditInv, [Next]_vars
               PROVE  AuditInv'
    OBVIOUS
  <2>1. ASSUME NEW call \in Calls, Evolve(call)
        PROVE  AuditInv'
    BY <2>1 DEF Evolve, engineVars, AuditInv
  <2>2. CASE RunOutOfEnergy \/ RefuseEmptyDelta \/ AwaitHuman
    <3>1. pc' = "scan" /\ UNCHANGED <<registered, analysis, context>>
      BY <2>2 DEF RunOutOfEnergy, RefuseEmptyDelta, AwaitHuman, Stop
    <3> QED
      BY <3>1 DEF AuditInv
  <2>3. CASE RunLayer
    <3>1. /\ analysis' = Audit(registered', context', Max({1, Len(layers)}), second')
          /\ UNCHANGED registered
      BY <2>3 DEF RunLayer
    <3>2. pc' # "idle"
      BY <2>3 DEF RunLayer
    <3> QED
      BY <3>1, <3>2 DEF AuditInv
  <2>4. CASE RaiseInAudit \/ Scan
    BY <2>4 DEF RaiseInAudit, Scan, Return, AuditInv
  <2>5. ASSUME NEW q \in proposed \cup {OtherProposal}, Approve(q)
        PROVE  AuditInv'
    BY <2>5 DEF Approve, callVars, AuditInv
  <2>6. CASE UNCHANGED vars
    BY <2>6 DEF vars, engineVars, callVars, AuditInv
  <2> QED
    BY <2>1, <2>2, <2>3, <2>4, <2>5, <2>6 DEF Next
<1> QED
  BY <1>1, <1>2, PTL DEF Spec

\* A halted audit leaves an error among the hub's findings, whatever halted
\* it (adapter.py:461-465, state.py:90-178).
THEOREM HaltTheorem == Spec => []HaltLeavesError
<1>1. AuditInv => HaltLeavesError
  <2> SUFFICES ASSUME AuditInv,
                      ToSet(BaseOperators) \subseteq DOMAIN analysis,
                      context.facts = {}, ~ context.verify,
                      analysis["STATE"].detail.level = "AUDIT_HALT"
               PROVE  \E f \in TranslateFindings(analysis) : f.severity = "ERROR"
    BY DEF HaltLeavesError
  <2>1. "STATE" \in DOMAIN analysis
    BY NamesListed
  <2>2. analysis # NothingAudited
    <3>1. DOMAIN NothingAudited = {}
      BY DEF NothingAudited
    <3> QED
      BY <2>1, <3>1
  <2>3. PICK l, t : analysis = Audit(registered, context, l, t)
    BY <2>2 DEF AuditInv
  <2>4. registered \in Seq(Names)
    BY EngineAssumption DEF AuditInv, Names
  <2>5. PICK p : p = ResultsOf(registered, context, l, t)[Len(registered)]
    OBVIOUS
  <2>6. PriorSound(p, context, l, t)
    BY <2>4, <2>5, ResultsAreSound
  <2>7. analysis = Extended(p, "STATE", context, l, t)
    <3>1. \/ analysis = Extended(p, "STATE", context, l, t)
          \/ analysis = p
      BY <2>3, <2>5 DEF Audit
    <3>2. "STATE" \notin DOMAIN p
      BY <2>6 DEF PriorSound
    <3> QED
      BY <2>1, <3>1, <3>2
  <2>8. analysis["STATE"] = StateAnchor(context, p, t)
    BY <2>7 DEF Extended, Analyze
  <2>9. Level(context, p) = "AUDIT_HALT"
    BY <2>8 DEF StateAnchor, Result
  <2>10. Halts(context, p) # {}
    BY <2>9 DEF Level
  <2> QED
    BY <2>6, <2>7, <2>10, HaltHasFinding
<1> QED
  BY <1>1, AuditInvariant, PTL

------------------------------------------------------------------------------
(***************************************************************************)
(* The order of a graph                                                    *)
(***************************************************************************)

\* The recursion of Rounds, as an equation.
RoundsStep(g, n, f) ==
  [k \in 0 .. n |-> IF k = 0 THEN {} ELSE Released(g, f[k - 1])]

LEMMA RoundsExist ==
  ASSUME NEW g, NEW n \in Nat
  PROVE  \E f : f = RoundsStep(g, n, f)
<1> DEFINE J(p) == Released(g, p)
           Solved(k) == \E f : f = RoundsStep(g, k, f)
           bad == {k \in Nat : ~ Solved(k)}
<1>1. Solved(0)
  <2> DEFINE f == [i \in 0 .. 0 |-> {}]
  <2>1. f = RoundsStep(g, 0, f)
    BY DEF RoundsStep
  <2> HIDE DEF f
  <2> QED
    BY <2>1
<1>2. ASSUME NEW k \in Nat, Solved(k)
      PROVE  Solved(k + 1)
  <2>1. PICK f : f = RoundsStep(g, k, f)
    BY <1>2
  <2> DEFINE h == [i \in 0 .. k + 1 |-> IF i = k + 1 THEN J(f[k]) ELSE f[i]]
  <2>2. \A i \in 0 .. k : h[i] = f[i]
    OBVIOUS
  <2>3. \A i \in 0 .. k : f[i] = IF i = 0 THEN {} ELSE J(f[i - 1])
    BY <2>1 DEF RoundsStep
  <2>4. \A i \in 0 .. k + 1 : h[i] = IF i = 0 THEN {} ELSE J(h[i - 1])
    <3> SUFFICES ASSUME NEW i \in 0 .. k + 1
                 PROVE  h[i] = IF i = 0 THEN {} ELSE J(h[i - 1])
      OBVIOUS
    <3> HIDE DEF J
    <3>1. CASE i = 0
      BY <2>2, <2>3, <3>1
    <3>2. CASE i \in 1 .. k
      <4>1. i \in 0 .. k /\ i - 1 \in 0 .. k /\ i # 0
        BY <3>2
      <4>2. h[i - 1] = f[i - 1] /\ h[i] = f[i]
        BY <2>2, <4>1
      <4> HIDE DEF h
      <4> QED
        BY <2>3, <4>1, <4>2
    <3>3. CASE i = k + 1
      <4>1. i - 1 = k /\ k \in 0 .. k /\ i # 0
        BY <3>3
      <4>2. h[i] = J(f[k]) /\ h[i - 1] = f[k]
        BY <2>2, <3>3, <4>1
      <4> HIDE DEF h
      <4> QED
        BY <3>3, <4>1, <4>2
    <3> QED
      BY <3>1, <3>2, <3>3
  <2>5. DOMAIN h = 0 .. k + 1 /\ h = [i \in 0 .. k + 1 |-> h[i]]
    OBVIOUS
  <2> HIDE DEF h
  <2>6. h = RoundsStep(g, k + 1, h)
    BY <2>4, <2>5 DEF RoundsStep
  <2> QED
    BY <2>6
<1>3. bad = {}
  <2> SUFFICES ASSUME bad # {}
               PROVE  FALSE
    OBVIOUS
  <2> HIDE DEF Solved
  <2>1. bad \in SUBSET Nat
    OBVIOUS
  <2>2. PICK k \in bad : \A m \in bad : k <= m
    BY <2>1, LeastNatural
  <2>3. k # 0
    BY <1>1
  <2>4. k - 1 \in Nat /\ k - 1 \notin bad
    BY <2>2, <2>3
  <2>5. Solved(k - 1 + 1)
    BY <1>2, <2>4
  <2>6. k - 1 + 1 = k
    OBVIOUS
  <2> QED
    BY <2>5, <2>6
<1> QED
  BY <1>3

\* The rounds of a graph with N nodes.
RoundsAre(g, N, R) ==
  /\ N \in Nat /\ N = Cardinality(g.nodes)
  /\ R[0] = {}
  /\ \A k \in Nat : k < N => R[k + 1] = Released(g, R[k])

LEMMA RoundsValue ==
  ASSUME NEW g, IsGraph(g)
  PROVE  RoundsAre(g, Cardinality(g.nodes), Rounds(g))
<1> DEFINE N == Cardinality(g.nodes)
           Sol == CHOOSE f : f = RoundsStep(g, N, f)
<1>1. N \in Nat
  BY FS_CardinalityType DEF IsGraph
<1>2. Rounds(g) = Sol
  BY DEF Rounds, RoundsStep
<1>3. Sol = RoundsStep(g, N, Sol)
  <2> HIDE DEF N
  <2> QED
    BY <1>1, RoundsExist
<1> HIDE DEF Sol, N
<1>4. PICK R : R = Rounds(g)
  OBVIOUS
<1>5. R = RoundsStep(g, N, R)
  BY <1>2, <1>3, <1>4
<1>6. R[0] = {}
  BY <1>1, <1>5 DEF RoundsStep
<1>7. ASSUME NEW k \in Nat, k < N
      PROVE  R[k + 1] = Released(g, R[k])
  <2>1. k + 1 \in 0 .. N /\ k + 1 # 0 /\ k + 1 - 1 = k
    BY <1>1, <1>7
  <2>2. \A i \in 0 .. N : R[i] = IF i = 0 THEN {} ELSE Released(g, R[i - 1])
    BY <1>5 DEF RoundsStep
  <2>3. PICK i \in 0 .. N : i = k + 1 /\ i # 0 /\ i - 1 = k
    BY <2>1
  <2>4. R[i] = Released(g, R[i - 1])
    BY <2>2, <2>3
  <2> QED
    BY <2>3, <2>4
<1> QED
  BY <1>1, <1>4, <1>6, <1>7 DEF RoundsAre, N

\* The rounds lose nothing.
LEMMA RoundsGrow ==
  ASSUME NEW g, NEW N, NEW R, RoundsAre(g, N, R)
  PROVE  \A k \in Nat : k < N => R[k] \subseteq R[k + 1]
<1> DEFINE bad == {k \in Nat : k < N /\ ~ (R[k] \subseteq R[k + 1])}
<1>1. bad = {}
  <2> SUFFICES ASSUME bad # {}
               PROVE  FALSE
    OBVIOUS
  <2>1. \E k \in bad : \A m \in bad : k <= m
    <3>1. bad \in SUBSET Nat
      OBVIOUS
    <3> HIDE DEF bad
    <3> QED
      BY <3>1, LeastNatural
  <2>2. PICK k \in bad : \A m \in bad : k <= m
    BY <2>1
  <2>3. k # 0
    BY DEF RoundsAre
  <2>4. k - 1 \in Nat /\ k - 1 < N /\ k - 1 \notin bad
    BY <2>2, <2>3 DEF RoundsAre
  <2>5. R[k - 1] \subseteq R[k - 1 + 1] /\ k - 1 + 1 = k
    BY <2>4
  <2>6. R[k - 1 + 1] = Released(g, R[k - 1]) /\ R[k + 1] = Released(g, R[k])
    BY <2>4 DEF RoundsAre
  <2> QED
    BY <2>5, <2>6 DEF Released
<1> QED
  BY <1>1

LEMMA RoundsMonotone ==
  ASSUME NEW g, NEW N, NEW R, RoundsAre(g, N, R), NEW j \in Nat
  PROVE  \A k \in Nat : j <= k /\ k <= N => R[j] \subseteq R[k]
<1> DEFINE bad == {k \in Nat : j <= k /\ k <= N /\ ~ (R[j] \subseteq R[k])}
<1>1. bad = {}
  <2> SUFFICES ASSUME bad # {}
               PROVE  FALSE
    OBVIOUS
  <2>1. \E k \in bad : \A m \in bad : k <= m
    <3>1. bad \in SUBSET Nat
      OBVIOUS
    <3> HIDE DEF bad
    <3> QED
      BY <3>1, LeastNatural
  <2>2. PICK k \in bad : \A m \in bad : k <= m
    BY <2>1
  <2>3. k # j
    OBVIOUS
  <2>4. k - 1 \in Nat /\ k - 1 < N /\ j <= k - 1 /\ k - 1 \notin bad
    BY <2>2, <2>3 DEF RoundsAre
  <2>5. R[j] \subseteq R[k - 1]
    BY <2>4 DEF RoundsAre
  <2>6. R[k - 1] \subseteq R[k - 1 + 1] /\ k - 1 + 1 = k
    BY <2>4, RoundsGrow
  <2> QED
    BY <2>5, <2>6
<1> QED
  BY <1>1

\* Every round visits nodes.
LEMMA RoundsVisitNodes ==
  ASSUME NEW g, NEW N, NEW R, RoundsAre(g, N, R), NEW k \in Nat, k <= N
  PROVE  R[k] \subseteq g.nodes
<1>1. CASE k = 0
  BY <1>1 DEF RoundsAre
<1>2. CASE k # 0
  <2>1. k - 1 \in Nat /\ k - 1 < N /\ k - 1 + 1 = k
    BY <1>2 DEF RoundsAre
  <2> QED
    BY <2>1 DEF RoundsAre, Released
<1> QED
  BY <1>1, <1>2

\* After as many rounds as there are nodes, one more would visit nothing:
\* until then each one visits another node or none ever will.
LEMMA RoundsClosed ==
  ASSUME NEW g, IsGraph(g), NEW N, NEW R, RoundsAre(g, N, R)
  PROVE  Released(g, R[N]) \subseteq R[N]
<1> DEFINE Closed(k) == Released(g, R[k]) \subseteq R[k]
           bad == {k \in Nat : k <= N /\ ~ Closed(k) /\ ~ (Cardinality(R[k]) >= k)}
<1>1. N \in Nat /\ N = Cardinality(g.nodes) /\ IsFiniteSet(g.nodes)
  BY DEF RoundsAre, IsGraph
<1>2. \A k \in Nat : k <= N =>
        IsFiniteSet(R[k]) /\ Cardinality(R[k]) \in Nat /\ R[k] \subseteq g.nodes
  <2> SUFFICES ASSUME NEW k \in Nat, k <= N
               PROVE  IsFiniteSet(R[k]) /\ Cardinality(R[k]) \in Nat /\ R[k] \subseteq g.nodes
    OBVIOUS
  <2>1. R[k] \in SUBSET g.nodes
    BY RoundsVisitNodes
  <2> QED
    BY <1>1, <2>1, FS_Subset, FS_CardinalityType
<1>3. bad = {}
  <2> SUFFICES ASSUME bad # {}
               PROVE  FALSE
    OBVIOUS
  <2>1. \E k \in bad : \A m \in bad : k <= m
    <3>1. bad \in SUBSET Nat
      OBVIOUS
    <3> HIDE DEF bad
    <3> QED
      BY <3>1, LeastNatural
  <2>2. PICK k \in bad : \A m \in bad : k <= m
    BY <2>1
  <2>3. k # 0
    BY <1>1, <1>2
  <2>4. k - 1 \in Nat /\ k - 1 < N /\ k - 1 <= N /\ k - 1 \notin bad /\ k - 1 + 1 = k
    BY <1>1, <2>2, <2>3
  <2>5. PICK j \in Nat : j = k - 1
    BY <2>4
  <2>6. R[k] = Released(g, R[j]) /\ R[j] \subseteq R[k] /\ k = j + 1 /\ j < N /\ j <= N
    BY <2>4, <2>5, RoundsGrow DEF RoundsAre
  <2>7. Closed(j) \/ Cardinality(R[j]) >= j
    BY <2>4, <2>5
  <2>8. ~ Closed(k) /\ ~ (Cardinality(R[k]) >= k)
    OBVIOUS
  <2>9. CASE Closed(j)
    <3>1. R[k] = R[j]
      BY <2>6, <2>9
    <3> QED
      BY <2>8, <2>9, <3>1
  <2>10. CASE ~ Closed(j)
    <3>1. R[k] # R[j]
      BY <2>6, <2>10
    <3>2. Cardinality(R[j]) <= Cardinality(R[k]) /\ Cardinality(R[j]) # Cardinality(R[k])
      <4>1. IsFiniteSet(R[k]) /\ R[j] \in SUBSET R[k]
        BY <1>2, <2>6
      <4> QED
        BY <3>1, <4>1, FS_Subset
    <3>3. Cardinality(R[j]) \in Nat /\ Cardinality(R[k]) \in Nat
      BY <1>2, <2>6
    <3> QED
      BY <2>6, <2>7, <2>8, <2>10, <3>2, <3>3
  <2> QED
    BY <2>9, <2>10
<1>4. Closed(N) \/ Cardinality(R[N]) >= N
  BY <1>1, <1>3
<1>5. CASE Cardinality(R[N]) >= N
  <2>1. R[N] \in SUBSET g.nodes /\ Cardinality(R[N]) \in Nat
    BY <1>1, <1>2
  <2>2. Cardinality(R[N]) <= N /\ (Cardinality(g.nodes) = Cardinality(R[N]) => g.nodes = R[N])
    BY <1>1, <2>1, FS_Subset
  <2>3. R[N] = g.nodes
    BY <1>1, <1>5, <2>1, <2>2
  <2> QED
    BY <2>3 DEF Released
<1> QED
  BY <1>4, <1>5

\* What has no time has a cause without one.
LEMMA UnassignableLoops ==
  ASSUME NEW g, IsGraph(g), NEW n \in Unassignable(g)
  PROVE  Causes(g, n) \cap Unassignable(g) # {}
<1>1. RoundsAre(g, Cardinality(g.nodes), Rounds(g))
  BY RoundsValue
<1>2. Released(g, Assigned(g)) \subseteq Assigned(g)
  BY <1>1, RoundsClosed DEF Assigned
<1>3. n \in g.nodes /\ n \notin Released(g, Assigned(g))
  BY <1>2 DEF Unassignable
<1>4. PICK c \in Causes(g, n) : c \notin Assigned(g)
  BY <1>3 DEF Released
<1>5. c \in g.nodes
  BY <1>4 DEF Causes, IsGraph
<1> QED
  BY <1>4, <1>5 DEF Unassignable

\* Nodes that each have a cause among themselves have no time.
LEMMA LoopsUnassignable ==
  ASSUME NEW g, IsGraph(g), NEW W \in SUBSET g.nodes,
         \A n \in W : Causes(g, n) \cap W # {}
  PROVE  W \subseteq Unassignable(g)
<1> DEFINE N == Cardinality(g.nodes)
           R == Rounds(g)
           bad == {k \in Nat : k <= N /\ R[k] \cap W # {}}
<1>1. RoundsAre(g, N, R)
  BY RoundsValue
<1> HIDE DEF N, R
<1>2. bad = {}
  <2> SUFFICES ASSUME bad # {}
               PROVE  FALSE
    OBVIOUS
  <2>1. \E k \in bad : \A m \in bad : k <= m
    <3>1. bad \in SUBSET Nat
      OBVIOUS
    <3> HIDE DEF bad
    <3> QED
      BY <3>1, LeastNatural
  <2>2. PICK k \in bad : \A m \in bad : k <= m
    BY <2>1
  <2>3. k # 0
    BY <1>1 DEF RoundsAre
  <2>4. k - 1 \in Nat /\ k - 1 < N /\ k - 1 <= N /\ k - 1 \notin bad /\ k - 1 + 1 = k
    BY <1>1, <2>2, <2>3 DEF RoundsAre
  <2>5. R[k] = Released(g, R[k - 1])
    BY <1>1, <2>4 DEF RoundsAre
  <2>6. PICK n \in W : n \in Released(g, R[k - 1])
    BY <2>5
  <2>7. PICK c \in W : c \in Causes(g, n)
    OBVIOUS
  <2>8. c \in R[k - 1]
    BY <2>6, <2>7 DEF Released
  <2> QED
    BY <2>4, <2>7, <2>8
<1>3. R[N] \cap W = {}
  BY <1>1, <1>2 DEF RoundsAre
<1> QED
  BY <1>3 DEF Unassignable, Assigned, R, N

\* Naturals up to a bound have a greatest among them.
LEMMA GreatestUpTo ==
  ASSUME NEW n \in Nat, NEW S \in SUBSET (0 .. n), S # {}
  PROVE  Max(S) \in S /\ \A x \in S : x <= Max(S)
<1> DEFINE T == {n - x : x \in S}
<1>1. T \in SUBSET Nat /\ T # {}
  <2>1. \A x \in S : x \in Nat /\ x <= n
    OBVIOUS
  <2>2. \A x \in S : n - x \in Nat
    BY <2>1
  <2> QED
    BY <2>2
<1>2. \E x \in T : \A y \in T : x <= y
  <2> HIDE DEF T
  <2> QED
    BY <1>1, LeastNatural
<1>3. PICK x \in S : \A y \in S : n - x <= n - y
  BY <1>2
<1>4. \A y \in S : x >= y
  BY <1>3
<1>5. \E m \in S : \A y \in S : m >= y
  BY <1>4
<1>6. PICK m : m = Max(S)
  OBVIOUS
<1>7. m \in S /\ \A y \in S : m >= y
  BY <1>5, <1>6 DEF Max
<1> QED
  BY <1>6, <1>7

\* A node is visited in its turn and not before.
LEMMA TurnIs ==
  ASSUME NEW g, NEW N, NEW R, RoundsAre(g, N, R), R = Rounds(g),
         NEW k \in Nat, k <= N, NEW n \in R[k]
  PROVE  /\ Turn(g, n) \in 1 .. k
         /\ n \in R[Turn(g, n)]
<1> DEFINE T == {i \in 0 .. N : n \in R[i]}
<1>1. N \in Nat /\ N = Cardinality(g.nodes) /\ R[0] = {}
  BY DEF RoundsAre
<1>2. Turn(g, n) = Min(T)
  BY <1>1 DEF Turn
<1>3. T \in SUBSET Nat /\ k \in T /\ 0 \notin T
  BY <1>1
<1>4. \E x \in T : \A y \in T : x <= y
  <2> HIDE DEF T
  <2> QED
    BY <1>3, LeastNatural
<1>5. PICK m : m = Min(T)
  OBVIOUS
<1>6. m \in T /\ \A y \in T : m <= y
  BY <1>4, <1>5 DEF Min
<1>7. m <= k /\ m # 0
  BY <1>3, <1>6
<1> QED
  BY <1>2, <1>5, <1>6, <1>7

\* When every node has a time, every edge goes forward in time: the time of
\* its source is below that of its target (topology.py:404-421).
THEOREM EdgesGoForward ==
  ASSUME NEW g, IsGraph(g), Unassignable(g) = {}, NEW e \in ToSet(g.edges)
  PROVE  TimeOrder(g)[e.src] < TimeOrder(g)[e.dst]
<1>1. PICK R : R = Rounds(g)
  OBVIOUS
<1>2. PICK N : N = Cardinality(g.nodes)
  OBVIOUS
<1>3. RoundsAre(g, N, R) /\ N \in Nat
  BY <1>1, <1>2, RoundsValue DEF RoundsAre
<1>4. Assigned(g) = R[N] /\ g.nodes \subseteq R[N]
  BY <1>1, <1>2 DEF Unassignable, Assigned
<1>5. e.src \in g.nodes /\ e.dst \in g.nodes /\ e.src \in Causes(g, e.dst)
  BY DEF ToSet, IsGraph, Causes
<1> DEFINE Times(n) == {0} \cup {Turn(g, c) : c \in Causes(g, n) \cap R[N]}
<1>6. ASSUME NEW n \in g.nodes
      PROVE  /\ TimeOrder(g)[n] = Max(Times(n))
             /\ Times(n) \in SUBSET (0 .. N)
  <2>1. TimeOrder(g)[n] = Max(Times(n))
    BY <1>4 DEF TimeOrder
  <2>2. \A c \in R[N] : Turn(g, c) \in 0 .. N
    BY <1>1, <1>3, TurnIs
  <2> QED
    BY <1>3, <2>1, <2>2
<1>7. PICK v : v = Turn(g, e.src)
  OBVIOUS
<1>8. v \in 1 .. N /\ e.src \in R[v]
  BY <1>1, <1>3, <1>4, <1>5, <1>7, TurnIs
<1>9. PICK u \in Nat : u = v - 1 /\ u < N /\ u <= N /\ v = u + 1
  BY <1>3, <1>8
<1>10. Causes(g, e.src) \subseteq R[u]
  BY <1>3, <1>8, <1>9 DEF RoundsAre, Released
<1>11. \A x \in Times(e.src) : x <= u
  <2>1. \A c \in R[u] : Turn(g, c) <= u
    BY <1>1, <1>3, <1>9, TurnIs
  <2> QED
    BY <1>9, <1>10, <2>1
<1>12. v \in Times(e.dst)
  BY <1>4, <1>5, <1>7
<1> HIDE DEF Times
<1>13. TimeOrder(g)[e.src] \in Times(e.src)
  <2>1. Times(e.src) # {}
    BY DEF Times
  <2> QED
    BY <1>3, <1>5, <1>6, <2>1, GreatestUpTo
<1>14. v <= TimeOrder(g)[e.dst] /\ TimeOrder(g)[e.dst] \in 0 .. N
  BY <1>3, <1>5, <1>6, <1>12, GreatestUpTo
<1> QED
  <2>1. TimeOrder(g)[e.src] <= u /\ TimeOrder(g)[e.src] \in 0 .. N
    BY <1>5, <1>6, <1>11, <1>13
  <2> QED
    BY <1>9, <1>14, <2>1

------------------------------------------------------------------------------
(***************************************************************************)
(* The depth-first search                                                  *)
(***************************************************************************)
Entries(g) == [node : g.nodes, left : SUBSET DOMAIN g.edges]

\* The stack q is a path of distinct nodes outside b, the nodes that were
\* left, each with edges out of it.
IsPath(g, q, b) ==
  /\ q \in Seq(Entries(g))
  /\ b \subseteq g.nodes
  /\ \A i \in DOMAIN q :
       q[i].left \subseteq Leaving(g, q[i].node) /\ q[i].node \notin b
  /\ \A i, j \in DOMAIN q : q[i].node = q[j].node => i = j
  /\ \A i, j \in DOMAIN q : j = i + 1 => q[i].node \in Causes(g, q[j].node)

\* What was left leads to what was left, the edges followed from the stack
\* lead there or to the next entry, and every set of nodes that were left has
\* one with no cause in the set.
Loopless(g, q, b) ==
  /\ \A i \in DOMAIN q : \A j \in Leaving(g, q[i].node) \ q[i].left :
       g.edges[j].dst \in b \/ (i + 1 \in DOMAIN q /\ g.edges[j].dst = q[i + 1].node)
  /\ \A n \in b : \A j \in Leaving(g, n) : g.edges[j].dst \in b
  /\ \A W \in SUBSET b : W # {} => \E n \in W : Causes(g, n) \cap W = {}

\* A cycle found is one, and as long as none is found none was met.
SearchInv(g, s) ==
  /\ s = Search(s.stack, s.black, s.cycles)
  /\ IsPath(g, s.stack, s.black)
  /\ s.cycles # {} => Unassignable(g) # {}
  /\ s.cycles = {} => Loopless(g, s.stack, s.black)

\* What a search has before it: nodes to enter, nodes to leave, edges to
\* follow.
On(q) == {q[i].node : i \in DOMAIN q}

ToEnter(g, q, b) == g.nodes \ (b \cup On(q))
ToLeave(g, b) == g.nodes \ b
ToFollow(g, q, b) ==
  {j \in DOMAIN g.edges :
     \/ g.edges[j].src \notin b \cup On(q)
     \/ \E i \in DOMAIN q : j \in q[i].left}

\* From q and b to p and c the search has less before it.
Advances(g, q, b, p, c) ==
  /\ ToEnter(g, p, c) \subseteq ToEnter(g, q, b)
  /\ ToLeave(g, c) \subseteq ToLeave(g, b)
  /\ ToFollow(g, p, c) \subseteq ToFollow(g, q, b)
  /\ \/ ToEnter(g, p, c) # ToEnter(g, q, b)
     \/ ToLeave(g, c) # ToLeave(g, b)
     \/ ToFollow(g, p, c) # ToFollow(g, q, b)

LEMMA OneEntry ==
  ASSUME NEW E, NEW e \in E
  PROVE  <<e>> \in Seq(E) /\ DOMAIN <<e>> = {1} /\ <<e>>[1] = e
<1>1. <<e>> \in Seq(E) /\ Len(<<e>>) = 1
  OBVIOUS
<1>2. DOMAIN <<e>> = 1 .. 1
  BY <1>1
<1> QED
  BY <1>1, <1>2

\* A root is entered.
LEMMA EnterRoot ==
  ASSUME NEW g, NEW b, NEW n \in g.nodes \ b, IsPath(g, <<>>, b)
  PROVE  /\ IsPath(g, <<Enter(g, n)>>, b)
         /\ Loopless(g, <<>>, b) => Loopless(g, <<Enter(g, n)>>, b)
         /\ Advances(g, <<>>, b, <<Enter(g, n)>>, b)
<1>1. PICK p : p = <<Enter(g, n)>>
  OBVIOUS
<1>2. PICK e : e = Enter(g, n)
  OBVIOUS
<1>3. e.node = n /\ e.left = Leaving(g, n) /\ e \in Entries(g)
  BY <1>2 DEF Enter, Entries, Leaving
<1>4. DOMAIN p = {1} /\ p[1] = e /\ p \in Seq(Entries(g))
  BY <1>1, <1>2, <1>3, OneEntry
<1>5. IsPath(g, p, b)
  BY <1>3, <1>4 DEF IsPath
<1>6. Loopless(g, <<>>, b) => Loopless(g, p, b)
  BY <1>3, <1>4 DEF Loopless
<1>7. On(<<>>) = {} /\ On(p) = {n}
  BY <1>3, <1>4 DEF On
<1>8. ToEnter(g, p, b) \subseteq ToEnter(g, <<>>, b) /\ ToEnter(g, p, b) # ToEnter(g, <<>>, b)
  BY <1>7 DEF ToEnter
<1>9. ToFollow(g, p, b) \subseteq ToFollow(g, <<>>, b)
  BY <1>3, <1>4, <1>7 DEF ToFollow, Leaving
<1> QED
  BY <1>1, <1>5, <1>6, <1>8, <1>9 DEF Advances

\* The top of a stack and what is below it.
LEMMA TopAndFront ==
  ASSUME NEW E, NEW q \in Seq(E), q # <<>>
  PROVE  /\ Len(q) \in Nat \ {0} /\ DOMAIN q = 1 .. Len(q)
         /\ Last(q) = q[Len(q)] /\ Last(q) \in E
         /\ Front(q) \in Seq(E)
         /\ DOMAIN Front(q) = 1 .. Len(q) - 1
         /\ \A i \in 1 .. Len(q) - 1 : Front(q)[i] = q[i]
<1>1. Len(q) \in Nat \ {0} /\ DOMAIN q = 1 .. Len(q) /\ \A i \in 1 .. Len(q) : q[i] \in E
  OBVIOUS
<1>2. \A i \in 1 .. Len(q) - 1 : q[i] \in E
  BY <1>1
<1>3. PICK m : m = Len(q) - 1
  OBVIOUS
<1>4. m \in Nat /\ (1 <= m => m - 1 + 1 = m) /\ (~ (1 <= m) => m = 0)
  BY <1>1, <1>3
<1>5. /\ SubSeq(q, 1, m) \in Seq(E)
      /\ Len(SubSeq(q, 1, m)) = IF 1 <= m THEN m - 1 + 1 ELSE 0
      /\ \A i \in 1 .. m - 1 + 1 : SubSeq(q, 1, m)[i] = q[1 + i - 1]
  <2>1. \A i \in 1 .. m : q[i] \in E
    BY <1>2, <1>3
  <2>2. 1 \in Int /\ m \in Int
    BY <1>4
  <2> QED
    BY <2>1, <2>2, SubSeqProperties
<1>6. Len(SubSeq(q, 1, m)) = m
  BY <1>4, <1>5
<1>7. \A i \in 1 .. m : SubSeq(q, 1, m)[i] = q[i]
  BY <1>4, <1>5
<1>8. DOMAIN SubSeq(q, 1, m) = 1 .. m
  BY <1>5, <1>6
<1> QED
  BY <1>1, <1>3, <1>5, <1>7, <1>8 DEF Last, Front


\* The top is left when no edge out of it is left to follow.
LEMMA LeaveTop ==
  ASSUME NEW g, NEW q, NEW b, IsPath(g, q, b), q # <<>>,
         NEW x, x = Last(q).node, Last(q).left = {}
  PROVE  /\ IsPath(g, Front(q), b \cup {x})
         /\ Loopless(g, q, b) => Loopless(g, Front(q), b \cup {x})
         /\ Advances(g, q, b, Front(q), b \cup {x})
<1>1. PICK m : m = Len(q)
  OBVIOUS
<1>2. PICK p : p = Front(q)
  OBVIOUS
<1>3. PICK c : c = b \cup {x}
  OBVIOUS
<1>4. /\ q \in Seq(Entries(g))
      /\ m \in Nat \ {0} /\ DOMAIN q = 1 .. m
      /\ Last(q) = q[m] /\ q[m] \in Entries(g)
      /\ p \in Seq(Entries(g))
      /\ DOMAIN p = 1 .. m - 1
      /\ \A i \in 1 .. m - 1 : p[i] = q[i]
  <2>1. q \in Seq(Entries(g))
    BY DEF IsPath
  <2> QED
    BY <2>1, <1>1, <1>2, TopAndFront
<1>5. x = q[m].node /\ q[m].left = {} /\ x \in g.nodes /\ m \in DOMAIN q
  BY <1>4 DEF Entries
<1>6. \A i \in DOMAIN p : i \in DOMAIN q /\ p[i] = q[i] /\ i # m
  BY <1>4
<1>7. \A i \in DOMAIN q : i \in DOMAIN p \/ i = m
  BY <1>4
<1>8. \A i \in DOMAIN p : p[i].node # x
  BY <1>5, <1>6 DEF IsPath
<1>9. x \notin b
  BY <1>5 DEF IsPath
<1>10. IsPath(g, p, c)
  BY <1>3, <1>4, <1>5, <1>6, <1>8 DEF IsPath
<1>11. ASSUME Loopless(g, q, b)
       PROVE  Loopless(g, p, c)
  <2>1. \A j \in Leaving(g, x) : g.edges[j].dst \in b
    <3>1. m + 1 \notin DOMAIN q
      BY <1>4
    <3> QED
      BY <1>5, <1>11, <3>1 DEF Loopless
  <2>2. ASSUME NEW i \in DOMAIN p, NEW j \in Leaving(g, p[i].node) \ p[i].left
        PROVE  g.edges[j].dst \in c \/ (i + 1 \in DOMAIN p /\ g.edges[j].dst = p[i + 1].node)
    <3>1. g.edges[j].dst \in b \/ (i + 1 \in DOMAIN q /\ g.edges[j].dst = q[i + 1].node)
      BY <1>6, <1>11, <2>2 DEF Loopless
    <3> QED
      BY <1>3, <1>5, <1>6, <1>7, <3>1
  <2>3. \A n \in c : \A j \in Leaving(g, n) : g.edges[j].dst \in c
    BY <1>3, <1>11, <2>1 DEF Loopless
  <2>4. ASSUME NEW W \in SUBSET c, W # {}
        PROVE  \E n \in W : Causes(g, n) \cap W = {}
    <3>1. CASE x \in W
      <4>1. \A y \in c : y \notin Causes(g, x)
        BY <1>3, <1>9, <1>11, <2>1 DEF Loopless, Causes, Leaving
      <4> QED
        BY <3>1, <4>1
    <3>2. CASE x \notin W
      <4>1. W \in SUBSET b
        BY <1>3, <3>2
      <4> QED
        BY <1>11, <2>4, <4>1 DEF Loopless
    <3> QED
      BY <3>1, <3>2
  <2> QED
    BY <2>2, <2>3, <2>4 DEF Loopless
<1>12. On(q) = On(p) \cup {x}
  <2>1. ASSUME NEW i \in DOMAIN q
        PROVE  q[i].node \in On(p) \cup {x}
    BY <1>5, <1>6, <1>7 DEF On
  <2>2. ASSUME NEW i \in DOMAIN p
        PROVE  p[i].node \in On(q)
    BY <1>6 DEF On
  <2>3. x \in On(q)
    BY <1>5 DEF On
  <2>4. On(q) \subseteq On(p) \cup {x}
    BY <2>1 DEF On
  <2>5. On(p) \subseteq On(q)
    BY <2>2 DEF On
  <2> QED
    BY <2>3, <2>4, <2>5
<1>13. ToEnter(g, p, c) = ToEnter(g, q, b)
  BY <1>3, <1>12 DEF ToEnter
<1>14. ToLeave(g, c) \subseteq ToLeave(g, b) /\ ToLeave(g, c) # ToLeave(g, b)
  BY <1>3, <1>5, <1>9 DEF ToLeave
<1>15. ToFollow(g, p, c) \subseteq ToFollow(g, q, b)
  BY <1>3, <1>6, <1>12 DEF ToFollow
<1> QED
  BY <1>2, <1>3, <1>10, <1>11, <1>13, <1>14, <1>15 DEF Advances

\* The stack after an edge e was followed from its top.
Onward(q, e) ==
  Append(Front(q), [node |-> Last(q).node, left |-> Last(q).left \ {e}])

LEMMA OnwardIs ==
  ASSUME NEW g, NEW q, NEW b, IsPath(g, q, b), q # <<>>, NEW e \in Last(q).left
  PROVE  LET o == Onward(q, e)
             m == Len(q)
         IN  /\ m \in Nat \ {0} /\ DOMAIN q = 1 .. m /\ DOMAIN o = 1 .. m
             /\ o \in Seq(Entries(g)) /\ Len(o) = m
             /\ \A i \in 1 .. m : o[i].node = q[i].node
             /\ \A i \in 1 .. m : i # m => o[i].left = q[i].left
             /\ o[m].left = q[m].left \ {e}
             /\ e \in Leaving(g, q[m].node)
             /\ e \in q[m].left
<1>1. PICK m : m = Len(q)
  OBVIOUS
<1>2. PICK p : p = Front(q)
  OBVIOUS
<1>3. /\ q \in Seq(Entries(g))
      /\ m \in Nat \ {0} /\ DOMAIN q = 1 .. m
      /\ Last(q) = q[m] /\ q[m] \in Entries(g)
      /\ p \in Seq(Entries(g))
      /\ DOMAIN p = 1 .. m - 1
      /\ \A i \in 1 .. m - 1 : p[i] = q[i]
  <2>1. q \in Seq(Entries(g))
    BY DEF IsPath
  <2> QED
    BY <2>1, <1>1, <1>2, TopAndFront
<1>4. PICK y : y = [node |-> q[m].node, left |-> q[m].left \ {e}]
  OBVIOUS
<1>5. y \in Entries(g) /\ y.node = q[m].node /\ y.left = q[m].left \ {e}
  BY <1>3, <1>4 DEF Entries
<1>6. PICK o : o = Append(p, y)
  OBVIOUS
<1>7. o = Onward(q, e)
  BY <1>2, <1>3, <1>4, <1>6 DEF Onward
<1>8. Len(p) = m - 1
  BY <1>3
<1>9. o \in Seq(Entries(g)) /\ Len(o) = m /\ DOMAIN o = 1 .. m
  BY <1>3, <1>5, <1>6, <1>8
<1>10. o[m] = y /\ \A i \in 1 .. m - 1 : o[i] = q[i]
  BY <1>3, <1>5, <1>6, <1>8
<1>11. \A i \in 1 .. m : i # m => i \in 1 .. m - 1
  BY <1>3
<1>12. e \in q[m].left /\ e \in Leaving(g, q[m].node)
  BY <1>3 DEF IsPath
<1> QED
  BY <1>1, <1>3, <1>5, <1>7, <1>9, <1>10, <1>11, <1>12

\* Following an edge to a node that was left, or one that closes a circle.
LEMMA FollowEdge ==
  ASSUME NEW g, NEW q, NEW b, IsPath(g, q, b), q # <<>>, NEW e \in Last(q).left
  PROVE  /\ IsPath(g, Onward(q, e), b)
         /\ Loopless(g, q, b) /\ g.edges[e].dst \in b => Loopless(g, Onward(q, e), b)
         /\ Advances(g, q, b, Onward(q, e), b)
<1>1. PICK m : m = Len(q)
  OBVIOUS
<1>2. PICK o : o = Onward(q, e)
  OBVIOUS
<1>3. /\ m \in Nat \ {0} /\ DOMAIN q = 1 .. m /\ DOMAIN o = 1 .. m
      /\ o \in Seq(Entries(g)) /\ Len(o) = m
      /\ \A i \in 1 .. m : o[i].node = q[i].node
      /\ \A i \in 1 .. m : i # m => o[i].left = q[i].left
      /\ o[m].left = q[m].left \ {e}
      /\ e \in Leaving(g, q[m].node)
      /\ e \in q[m].left
  BY <1>1, <1>2, OnwardIs
<1>4. \A i \in 1 .. m : o[i].left \subseteq q[i].left
  BY <1>3
<1>5. IsPath(g, o, b)
  BY <1>3, <1>4 DEF IsPath
<1>6. ASSUME Loopless(g, q, b), g.edges[e].dst \in b
      PROVE  Loopless(g, o, b)
  <2>1. ASSUME NEW i \in DOMAIN o, NEW j \in Leaving(g, o[i].node) \ o[i].left
        PROVE  g.edges[j].dst \in b \/ (i + 1 \in DOMAIN o /\ g.edges[j].dst = o[i + 1].node)
    <3>1. j = e \/ j \notin q[i].left
      BY <1>3, <2>1
    <3>2. CASE j = e
      BY <1>6, <3>2
    <3>3. CASE j \notin q[i].left
      <4>1. g.edges[j].dst \in b \/ (i + 1 \in DOMAIN q /\ g.edges[j].dst = q[i + 1].node)
        BY <1>3, <1>6, <2>1, <3>3 DEF Loopless
      <4> QED
        BY <1>3, <4>1
    <3> QED
      BY <3>1, <3>2, <3>3
  <2> QED
    BY <1>6, <2>1 DEF Loopless
<1>7. On(o) = On(q)
  BY <1>3 DEF On
<1>8. ToEnter(g, o, b) = ToEnter(g, q, b)
  BY <1>7 DEF ToEnter
<1>9. ToFollow(g, o, b) \subseteq ToFollow(g, q, b)
  BY <1>3, <1>4, <1>7 DEF ToFollow
<1>10. e \in ToFollow(g, q, b)
  BY <1>3 DEF ToFollow, Leaving
<1>11. e \notin ToFollow(g, o, b)
  <2>1. g.edges[e].src = q[m].node /\ q[m].node \in On(o)
    BY <1>3, <1>7 DEF On, Leaving
  <2>2. ASSUME NEW i \in DOMAIN o
        PROVE  e \notin o[i].left
    <3>1. CASE i = m
      BY <1>3, <3>1
    <3>2. CASE i # m
      <4>1. q[i].left \subseteq Leaving(g, q[i].node) /\ q[i].node # q[m].node
        BY <1>3, <3>2 DEF IsPath
      <4> QED
        BY <1>3, <2>1, <3>2, <4>1 DEF Leaving
    <3> QED
      BY <3>1, <3>2
  <2> QED
    BY <2>1, <2>2 DEF ToFollow
<1> QED
  BY <1>2, <1>5, <1>6, <1>8, <1>9, <1>10, <1>11 DEF Advances

\* Following an edge to a node that was not met.
LEMMA PushNext ==
  ASSUME NEW g, IsGraph(g), NEW q, NEW b, IsPath(g, q, b), q # <<>>,
         NEW e \in Last(q).left, NEW n, n = g.edges[e].dst,
         n \notin b, n \notin On(q)
  PROVE  LET r == Append(Onward(q, e), Enter(g, n))
         IN  /\ IsPath(g, r, b)
             /\ Loopless(g, q, b) => Loopless(g, r, b)
             /\ Advances(g, q, b, r, b)
<1>1. PICK m : m = Len(q)
  OBVIOUS
<1>2. PICK o : o = Onward(q, e)
  OBVIOUS
<1>3. /\ m \in Nat \ {0} /\ DOMAIN q = 1 .. m /\ DOMAIN o = 1 .. m
      /\ o \in Seq(Entries(g)) /\ Len(o) = m
      /\ \A i \in 1 .. m : o[i].node = q[i].node
      /\ \A i \in 1 .. m : i # m => o[i].left = q[i].left
      /\ o[m].left = q[m].left \ {e}
      /\ e \in Leaving(g, q[m].node)
      /\ e \in q[m].left
  BY <1>1, <1>2, OnwardIs
<1>4. \A i \in 1 .. m : o[i].left \subseteq q[i].left
  BY <1>3
<1>5. PICK y : y = Enter(g, n)
  OBVIOUS
<1>6. n \in g.nodes /\ q[m].node \in Causes(g, n)
  BY <1>3 DEF IsGraph, Leaving, Causes
<1>7. y \in Entries(g) /\ y.node = n /\ y.left = Leaving(g, n)
  BY <1>5, <1>6 DEF Enter, Entries, Leaving
<1>8. PICK r : r = Append(o, y)
  OBVIOUS
<1>9. /\ r \in Seq(Entries(g)) /\ DOMAIN r = 1 .. m + 1
      /\ r[m + 1] = y
      /\ \A i \in 1 .. m : r[i] = o[i]
  BY <1>3, <1>7, <1>8
<1>10. PICK k : k = m + 1
  OBVIOUS
<1>11. /\ r[k] = y /\ k \in DOMAIN r /\ k \notin 1 .. m
       /\ \A i \in DOMAIN r : i \in 1 .. m \/ i = k
       /\ \A i \in 1 .. m : i \in DOMAIN r
  BY <1>3, <1>9, <1>10
<1>12. \A i \in 1 .. m : r[i].node = q[i].node /\ r[i].left \subseteq q[i].left
  BY <1>3, <1>4, <1>9
<1>13. \A i \in 1 .. m : q[i].node # n
  BY <1>3 DEF On
<1>14. IsPath(g, r, b)
  <2>1. ASSUME NEW i \in DOMAIN r
        PROVE  r[i].left \subseteq Leaving(g, r[i].node) /\ r[i].node \notin b
    <3>1. CASE i \in 1 .. m
      BY <1>3, <1>12, <3>1 DEF IsPath
    <3>2. CASE i = k
      BY <1>7, <1>11, <3>2
    <3> QED
      BY <1>11, <3>1, <3>2
  <2>2. ASSUME NEW i \in DOMAIN r, NEW j \in DOMAIN r, r[i].node = r[j].node
        PROVE  i = j
    <3>1. CASE i \in 1 .. m /\ j \in 1 .. m
      BY <1>3, <1>12, <2>2, <3>1 DEF IsPath
    <3>2. CASE i = k \/ j = k
      BY <1>7, <1>11, <1>12, <1>13, <2>2, <3>2
    <3> QED
      BY <1>11, <3>1, <3>2
  <2>3. ASSUME NEW i \in DOMAIN r, NEW j \in DOMAIN r, j = i + 1
        PROVE  r[i].node \in Causes(g, r[j].node)
    <3>1. CASE j \in 1 .. m
      <4>1. i \in 1 .. m
        BY <1>3, <1>9, <2>3, <3>1
      <4> QED
        BY <1>3, <1>12, <2>3, <3>1, <4>1 DEF IsPath
    <3>2. CASE j = k
      <4>1. i = m /\ m \in 1 .. m
        BY <1>3, <1>9, <1>10, <2>3, <3>2
      <4> QED
        BY <1>6, <1>7, <1>11, <1>12, <3>2, <4>1
    <3> QED
      BY <1>11, <3>1, <3>2
  <2> QED
    BY <1>9, <2>1, <2>2, <2>3 DEF IsPath
<1>15. ASSUME Loopless(g, q, b)
       PROVE  Loopless(g, r, b)
  <2>1. ASSUME NEW i \in DOMAIN r, NEW j \in Leaving(g, r[i].node) \ r[i].left
        PROVE  g.edges[j].dst \in b \/ (i + 1 \in DOMAIN r /\ g.edges[j].dst = r[i + 1].node)
    <3>1. i \in 1 .. m
      BY <1>7, <1>11, <2>1
    <3>2. (j = e /\ i = m) \/ j \notin q[i].left
      BY <1>3, <1>9, <2>1, <3>1
    <3>3. CASE j = e /\ i = m
      BY <1>7, <1>10, <1>11, <3>3
    <3>4. CASE j \notin q[i].left
      <4>1. g.edges[j].dst \in b \/ (i + 1 \in DOMAIN q /\ g.edges[j].dst = q[i + 1].node)
        BY <1>3, <1>12, <1>15, <2>1, <3>1, <3>4 DEF Loopless
      <4> QED
        BY <1>3, <1>11, <1>12, <4>1
    <3> QED
      BY <3>2, <3>3, <3>4
  <2> QED
    BY <1>15, <2>1 DEF Loopless
<1>16. On(r) = On(q) \cup {n}
  <2>1. ASSUME NEW i \in DOMAIN r
        PROVE  r[i].node \in On(q) \cup {n}
    BY <1>3, <1>7, <1>11, <1>12 DEF On
  <2>2. ASSUME NEW i \in DOMAIN q
        PROVE  q[i].node \in On(r)
    BY <1>3, <1>11, <1>12 DEF On
  <2>3. n \in On(r)
    BY <1>7, <1>11 DEF On
  <2>4. On(r) \subseteq On(q) \cup {n}
    BY <2>1 DEF On
  <2>5. On(q) \subseteq On(r)
    BY <2>2 DEF On
  <2> QED
    BY <2>3, <2>4, <2>5
<1>17. ToEnter(g, r, b) \subseteq ToEnter(g, q, b) /\ ToEnter(g, r, b) # ToEnter(g, q, b)
  BY <1>6, <1>16 DEF ToEnter
<1>18. ToFollow(g, r, b) \subseteq ToFollow(g, q, b)
  <2> SUFFICES ASSUME NEW j \in ToFollow(g, r, b)
               PROVE  j \in ToFollow(g, q, b)
    OBVIOUS
  <2>1. CASE g.edges[j].src \notin b \cup On(r)
    BY <1>16, <2>1 DEF ToFollow
  <2>2. CASE \E i \in DOMAIN r : j \in r[i].left
    <3>1. PICK i \in DOMAIN r : j \in r[i].left
      BY <2>2
    <3>2. CASE i \in 1 .. m
      BY <1>3, <1>12, <3>1, <3>2 DEF ToFollow
    <3>3. CASE i = k
      BY <1>7, <1>11, <3>1, <3>3 DEF ToFollow, Leaving
    <3> QED
      BY <1>11, <3>2, <3>3
  <2> QED
    BY <2>1, <2>2 DEF ToFollow
<1> QED
  BY <1>2, <1>5, <1>8, <1>14, <1>15, <1>17, <1>18 DEF Advances

\* The path from a node on the stack to the top, and the edge back from there.
LEMMA BackEdgeCycle ==
  ASSUME NEW g, IsGraph(g), NEW q, NEW b, IsPath(g, q, b), q # <<>>,
         NEW e \in Last(q).left, g.edges[e].dst \in On(q)
  PROVE  Unassignable(g) # {}
<1>1. PICK m : m = Len(q)
  OBVIOUS
<1>2. /\ m \in Nat \ {0} /\ DOMAIN q = 1 .. m /\ e \in Leaving(g, q[m].node)
  BY <1>1, OnwardIs
<1>3. PICK i \in 1 .. m : g.edges[e].dst = q[i].node
  BY <1>2 DEF On
<1> DEFINE W == {q[j].node : j \in i .. m}
<1>4. W \in SUBSET g.nodes /\ W # {}
  <2>1. \A j \in i .. m : j \in DOMAIN q
    BY <1>2
  <2>2. \A j \in DOMAIN q : q[j].node \in g.nodes
    <3>1. q \in Seq(Entries(g))
      BY DEF IsPath
    <3>2. \A j \in DOMAIN q : q[j] \in Entries(g)
      BY <3>1
    <3> QED
      BY <3>2 DEF Entries
  <2>3. i \in i .. m
    BY <1>2
  <2> QED
    BY <2>1, <2>2, <2>3
<1>5. ASSUME NEW j \in i .. m
      PROVE  Causes(g, q[j].node) \cap W # {}
  <2>1. CASE j = i
    <3>1. q[m].node \in Causes(g, q[j].node)
      BY <1>2, <1>3, <2>1 DEF Causes, Leaving
    <3>2. m \in i .. m
      BY <1>2
    <3> QED
      BY <3>1, <3>2
  <2>2. CASE j # i
    <3>1. PICK k : k = j - 1
      OBVIOUS
    <3>2. k \in i .. m /\ j = k + 1 /\ k \in DOMAIN q /\ j \in DOMAIN q
      BY <1>2, <2>2, <3>1
    <3>3. q[k].node \in Causes(g, q[j].node)
      BY <3>2 DEF IsPath
    <3> QED
      BY <3>2, <3>3
  <2> QED
    BY <2>1, <2>2
<1>6. \A n \in W : Causes(g, n) \cap W # {}
  BY <1>5
<1> HIDE DEF W
<1>7. W \subseteq Unassignable(g)
  BY <1>4, <1>6, LoopsUnassignable
<1> QED
  BY <1>4, <1>7

Finished(g, s) == s.stack = <<>> /\ g.nodes \subseteq s.black

LEMMA StepKeepsSearch ==
  ASSUME NEW g, IsGraph(g), NEW s, SearchInv(g, s), NEW t, t = SearchStep(g, s)
  PROVE  /\ Finished(g, s) => t = s
         /\ ~ Finished(g, s) => /\ SearchInv(g, t)
                                /\ Advances(g, s.stack, s.black, t.stack, t.black)
<1>1. PICK q : q = s.stack
  OBVIOUS
<1>2. PICK b : b = s.black
  OBVIOUS
<1>3. PICK a : a = s.cycles
  OBVIOUS
<1>4. /\ s = Search(q, b, a) /\ IsPath(g, q, b)
      /\ a # {} => Unassignable(g) # {}
      /\ a = {} => Loopless(g, q, b)
  BY <1>1, <1>2, <1>3 DEF SearchInv
<1>5. \A r, c, d :
        /\ IsPath(g, r, c)
        /\ Advances(g, q, b, r, c)
        /\ d # {} => Unassignable(g) # {}
        /\ d = {} => Loopless(g, r, c)
        /\ t = Search(r, c, d)
        => SearchInv(g, t) /\ Advances(g, s.stack, s.black, t.stack, t.black)
  <2> SUFFICES ASSUME NEW r, NEW c, NEW d, t = Search(r, c, d),
                      IsPath(g, r, c), Advances(g, q, b, r, c),
                      d # {} => Unassignable(g) # {},
                      d = {} => Loopless(g, r, c)
               PROVE  SearchInv(g, t) /\ Advances(g, s.stack, s.black, t.stack, t.black)
    OBVIOUS
  <2>1. t.stack = r /\ t.black = c /\ t.cycles = d
    BY DEF Search
  <2> QED
    BY <1>1, <1>2, <2>1 DEF SearchInv
<1> DEFINE roots == g.nodes \ b
           top   == Last(q)
           edge  == Min(top.left)
           next  == g.edges[edge].dst
<1>6. CASE q = <<>> /\ roots = {}
  <2>1. t = s
    BY <1>1, <1>2, <1>6 DEF SearchStep
  <2> QED
    BY <1>1, <1>2, <1>6, <2>1 DEF Finished
<1>7. CASE q = <<>> /\ roots # {}
  <2>1. PICK n : n = CHOOSE x \in roots : TRUE
    OBVIOUS
  <2>2. t = Search(<<Enter(g, n)>>, b, a)
    BY <1>1, <1>2, <1>3, <1>7, <2>1 DEF SearchStep
  <2>3. n \in g.nodes \ b
    BY <1>7, <2>1
  <2>4. /\ IsPath(g, <<Enter(g, n)>>, b)
        /\ Loopless(g, q, b) => Loopless(g, <<Enter(g, n)>>, b)
        /\ Advances(g, q, b, <<Enter(g, n)>>, b)
    BY <1>4, <1>7, <2>3, EnterRoot
  <2>5. ~ Finished(g, s)
    BY <1>1, <1>2, <1>7 DEF Finished
  <2> QED
    BY <1>4, <1>5, <2>2, <2>4, <2>5
<1>8. CASE q # <<>> /\ top.left = {}
  <2>1. PICK x : x = top.node
    OBVIOUS
  <2>2. t = Search(Front(q), b \cup {x}, a)
    BY <1>1, <1>2, <1>3, <1>8, <2>1 DEF SearchStep
  <2>3. /\ IsPath(g, Front(q), b \cup {x})
        /\ Loopless(g, q, b) => Loopless(g, Front(q), b \cup {x})
        /\ Advances(g, q, b, Front(q), b \cup {x})
    BY <1>4, <1>8, <2>1, LeaveTop
  <2>4. ~ Finished(g, s)
    BY <1>1, <1>8 DEF Finished
  <2> QED
    BY <1>4, <1>5, <2>2, <2>3, <2>4
<1>9. CASE q # <<>> /\ top.left # {}
  <2>1. PICK e : e = edge
    OBVIOUS
  <2>2. e \in Last(q).left
    <3>1. PICK L : L = top.left
      OBVIOUS
    <3>2. top \in Entries(g)
      BY <1>4, <1>9, TopAndFront DEF IsPath
    <3>3. L \in SUBSET Nat
      BY <3>1, <3>2 DEF Entries, IsGraph, IsSequence
    <3>4. \E x \in L : \A y \in L : x <= y
      BY <1>9, <3>1, <3>3, LeastNatural
    <3> QED
      BY <2>1, <3>1, <3>4 DEF Min
  <2>3. PICK n : n = next
    OBVIOUS
  <2>4. PICK o : o = Onward(q, e)
    OBVIOUS
  <2>5. ~ Finished(g, s)
    BY <1>1, <1>9 DEF Finished
  <2>6. Grey(s) = On(q)
    BY <1>1 DEF Grey, On
  <2>7. n = g.edges[e].dst
    BY <2>1, <2>3
  <2>8. t = CASE BackEdge(s, n) -> Search(o, b, a \cup {CycleFrom(s, n)})
              [] ~BackEdge(s, n) /\ n \in b -> Search(o, b, a)
              [] ~BackEdge(s, n) /\ n \notin b -> Search(Append(o, Enter(g, n)), b, a)
    BY <1>1, <1>2, <1>3, <1>9, <2>1, <2>3, <2>4 DEF SearchStep, Onward
  <2>9. /\ IsPath(g, o, b)
        /\ Loopless(g, q, b) /\ n \in b => Loopless(g, o, b)
        /\ Advances(g, q, b, o, b)
    BY <1>4, <1>9, <2>2, <2>4, <2>7, FollowEdge
  <2>10. CASE n \in On(q)
    <3>1. t = Search(o, b, a \cup {CycleFrom(s, n)})
      BY <2>6, <2>8, <2>10 DEF BackEdge
    <3>2. Unassignable(g) # {}
      BY <1>4, <1>9, <2>2, <2>7, <2>10, BackEdgeCycle
    <3>3. a \cup {CycleFrom(s, n)} # {}
      OBVIOUS
    <3> QED
      BY <1>5, <2>5, <2>9, <3>1, <3>2, <3>3
  <2>11. CASE n \notin On(q) /\ n \in b
    <3>1. t = Search(o, b, a)
      BY <2>6, <2>8, <2>11 DEF BackEdge
    <3> QED
      BY <1>4, <1>5, <2>5, <2>9, <2>11, <3>1
  <2>12. CASE n \notin On(q) /\ n \notin b
    <3>1. PICK r : r = Append(o, Enter(g, n))
      OBVIOUS
    <3>2. t = Search(r, b, a)
      BY <2>6, <2>8, <2>12, <3>1 DEF BackEdge
    <3>3. /\ IsPath(g, r, b)
          /\ Loopless(g, q, b) => Loopless(g, r, b)
          /\ Advances(g, q, b, r, b)
      BY <1>4, <1>9, <2>2, <2>4, <2>7, <2>12, <3>1, PushNext
    <3> QED
      BY <1>4, <1>5, <2>5, <3>2, <3>3
  <2> QED
    BY <2>10, <2>11, <2>12
<1> QED
  BY <1>6, <1>7, <1>8, <1>9

\* What a search has before it, counted.
Before(g, q, b) ==
  Cardinality(ToEnter(g, q, b)) + Cardinality(ToLeave(g, b))
    + Cardinality(ToFollow(g, q, b))

LEMMA BeforeIsNatural ==
  ASSUME NEW g, IsGraph(g), NEW q, NEW b
  PROVE  /\ IsFiniteSet(ToEnter(g, q, b)) /\ Cardinality(ToEnter(g, q, b)) \in Nat
         /\ IsFiniteSet(ToLeave(g, b)) /\ Cardinality(ToLeave(g, b)) \in Nat
         /\ IsFiniteSet(ToFollow(g, q, b)) /\ Cardinality(ToFollow(g, q, b)) \in Nat
         /\ Before(g, q, b) \in Nat
<1>1. /\ ToEnter(g, q, b) \in SUBSET g.nodes
      /\ ToLeave(g, b) \in SUBSET g.nodes
      /\ ToFollow(g, q, b) \in SUBSET DOMAIN g.edges
  BY DEF ToEnter, ToLeave, ToFollow
<1>2. IsFiniteSet(g.nodes) /\ IsFiniteSet(DOMAIN g.edges)
  <2>1. Len(g.edges) \in Nat /\ DOMAIN g.edges = 1 .. Len(g.edges)
    BY DEF IsGraph, IsSequence
  <2>2. IsFiniteSet(1 .. Len(g.edges))
    BY <2>1, FS_Interval
  <2> QED
    BY <2>1, <2>2 DEF IsGraph
<1>3. IsFiniteSet(ToEnter(g, q, b)) /\ IsFiniteSet(ToLeave(g, b)) /\ IsFiniteSet(ToFollow(g, q, b))
  BY <1>1, <1>2, FS_Subset
<1>4. /\ Cardinality(ToEnter(g, q, b)) \in Nat
      /\ Cardinality(ToLeave(g, b)) \in Nat
      /\ Cardinality(ToFollow(g, q, b)) \in Nat
  BY <1>3, FS_CardinalityType
<1> QED
  BY <1>3, <1>4 DEF Before

LEMMA AdvanceCounts ==
  ASSUME NEW g, IsGraph(g), NEW q, NEW b, NEW p, NEW c, Advances(g, q, b, p, c)
  PROVE  Before(g, p, c) < Before(g, q, b)
<1>1. PICK A : A = ToEnter(g, q, b)
  OBVIOUS
<1>2. PICK B : B = ToLeave(g, b)
  OBVIOUS
<1>3. PICK C : C = ToFollow(g, q, b)
  OBVIOUS
<1>4. PICK D : D = ToEnter(g, p, c)
  OBVIOUS
<1>5. PICK E : E = ToLeave(g, c)
  OBVIOUS
<1>6. PICK F : F = ToFollow(g, p, c)
  OBVIOUS
<1>7. /\ IsFiniteSet(A) /\ Cardinality(A) \in Nat
      /\ IsFiniteSet(B) /\ Cardinality(B) \in Nat
      /\ IsFiniteSet(C) /\ Cardinality(C) \in Nat
      /\ IsFiniteSet(D) /\ Cardinality(D) \in Nat
      /\ IsFiniteSet(E) /\ Cardinality(E) \in Nat
      /\ IsFiniteSet(F) /\ Cardinality(F) \in Nat
  BY <1>1, <1>2, <1>3, <1>4, <1>5, <1>6, BeforeIsNatural
<1>8. /\ D \in SUBSET A /\ E \in SUBSET B /\ F \in SUBSET C
      /\ D # A \/ E # B \/ F # C
  BY <1>1, <1>2, <1>3, <1>4, <1>5, <1>6 DEF Advances
<1>9. /\ Cardinality(D) <= Cardinality(A) /\ (Cardinality(A) = Cardinality(D) => A = D)
      /\ Cardinality(E) <= Cardinality(B) /\ (Cardinality(B) = Cardinality(E) => B = E)
      /\ Cardinality(F) <= Cardinality(C) /\ (Cardinality(C) = Cardinality(F) => C = F)
  BY <1>7, <1>8, FS_Subset
<1>10. /\ Before(g, p, c) = Cardinality(D) + Cardinality(E) + Cardinality(F)
       /\ Before(g, q, b) = Cardinality(A) + Cardinality(B) + Cardinality(C)
  BY <1>1, <1>2, <1>3, <1>4, <1>5, <1>6 DEF Before
<1>11. \/ Cardinality(A) # Cardinality(D) \/ Cardinality(B) # Cardinality(E)
       \/ Cardinality(C) # Cardinality(F)
  BY <1>8, <1>9
<1> QED
  BY <1>7, <1>9, <1>10, <1>11

\* The recursion of Searches, as an equation.
SearchesStep(g, n, f) ==
  [k \in 0 .. n |-> IF k = 0 THEN SearchStart ELSE SearchStep(g, f[k - 1])]

LEMMA SearchesExist ==
  ASSUME NEW g, NEW n \in Nat
  PROVE  \E f : f = SearchesStep(g, n, f)
<1> DEFINE J(p) == SearchStep(g, p)
           Solved(k) == \E f : f = SearchesStep(g, k, f)
           bad == {k \in Nat : ~ Solved(k)}
<1>1. Solved(0)
  <2> DEFINE f == [i \in 0 .. 0 |-> SearchStart]
  <2>1. f = SearchesStep(g, 0, f)
    BY DEF SearchesStep
  <2> HIDE DEF f
  <2> QED
    BY <2>1
<1>2. ASSUME NEW k \in Nat, Solved(k)
      PROVE  Solved(k + 1)
  <2>1. PICK f : f = SearchesStep(g, k, f)
    BY <1>2
  <2> DEFINE h == [i \in 0 .. k + 1 |-> IF i = k + 1 THEN J(f[k]) ELSE f[i]]
  <2>2. \A i \in 0 .. k : h[i] = f[i]
    OBVIOUS
  <2>3. \A i \in 0 .. k : f[i] = IF i = 0 THEN SearchStart ELSE J(f[i - 1])
    BY <2>1 DEF SearchesStep
  <2>4. \A i \in 0 .. k + 1 : h[i] = IF i = 0 THEN SearchStart ELSE J(h[i - 1])
    <3> SUFFICES ASSUME NEW i \in 0 .. k + 1
                 PROVE  h[i] = IF i = 0 THEN SearchStart ELSE J(h[i - 1])
      OBVIOUS
    <3> HIDE DEF J
    <3>1. CASE i = 0
      BY <2>2, <2>3, <3>1
    <3>2. CASE i \in 1 .. k
      <4>1. i \in 0 .. k /\ i - 1 \in 0 .. k /\ i # 0
        BY <3>2
      <4>2. h[i - 1] = f[i - 1] /\ h[i] = f[i]
        BY <2>2, <4>1
      <4> HIDE DEF h
      <4> QED
        BY <2>3, <4>1, <4>2
    <3>3. CASE i = k + 1
      <4>1. i - 1 = k /\ k \in 0 .. k /\ i # 0
        BY <3>3
      <4>2. h[i] = J(f[k]) /\ h[i - 1] = f[k]
        BY <2>2, <3>3, <4>1
      <4> HIDE DEF h
      <4> QED
        BY <3>3, <4>1, <4>2
    <3> QED
      BY <3>1, <3>2, <3>3
  <2>5. DOMAIN h = 0 .. k + 1 /\ h = [i \in 0 .. k + 1 |-> h[i]]
    OBVIOUS
  <2> HIDE DEF h
  <2>6. h = SearchesStep(g, k + 1, h)
    BY <2>4, <2>5 DEF SearchesStep
  <2> QED
    BY <2>6
<1>3. bad = {}
  <2> SUFFICES ASSUME bad # {}
               PROVE  FALSE
    OBVIOUS
  <2> HIDE DEF Solved
  <2>1. bad \in SUBSET Nat
    OBVIOUS
  <2>2. PICK k \in bad : \A m \in bad : k <= m
    BY <2>1, LeastNatural
  <2>3. k # 0
    BY <1>1
  <2>4. k - 1 \in Nat /\ k - 1 \notin bad
    BY <2>2, <2>3
  <2>5. Solved(k - 1 + 1)
    BY <1>2, <2>4
  <2>6. k - 1 + 1 = k
    OBVIOUS
  <2> QED
    BY <2>5, <2>6
<1> QED
  BY <1>3

\* The search of a graph, in at most N steps.
SearchesAre(g, N, S) ==
  /\ N \in Nat /\ N = SearchLength(g)
  /\ S[0] = SearchStart
  /\ \A k \in Nat : k < N => S[k + 1] = SearchStep(g, S[k])

LEMMA SearchesValue ==
  ASSUME NEW g, IsGraph(g)
  PROVE  SearchesAre(g, SearchLength(g), Searches(g))
<1> DEFINE N == SearchLength(g)
           Sol == CHOOSE f : f = SearchesStep(g, N, f)
<1>1. N \in Nat
  BY FS_CardinalityType DEF IsGraph, IsSequence, SearchLength
<1>2. Searches(g) = Sol
  BY DEF Searches, SearchesStep
<1>3. Sol = SearchesStep(g, N, Sol)
  <2> HIDE DEF N
  <2> QED
    BY <1>1, SearchesExist
<1> HIDE DEF Sol, N
<1>4. PICK S : S = Searches(g)
  OBVIOUS
<1>5. S = SearchesStep(g, N, S)
  BY <1>2, <1>3, <1>4
<1>6. \A i \in 0 .. N : S[i] = IF i = 0 THEN SearchStart ELSE SearchStep(g, S[i - 1])
  BY <1>5 DEF SearchesStep
<1>7. ASSUME NEW k \in Nat, k < N
      PROVE  S[k + 1] = SearchStep(g, S[k])
  <2>1. PICK i \in 0 .. N : i = k + 1 /\ i # 0 /\ i - 1 = k
    BY <1>1, <1>7
  <2>2. S[i] = SearchStep(g, S[i - 1])
    BY <1>6, <2>1
  <2> QED
    BY <2>1, <2>2
<1>8. S[0] = SearchStart
  BY <1>1, <1>6
<1> QED
  BY <1>1, <1>4, <1>7, <1>8 DEF SearchesAre, N

\* The search ends within its bound, having left every node.
LEMMA SearchEnds ==
  ASSUME NEW g, IsGraph(g), NEW N, NEW S, SearchesAre(g, N, S)
  PROVE  SearchInv(g, S[N]) /\ g.nodes \subseteq S[N].black
<1> DEFINE Left(k) == Before(g, S[k].stack, S[k].black)
           Sound(k) == /\ SearchInv(g, S[k])
                       /\ Finished(g, S[k]) \/ Left(k) + k <= N
           bad == {k \in Nat : k <= N /\ ~ Sound(k)}
<1>1. N \in Nat
  BY DEF SearchesAre
<1>2. Sound(0)
  <2>1. S[0] = SearchStart
    BY DEF SearchesAre
  <2>2. S[0].stack = <<>> /\ S[0].black = {} /\ S[0].cycles = {}
        /\ S[0] = Search(S[0].stack, S[0].black, S[0].cycles)
    BY <2>1 DEF SearchStart, Search
  <2>3. IsPath(g, <<>>, {}) /\ Loopless(g, <<>>, {})
    BY DEF IsPath, Loopless
  <2>4. SearchInv(g, S[0])
    BY <2>2, <2>3 DEF SearchInv
  <2>5. Left(0) = Cardinality(ToEnter(g, <<>>, {})) + Cardinality(ToLeave(g, {}))
                    + Cardinality(ToFollow(g, <<>>, {}))
    BY <2>2 DEF Before
  <2>6. On(<<>>) = {}
    BY DEF On
  <2>7. ToEnter(g, <<>>, {}) = g.nodes /\ ToLeave(g, {}) = g.nodes
        /\ ToFollow(g, <<>>, {}) = DOMAIN g.edges
    BY <2>6 DEF ToEnter, ToLeave, ToFollow
  <2>8. Cardinality(DOMAIN g.edges) = Len(g.edges)
    <3>1. Len(g.edges) \in Nat /\ DOMAIN g.edges = 1 .. Len(g.edges)
      BY DEF IsGraph, IsSequence
    <3>2. Cardinality(1 .. Len(g.edges)) = Len(g.edges)
      BY <3>1, FS_Interval
    <3> QED
      BY <3>1, <3>2
  <2>9. Cardinality(g.nodes) \in Nat /\ Len(g.edges) \in Nat
    BY FS_CardinalityType DEF IsGraph, IsSequence
  <2>10. Left(0) = N
    <3>1. N = 2 * Cardinality(g.nodes) + Len(g.edges)
      BY DEF SearchesAre, SearchLength
    <3> HIDE DEF Left
    <3>2. Left(0) = Cardinality(g.nodes) + Cardinality(g.nodes) + Len(g.edges)
      BY <2>5, <2>7, <2>8
    <3> QED
      BY <2>9, <3>1, <3>2
  <2> HIDE DEF Left
  <2> QED
    BY <1>1, <2>4, <2>10
<1>3. ASSUME NEW k \in Nat, k < N, Sound(k)
      PROVE  Sound(k + 1)
  <2>1. PICK s : s = S[k]
    OBVIOUS
  <2>2. PICK t : t = S[k + 1]
    OBVIOUS
  <2>3. t = SearchStep(g, s)
    BY <1>3, <2>1, <2>2 DEF SearchesAre
  <2>4. SearchInv(g, s)
    BY <1>3, <2>1
  <2>5. /\ Finished(g, s) => t = s
        /\ ~ Finished(g, s) => /\ SearchInv(g, t)
                               /\ Advances(g, s.stack, s.black, t.stack, t.black)
    BY <2>3, <2>4, StepKeepsSearch
  <2>6. CASE Finished(g, s)
    BY <2>1, <2>2, <2>4, <2>5, <2>6
  <2>7. CASE ~ Finished(g, s)
    <3>1. PICK m : m = Before(g, s.stack, s.black)
      OBVIOUS
    <3>2. PICK n : n = Before(g, t.stack, t.black)
      OBVIOUS
    <3>3. m \in Nat /\ n \in Nat /\ n < m
      BY <2>5, <2>7, <3>1, <3>2, AdvanceCounts, BeforeIsNatural
    <3>4. m + k <= N
      BY <1>3, <2>1, <2>7, <3>1
    <3>5. n + (k + 1) <= N
      BY <1>1, <3>3, <3>4
    <3> QED
      BY <2>2, <2>5, <2>7, <3>2, <3>5
  <2> QED
    BY <2>6, <2>7
<1>4. bad = {}
  <2> SUFFICES ASSUME bad # {}
               PROVE  FALSE
    OBVIOUS
  <2> HIDE DEF Sound
  <2>1. \E k \in bad : \A m \in bad : k <= m
    <3>1. bad \in SUBSET Nat
      OBVIOUS
    <3> HIDE DEF bad
    <3> QED
      BY <3>1, LeastNatural
  <2>2. PICK k \in bad : \A m \in bad : k <= m
    BY <2>1
  <2>3. k # 0
    BY <1>2, <2>2
  <2>4. k - 1 \in Nat /\ k - 1 < N /\ k - 1 <= N /\ k - 1 \notin bad /\ k - 1 + 1 = k
    BY <1>1, <2>2, <2>3
  <2>5. Sound(k - 1 + 1)
    BY <1>3, <2>4
  <2> QED
    BY <2>2, <2>4, <2>5
<1>5. Sound(N)
  <2> HIDE DEF Sound
  <2> QED
    BY <1>1, <1>4
<1>6. CASE Finished(g, S[N])
  BY <1>5, <1>6 DEF Finished
<1>7. CASE ~ Finished(g, S[N])
  <2>1. PICK b : b = S[N].black
    OBVIOUS
  <2>2. PICK q : q = S[N].stack
    OBVIOUS
  <2>3. Before(g, q, b) + N <= N /\ Before(g, q, b) \in Nat
    BY <1>5, <1>7, <2>1, <2>2, BeforeIsNatural
  <2>4. Cardinality(ToLeave(g, b)) = 0
    <3>1. PICK x : x = Cardinality(ToEnter(g, q, b))
      OBVIOUS
    <3>2. PICK y : y = Cardinality(ToLeave(g, b))
      OBVIOUS
    <3>3. PICK z : z = Cardinality(ToFollow(g, q, b))
      OBVIOUS
    <3>4. x \in Nat /\ y \in Nat /\ z \in Nat /\ x + y + z + N <= N
      BY <2>3, <3>1, <3>2, <3>3, BeforeIsNatural DEF Before
    <3> QED
      BY <1>1, <3>2, <3>4
  <2>5. ToLeave(g, b) = {}
    BY <2>4, BeforeIsNatural, FS_EmptySet
  <2> QED
    BY <1>5, <2>1, <2>5 DEF ToLeave
<1> QED
  BY <1>6, <1>7

\* On every graph the depth-first search finds a cycle exactly if the queue
\* over the in-degrees leaves some node without a time (topology.py:318-367,
\* 371-421).
THEOREM CyclesAreLoops ==
  ASSUME NEW g, IsGraph(g)
  PROVE  FindCycles(g) # {} <=> Unassignable(g) # {}
<1>1. PICK S : S = Searches(g)
  OBVIOUS
<1>2. PICK N : N = SearchLength(g)
  OBVIOUS
<1>3. SearchesAre(g, N, S)
  BY <1>1, <1>2, SearchesValue
<1>4. SearchInv(g, S[N]) /\ g.nodes \subseteq S[N].black
  BY <1>3, SearchEnds
<1>5. FindCycles(g) = S[N].cycles
  BY <1>1, <1>2 DEF FindCycles
<1>6. FindCycles(g) # {} => Unassignable(g) # {}
  BY <1>4, <1>5 DEF SearchInv
<1>7. ASSUME FindCycles(g) = {}, Unassignable(g) # {}
      PROVE  FALSE
  <2>1. Loopless(g, S[N].stack, S[N].black)
    BY <1>4, <1>5, <1>7 DEF SearchInv
  <2>2. Unassignable(g) \in SUBSET S[N].black
    BY <1>4 DEF Unassignable
  <2>3. PICK n \in Unassignable(g) : Causes(g, n) \cap Unassignable(g) = {}
    BY <1>7, <2>1, <2>2 DEF Loopless
  <2> QED
    BY <2>3, UnassignableLoops
<1> QED
  BY <1>6, <1>7

------------------------------------------------------------------------------
(***************************************************************************)
(* The graphs of the layers                                                *)
(***************************************************************************)

\* A function on 1 .. n is a sequence.
LEMMA ListIsSeq ==
  ASSUME NEW n \in Nat, NEW f, f = [i \in 1 .. n |-> f[i]]
  PROVE  \E S : f \in Seq(S)
<1> DEFINE S == {f[i] : i \in 1 .. n}
<1>1. f \in [1 .. n -> S]
  <2>1. \A i \in 1 .. n : f[i] \in S
    OBVIOUS
  <2> HIDE DEF S
  <2> QED
    BY <2>1
<1> HIDE DEF S
<1>2. f \in Seq(S)
  BY <1>1
<1> QED
  BY <1>2

LEMMA JoinedIsSeq ==
  ASSUME NEW S, NEW f \in Seq(S), NEW T, NEW h \in Seq(T)
  PROVE  f \o h \in Seq(S \cup T)
<1>1. f \in Seq(S \cup T) /\ h \in Seq(S \cup T)
  OBVIOUS
<1> QED
  BY <1>1, ConcatProperties

\* What an edge creates is finite.
LEMMA GraphIsGraph ==
  ASSUME NEW nodes, IsFiniteSet(nodes), NEW S, NEW edges \in Seq(S),
         NEW constraints, NEW provenance
  PROVE  IsGraph(Graph(nodes, edges, constraints, provenance))
<1>1. PICK D : D = DOMAIN edges
  OBVIOUS
<1>2. Len(edges) \in Nat /\ D = 1 .. Len(edges) /\ IsFiniteSet(D)
  <2>1. Len(edges) \in Nat /\ D = 1 .. Len(edges)
    BY <1>1
  <2>2. IsFiniteSet(1 .. Len(edges))
    BY <2>1, FS_Interval
  <2> QED
    BY <2>1, <2>2
<1> DEFINE sources == {edges[i].src : i \in D}
           targets == {edges[i].dst : i \in D}
<1>3. IsFiniteSet(sources)
  <2> DEFINE f == [i \in D |-> edges[i].src]
  <2>1. f \in Surjection(D, sources)
    BY DEF Surjection
  <2> HIDE DEF f, sources
  <2> QED
    BY <1>2, <2>1, FS_Surjection
<1>4. IsFiniteSet(targets)
  <2> DEFINE f == [i \in D |-> edges[i].dst]
  <2>1. f \in Surjection(D, targets)
    BY DEF Surjection
  <2> HIDE DEF f, targets
  <2> QED
    BY <1>2, <2>1, FS_Surjection
<1>5. PICK g : g = Graph(nodes, edges, constraints, provenance)
  OBVIOUS
<1>6. g.nodes = nodes \cup sources \cup targets /\ g.edges = edges
  BY <1>1, <1>5 DEF Graph
<1>7. IsFiniteSet(g.nodes)
  <2> HIDE DEF sources, targets
  <2>1. IsFiniteSet(nodes \cup sources)
    BY <1>3, FS_Union
  <2> QED
    BY <1>4, <1>6, <2>1, FS_Union
<1>8. IsSequence(g.edges)
  BY <1>1, <1>2, <1>6 DEF IsSequence
<1>9. \A i \in DOMAIN g.edges : {g.edges[i].src, g.edges[i].dst} \subseteq g.nodes
  BY <1>1, <1>6
<1> QED
  BY <1>5, <1>7, <1>8, <1>9 DEF IsGraph

\* The projection of a context is a graph.
LEMMA ProjectionIsGraph ==
  ASSUME NEW c, IsSequence(c.assumptions), IsSequence(c.branches), IsFiniteSet(c.deps)
  PROVE  IsGraph(BuildFromContext(c))
<1> DEFINE Has(f) == f # None
           named  == {AssumptionNode(i) : i \in DOMAIN c.assumptions}
           given  == (IF Has(c.origin) THEN {OriginNode} ELSE {})
                     \cup (IF Has(c.decision) THEN {DecisionNode} ELSE {})
                     \cup (IF Has(c.outcome) THEN {OutcomeNode} ELSE {})
                     \cup named
           cause  == IF Has(c.origin) /\ Has(c.decision)
                     THEN <<Edge(OriginNode, DecisionNode, "causal")>> ELSE <<>>
           effect == IF Has(c.decision) /\ Has(c.outcome)
                     THEN <<Edge(DecisionNode, OutcomeNode, "causal")>> ELSE <<>>
           inputs == IF Has(c.decision)
                     THEN [i \in DOMAIN c.assumptions |->
                             Edge(AssumptionNode(i), DecisionNode, "requires")]
                     ELSE <<>>
           answers == [j \in DOMAIN c.branches |->
                         Edge(AnswersTo(c, j), BranchNode(j), "causal")]
           needs   == [k \in 1 .. Cardinality(c.deps) |->
                         LET d == SetToSeq(c.deps)[k]
                         IN  Edge(AssumptionNode(d[2]), AssumptionNode(d[1]), "requires")]
           edges   == cause \o effect \o inputs \o answers \o needs
<1>1. /\ Len(c.assumptions) \in Nat /\ DOMAIN c.assumptions = 1 .. Len(c.assumptions)
      /\ Len(c.branches) \in Nat /\ DOMAIN c.branches = 1 .. Len(c.branches)
      /\ Cardinality(c.deps) \in Nat
  BY FS_CardinalityType DEF IsSequence
<1>2. BuildFromContext(c)
        = Graph(given, edges, DefaultConstraints, IF Has(c.origin) THEN 2 ELSE 1)
  BY DEF BuildFromContext
<1>3. IsFiniteSet(named)
  <2> DEFINE D == DOMAIN c.assumptions
             f == [i \in D |-> AssumptionNode(i)]
  <2>1. f \in Surjection(D, named)
    BY DEF Surjection
  <2>2. IsFiniteSet(D)
    <3>1. PICK n \in Nat : n = Len(c.assumptions)
      BY <1>1
    <3>2. IsFiniteSet(1 .. n)
      BY FS_Interval
    <3> QED
      BY <1>1, <3>1, <3>2
  <2> HIDE DEF f, named, D
  <2> QED
    BY <2>1, <2>2, FS_Surjection
<1>4. IsFiniteSet(given)
  <2> DEFINE A == IF Has(c.origin) THEN {OriginNode} ELSE {}
             B == IF Has(c.decision) THEN {DecisionNode} ELSE {}
             C == IF Has(c.outcome) THEN {OutcomeNode} ELSE {}
  <2>1. IsFiniteSet({})
    BY FS_EmptySet
  <2>2. IsFiniteSet({OriginNode}) /\ IsFiniteSet({DecisionNode}) /\ IsFiniteSet({OutcomeNode})
    BY FS_Singleton
  <2>3. IsFiniteSet(A) /\ IsFiniteSet(B) /\ IsFiniteSet(C)
    BY <2>1, <2>2
  <2> HIDE DEF A, B, C, named
  <2>4. IsFiniteSet(A \cup B)
    BY <2>3, FS_Union
  <2>5. IsFiniteSet(A \cup B \cup C)
    BY <2>3, <2>4, FS_Union
  <2>6. IsFiniteSet(A \cup B \cup C \cup named)
    BY <1>3, <2>5, FS_Union
  <2> QED
    BY <2>6 DEF A, B, C
<1>5. \E S : cause \in Seq(S)
  <2>1. PICK e : e = Edge(OriginNode, DecisionNode, "causal")
    OBVIOUS
  <2>2. <<e>> \in Seq({e}) /\ <<>> \in Seq({e})
    OBVIOUS
  <2>3. cause \in Seq({e})
    BY <2>1, <2>2
  <2> QED
    BY <2>3
<1>6. \E S : effect \in Seq(S)
  <2>1. PICK e : e = Edge(DecisionNode, OutcomeNode, "causal")
    OBVIOUS
  <2>2. <<e>> \in Seq({e}) /\ <<>> \in Seq({e})
    OBVIOUS
  <2>3. effect \in Seq({e})
    BY <2>1, <2>2
  <2> QED
    BY <2>3
<1>7. \E S : inputs \in Seq(S)
  <2> DEFINE f == [i \in 1 .. Len(c.assumptions) |->
                     Edge(AssumptionNode(i), DecisionNode, "requires")]
  <2>1. f = [i \in 1 .. Len(c.assumptions) |-> f[i]]
    OBVIOUS
  <2>2. inputs = f \/ inputs = <<>>
    BY <1>1
  <2> HIDE DEF f, inputs
  <2>3. \E S : f \in Seq(S)
    BY <1>1, <2>1, ListIsSeq
  <2>4. <<>> \in Seq({})
    OBVIOUS
  <2> QED
    BY <2>2, <2>3, <2>4
<1>8. \E S : answers \in Seq(S)
  <2> DEFINE f == [j \in 1 .. Len(c.branches) |->
                     Edge(AnswersTo(c, j), BranchNode(j), "causal")]
  <2>1. f = [i \in 1 .. Len(c.branches) |-> f[i]]
    OBVIOUS
  <2>2. answers = f
    BY <1>1
  <2> HIDE DEF f, answers
  <2> QED
    BY <1>1, <2>1, <2>2, ListIsSeq
<1>9. \E S : needs \in Seq(S)
  <2>1. needs = [i \in 1 .. Cardinality(c.deps) |-> needs[i]]
    OBVIOUS
  <2> HIDE DEF needs
  <2> QED
    BY <1>1, <2>1, ListIsSeq
<1> HIDE DEF cause, effect, inputs, answers, needs
<1>10. \E S : edges \in Seq(S)
  <2>1. \E S : cause \o effect \in Seq(S)
    BY <1>5, <1>6, JoinedIsSeq
  <2>2. \E S : cause \o effect \o inputs \in Seq(S)
    BY <1>7, <2>1, JoinedIsSeq
  <2>3. \E S : cause \o effect \o inputs \o answers \in Seq(S)
    BY <1>8, <2>2, JoinedIsSeq
  <2> QED
    BY <1>9, <2>3, JoinedIsSeq
<1> HIDE DEF edges, given
<1> QED
  BY <1>2, <1>4, <1>10, GraphIsGraph

Buildable(c) == GraphFields \subseteq DOMAIN c /\ WellFormed(c)

LEMMA TopologyIsGraph ==
  ASSUME NEW c, Buildable(c)
  PROVE  IsGraph(Topology(c))
<1>1. CASE c.topology # NoTopology
  BY <1>1 DEF Topology, Buildable, GraphFields, WellFormed
<1>2. CASE c.topology = NoTopology
  <2>1. IsSequence(c.assumptions) /\ IsSequence(c.branches) /\ IsFiniteSet(c.deps)
    BY DEF Buildable, GraphFields, WellFormed
  <2> QED
    BY <1>2, <2>1, ProjectionIsGraph DEF Topology
<1> QED
  BY <1>1, <1>2

LEMMA UpdatedIsBuildable ==
  ASSUME NEW c, Buildable(c), NEW d, WellFormed(d)
  PROVE  Buildable(Updated(c, d))
<1>1. PICK u : u = Updated(c, d)
  OBVIOUS
<1>2. DOMAIN u = DOMAIN c
  BY <1>1 DEF Updated
<1>3. \A f \in DOMAIN c : (f \in DOMAIN d /\ u[f] = d[f]) \/ u[f] = c[f]
  BY <1>1 DEF Updated
<1>4. \A f \in GraphFields : f \in DOMAIN c
  BY DEF Buildable
<1>5. IsSequence(u.assumptions) /\ IsSequence(u.branches) /\ IsFiniteSet(u.deps)
  BY <1>3, <1>4 DEF GraphFields, Buildable, WellFormed
<1>6. u.topology # NoTopology => IsGraph(u.topology)
  BY <1>3, <1>4 DEF GraphFields, Buildable, WellFormed
<1> QED
  BY <1>1, <1>2, <1>5, <1>6 DEF Buildable, WellFormed

\* A call's context stays of the fields a graph is built from, and so every
\* layer has a graph.
GraphInv ==
  /\ pc # "idle" =>
       /\ Buildable(context)
       /\ IsSequence(deltas)
       /\ \A i \in DOMAIN deltas : WellFormed(deltas[i])
  /\ layers # <<>> => IsGraph(Last(layers).graph)

LEMMA LayerKeepsGraphs ==
  ASSUME TypeInv, GraphInv, RunLayer
  PROVE  GraphInv'
<1>1. Buildable(context')
  <2>1. context' = InputContext /\ pc = "loop"
    BY DEF RunLayer
  <2>2. Buildable(context) /\ IsSequence(deltas) /\ \A i \in DOMAIN deltas : WellFormed(deltas[i])
    BY <2>1 DEF GraphInv
  <2>3. CASE idx < Len(deltas)
    <3>1. idx + 1 \in DOMAIN deltas
      BY <2>2, <2>3, EngineAssumption DEF TypeInv, TypeOK, IsSequence
    <3>2. context' = Updated(context, deltas[idx + 1])
      BY <2>1, <2>3 DEF InputContext
    <3> QED
      BY <2>2, <3>1, <3>2, UpdatedIsBuildable
  <2>4. CASE ~ (idx < Len(deltas))
    BY <2>1, <2>2, <2>4 DEF InputContext
  <2> QED
    BY <2>3, <2>4
<1> DEFINE layer == [state |-> state', risks |-> RiskSet(analysis'),
                     graph |-> Topology(context')]
<1>2. IsGraph(Last(layers').graph)
  <2>1. PICK S : layers \in Seq(S)
    BY DEF TypeInv
  <2>2. layers' = Append(layers, layer)
    BY DEF RunLayer
  <2>3. /\ Len(layers') = Len(layers) + 1
        /\ layers'[Len(layers) + 1] = layer
    BY <2>1, <2>2, OneMore
  <2>4. Last(layers') = layer
    BY <2>3 DEF Last
  <2> QED
    BY <1>1, <2>4, TopologyIsGraph
<1>3. UNCHANGED deltas /\ pc = "loop"
  BY DEF RunLayer
<1> QED
  BY <1>1, <1>2, <1>3 DEF GraphInv

LEMMA GraphInvariant == Spec => []GraphInv
<1>1. Init => GraphInv
  BY DEF Init, GraphInv
<1>2. TypeInv /\ GraphInv /\ [Next]_vars => GraphInv'
  <2> SUFFICES ASSUME TypeInv, GraphInv, [Next]_vars
               PROVE  GraphInv'
    OBVIOUS
  <2>1. ASSUME NEW call \in Calls, Evolve(call)
        PROVE  GraphInv'
    <3>1. /\ Buildable(call.context) /\ IsSequence(call.deltas)
          /\ \A i \in DOMAIN call.deltas : WellFormed(call.deltas[i])
      BY CallAssumption DEF Buildable
    <3>2. context' = call.context /\ deltas' = call.deltas /\ UNCHANGED layers
      BY <2>1 DEF Evolve, spiralVars
    <3> QED
      BY <3>1, <3>2 DEF GraphInv
  <2>2. CASE RunOutOfEnergy \/ RefuseEmptyDelta \/ AwaitHuman
    BY <2>2 DEF RunOutOfEnergy, RefuseEmptyDelta, AwaitHuman, Stop, spiralVars, GraphInv
  <2>3. CASE RunLayer
    BY <2>3, LayerKeepsGraphs
  <2>4. CASE RaiseInAudit \/ Scan
    BY <2>4 DEF RaiseInAudit, Scan, Return, GraphInv
  <2>5. ASSUME NEW p \in proposed \cup {OtherProposal}, Approve(p)
        PROVE  GraphInv'
    BY <2>5 DEF Approve, spiralVars, callVars, GraphInv
  <2>6. CASE UNCHANGED vars
    BY <2>6 DEF vars, engineVars, spiralVars, callVars, GraphInv
  <2> QED
    BY <2>1, <2>2, <2>3, <2>4, <2>5, <2>6 DEF Next
<1> QED
  BY <1>1, <1>2, TypeInvariant, PTL DEF Spec

\* The two searches of a graph agree: a causal paradox (T303) is reported
\* exactly when some node has no time (T308), and otherwise every edge goes
\* forward in time (topology.py:318-367, 371-472).
THEOREM OrderTheorem == Spec => []OrderIffAcyclic
<1>1. GraphInv => OrderIffAcyclic
  <2> SUFFICES ASSUME GraphInv, layers # <<>>,
                      NEW g, g = Last(layers).graph
               PROVE  /\ ("T303" \in WarningIssues(g)) <=> ("T308" \in WarningIssues(g))
                      /\ \/ "T308" \in WarningIssues(g)
                         \/ \A e \in ToSet(g.edges) : TimeOrder(g)[e.src] < TimeOrder(g)[e.dst]
    BY DEF OrderIffAcyclic
  <2>1. IsGraph(g)
    BY DEF GraphInv
  <2>2. ("T303" \in WarningIssues(g)) <=> FindCycles(g) # {}
    BY DEF WarningIssues, CheckClosure, CheckTimeOrder
  <2>3. ("T308" \in WarningIssues(g)) <=> Unassignable(g) # {}
    BY DEF WarningIssues, CheckClosure, CheckTimeOrder
  <2> QED
    BY <2>1, <2>2, <2>3, CyclesAreLoops, EdgesGoForward
<1> QED
  BY <1>1, GraphInvariant, PTL
=============================================================================
