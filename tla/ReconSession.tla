---------------------------- MODULE ReconSession ----------------------------
(***************************************************************************)
(* A reconstruction session driven by one caller at a time: any sequence   *)
(* of advance() and human_decision() calls on it (hub/session.py).  Both   *)
(* are synchronous and the engine holds no state, so a call is one step.   *)
(* An advance() whose delta variables are refused (ValueError) returns no  *)
(* session and is a stutter here.                                          *)
(***************************************************************************)
EXTENDS SessionEngine, SequencesExt

CONSTANT MaxRounds   \* bound: no round is begun beyond this many

ASSUME BoundAssumption == MaxRounds \in Nat

VARIABLE session

Init == \E request \in Requests, budget \in Budgets :
          session = Start(request, budget)

\* One reconstruction round, on a session in any status.
AdvanceSession ==
  \E d \in DeltaBatches \cup {NoDelta} :
    /\ Len(session.rounds) < MaxRounds
    /\ session' = Advance(session, d)

\* A human decision: sign-off, or evidence or rejection that re-opens.
DecideSession ==
  \E approved \in BOOLEAN, evidence \in Evidence :
    session' = HumanDecision(session, approved, evidence)

Next == AdvanceSession \/ DecideSession

Spec == Init /\ [][Next]_session

------------------------------------------------------------------------------
(***************************************************************************)
(* Properties                                                              *)
(***************************************************************************)

\* Type invariant.
TypeOK == session \in Session

\* "Converged" is only ever reported for a fixed point or for no gain, and
\* never for a used-up budget (checker.py:168-170, _stop_condition).
ConvergedIsGenuine == ConvergenceIsGenuine(session)

\* The recorded rounds form a hash chain, each round committing to its
\* contents and its predecessor (session.py:48-65 and 176-179).
HashChainIntact == RoundsLinked(session)

\* The session root hash always commits to all recorded rounds, and to
\* everything unless a human re-opened the session (session.py:193, 228-235).
RootHashCommits == RootCommits(session)

\* No sequence of rounds and human decisions takes an assumption back to
\* "assumed" (enums.py:88-89).
AssumedNeverReturns == NeverReassumed(session)

\* Whether round i was run with a budget used up by then.
RanOverBudget(i) == BudgetUsedUp(UsedBy(session, i), session.budget)

\* A round run on a used-up budget hands the session back to the human
\* only when it and the round before it reconstructed the same leading
\* candidates: the budget yields to a fixed point and to nothing else,
\* however the rounds and decisions interleave (checker.py:93-121).
BudgetYieldsToFixedPointOnly ==
  \A i \in DOMAIN session.rounds :
    session.rounds[i].needsHuman /\ RanOverBudget(i) =>
      /\ i > 1
      /\ HasConvergence(session.rounds[i - 1].delta)
      /\ session.rounds[i - 1].delta.leading = session.rounds[i].delta.leading

RoundRun == Len(session'.rounds) > Len(session.rounds)

\* Recorded rounds are never rewritten or dropped, and a sealed session
\* changes by a further round only, never by a human decision
\* (session.py:183 and 209-210).
HistoryAppendOnly ==
  [][/\ IsPrefix(session.rounds, session'.rounds)
     /\ session.status = "sealed" => RoundRun]_session

\* The engine never verifies: a round changes an assumption's state only to
\* "falsified", and only for what the round's delta variables name or what
\* depends on it.  The failures it declares are followed for good: nothing
\* that depends on one, in this round or any before, is open after it.  Only
\* a failure that a human declared leaves its dependents open
\* (session.py:146-150 and 238-247).
EngineOnlyFalsifies ==
  [][RoundRun =>
       /\ \A a \in Assumptions :
            session'.states[a] # session.states[a] =>
              /\ session'.states[a] = "falsified"
              /\ a \in DeltaInvalidated(Last(session'.rounds).delta)
       /\ \A i \in DOMAIN session'.rounds :
            \A a \in InvalidationClosure(Dependencies,
                       session'.rounds[i].delta.falsifies) :
              session'.states[a] # "assumed"]_session

\* P-2: after convergence on a fixed point, running the same delta again
\* changes nothing: it converges again with the same assumption states
\* (INTELLIGENT_DECISION_HUB_V0_4.md:105).
FixedPointIsStable ==
  [][/\ session.status = "converged"
     /\ session.kind = "fixed_point"
     /\ RoundRun
     /\ Last(session'.rounds).delta = Last(session.rounds).delta
     => /\ session'.status = "converged"
        /\ session'.kind = "fixed_point"
        /\ session'.states = session.states]_session

------------------------------------------------------------------------------
(***************************************************************************)
(* What the documentation says and the code does not do                    *)
(***************************************************************************)

\* "Only a human decision (approve / supply_evidence / reject) may move the
\* session to the next round" (session.py:8-9): a round is begun only on a
\* session that is active, as a new or a re-opened one is.
HumanGate == [][RoundRun => session.status = "active"]_session
=============================================================================
