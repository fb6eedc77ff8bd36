------------------------- MODULE ReconSession_proofs -------------------------
(***************************************************************************)
(* Proofs about the engine's operations and about ReconSession, for any    *)
(* request, budget, delta variables, evidence and number of rounds.        *)
(*                                                                         *)
(* The first parts are about the operations of a session as a value: they  *)
(* keep a session well formed and sound.  The last parts are about the     *)
(* session of one caller, and SessionHub_proofs uses the first ones again  *)
(* for calls that overlap.                                                 *)
(***************************************************************************)
EXTENDS ReconSession, SequenceTheorems, TLAPS

Deltas == DeltaBatches \cup {NoDelta}

------------------------------------------------------------------------------
(***************************************************************************)
(* Lemmas on the operations                                                *)
(***************************************************************************)

\* The delta variables of a round.
LEMMA DeltaTypes ==
  ASSUME NEW d \in Deltas
  PROVE  /\ d.size \in Nat
         /\ d.falsifies \subseteq Assumptions
         /\ d.leading \subseteq Candidates
         /\ DeltaInvalidated(d) \subseteq Assumptions
<1>1. DeltaInvalidated(d) \subseteq Assumptions
  BY DEF DeltaInvalidated, InvalidationClosure
<1>2. CASE d \in DeltaBatches
  BY <1>1, <1>2, SessionAssumption DEF BatchShape
<1>3. CASE d = NoDelta
  BY <1>1, <1>3 DEF NoDelta
<1> QED
  BY <1>2, <1>3 DEF Deltas

\* A round ends a session or hands it to the human; it never leaves it
\* active, and only a used-up budget or convergence is given a kind.
LEMMA StopTypes ==
  ASSUME NEW s, NEW d
  PROVE  /\ StopCondition(s, d).status \in
              {"awaiting_human", "converged", "budget_exceeded"}
         /\ StopCondition(s, d).kind \in ConvergenceKind
         /\ StopCondition(s, d).status = "awaiting_human" =>
              StopCondition(s, d).kind = "none"
         /\ StopCondition(s, d).status = "budget_exceeded" =>
              StopCondition(s, d).kind = "budget"
         /\ StopCondition(s, d).status = "converged" =>
              \/ /\ StopCondition(s, d).kind = "fixed_point"
                 /\ RoundVerdict(s, d) = "fixed_point"
                 /\ FixedPointAccepted(s, d)
              \/ /\ StopCondition(s, d).kind = "no_gain"
                 /\ RoundVerdict(s, d) = "no_gain"
                 /\ NoGainAccepted(s)
BY DEF StopCondition, ConvergenceKind

\* The hash a new round links to is a commitment.
LEMMA PreviousHashType ==
  ASSUME NEW rounds \in Seq(Round)
  PROVE  PreviousHash(rounds) \in Commitment
<1>1. CASE rounds = <<>>
  BY <1>1 DEF PreviousHash, Commitment
<1>2. CASE rounds # <<>>
  <2>1. rounds[Len(rounds)] \in Round
    BY <1>2, EmptySeq, ElementOfSeq
  <2> QED
    BY <1>2, <2>1 DEF PreviousHash, Round
<1> QED
  BY <1>1, <1>2

\* The record of a round: what it is made of.
LEMMA NextRoundFields ==
  ASSUME NEW s \in Session, NEW d \in Deltas
  PROVE  LET r == NextRound(s, d)
         IN  /\ r \in Round
             /\ r.index = Len(s.rounds)
             /\ r.delta = d
             /\ r.states = [a \in Assumptions |->
                              IF \/ a \in DeltaInvalidated(d)
                                 \/ s.states[a] = "falsified"
                              THEN "falsified" ELSE s.states[a]]
             /\ r.prev = PreviousHash(s.rounds)
             /\ r.hash = HashRound(r, r.prev)
<1> DEFINE invalidated == DeltaInvalidated(d) \cup ForwardInvalidated(s.states)
           states == [a \in Assumptions |->
                        IF a \in invalidated THEN "falsified" ELSE s.states[a]]
           human == StopCondition(s, d).status \in {"active", "awaiting_human"}
           p == PreviousHash(s.rounds)
           r0 == [index |-> Len(s.rounds), invalidated |-> invalidated,
                  delta |-> d, states |-> states, needsHuman |-> human,
                  prev |-> p, hash |-> <<>>]
           r == NextRound(s, d)
<1>1. /\ s.rounds \in Seq(Round) /\ Len(s.rounds) \in Nat
      /\ s.states \in [Assumptions -> AssumptionState]
  BY LenProperties DEF Session
<1>2. p \in Commitment
  BY <1>1, PreviousHashType
<1>3. invalidated \subseteq Assumptions
  BY DeltaTypes DEF ForwardInvalidated
<1>4. states \in [Assumptions -> AssumptionState]
  BY <1>1 DEF AssumptionState
<1>5. human \in BOOLEAN
  OBVIOUS
<1>6. r = [r0 EXCEPT !.hash = HashRound(r0, p)]
  BY DEF NextRound
<1> HIDE DEF invalidated, states, human, p
<1>7. /\ r.index = Len(s.rounds) /\ r.invalidated = invalidated /\ r.delta = d
      /\ r.states = states /\ r.needsHuman = human /\ r.prev = p
      /\ r.hash = HashRound(r0, p)
      /\ r = [index |-> Len(s.rounds), invalidated |-> invalidated,
              delta |-> d, states |-> states, needsHuman |-> human,
              prev |-> p, hash |-> HashRound(r0, p)]
  BY <1>6
<1>8. RoundContent(r0) = RoundContent(r)
  BY <1>7 DEF RoundContent
<1>9. RoundContent(r0) \in
        [index : Nat, invalidated : SUBSET Assumptions,
         paths : [size : Nat, falsifies : SUBSET Assumptions],
         changed : BOOLEAN, states : [Assumptions -> AssumptionState],
         needsHuman : BOOLEAN]
  <2>1. d.size \in Nat /\ d.falsifies \in SUBSET Assumptions
    BY DeltaTypes
  <2>2. (HasConvergence(d) /\ ~ IsConverged(d)) \in BOOLEAN
    OBVIOUS
  <2> QED
    BY <1>1, <1>3, <1>4, <1>5, <2>1, <2>2 DEF RoundContent
<1>10. HashRound(r0, p) \in Commitment
  BY <1>2, <1>9, AppendProperties DEF HashRound, Commitment
<1>11. r \in Round
  BY <1>1, <1>2, <1>3, <1>4, <1>5, <1>7, <1>10 DEF Round, Deltas
<1>12. r.hash = HashRound(r, r.prev)
  BY <1>7, <1>8 DEF HashRound
<1>13. states = [a \in Assumptions |->
                   IF \/ a \in DeltaInvalidated(d) \/ s.states[a] = "falsified"
                   THEN "falsified" ELSE s.states[a]]
  BY DEF states, invalidated, ForwardInvalidated
<1> QED
  BY <1>7, <1>11, <1>12, <1>13 DEF p

\* The session hash of any session with well-typed rounds, states, status.
LEMMA SessionHashType ==
  ASSUME NEW t, t.rounds \in Seq(Round), t.status \in SessionStatus,
         t.states \in [Assumptions -> AssumptionState]
  PROVE  HashSession(t) \in SessionHash
<1> DEFINE hashes == [i \in DOMAIN t.rounds |-> t.rounds[i].hash]
<1>1. /\ Len(t.rounds) \in Nat
      /\ DOMAIN t.rounds = 1 .. Len(t.rounds)
  BY LenProperties
<1>2. ASSUME NEW i \in 1 .. Len(t.rounds)
      PROVE  t.rounds[i].hash \in Commitment
  <2>1. t.rounds[i] \in Round
    BY ElementOfSeq
  <2> QED
    BY <2>1 DEF Round
<1>3. hashes \in [1 .. Len(t.rounds) -> Commitment]
  BY <1>1, <1>2
<1>4. hashes \in Seq(Commitment)
  BY <1>1, <1>3, SeqDef
<1> QED
  BY <1>4 DEF HashSession, SessionHash

\* What a round makes of each field of the session.
LEMMA AdvanceFields ==
  ASSUME NEW s \in Session, NEW d \in Deltas
  PROVE  LET t == Advance(s, d)
         IN  /\ t \in Session
             /\ t.request = s.request
             /\ t.budget = s.budget
             /\ t.rounds = Append(s.rounds, NextRound(s, d))
             /\ t.states = NextRound(s, d).states
             /\ t.status = StopCondition(s, d).status
             /\ t.kind = StopCondition(s, d).kind
             /\ t.rootHash = HashSession(t)
<1> DEFINE r == NextRound(s, d)
           stop == StopCondition(s, d)
           seal == s.sealedAt \/ stop.status \in {"converged", "budget_exceeded"}
           u == [s EXCEPT !.rounds = Append(@, r), !.states = r.states,
                          !.status = stop.status, !.kind = stop.kind,
                          !.sealedAt = seal]
           t == Advance(s, d)
<1>1. t = [u EXCEPT !.rootHash = HashSession(u)]
  BY DEF Advance
<1>2. r \in Round
  BY NextRoundFields
<1>3. /\ stop.status \in SessionStatus
      /\ stop.kind \in ConvergenceKind
  BY StopTypes DEF SessionStatus
<1>4. seal \in BOOLEAN
  OBVIOUS
<1> HIDE DEF r, stop, seal
<1>5. /\ u.rounds = Append(s.rounds, r) /\ u.states = r.states
      /\ u.status = stop.status /\ u.kind = stop.kind /\ u.sealedAt = seal
      /\ u.request = s.request /\ u.budget = s.budget
  BY DEF Session
<1>6. Append(s.rounds, r) \in Seq(Round)
  BY <1>2, AppendProperties DEF Session
<1>7. r.states \in [Assumptions -> AssumptionState]
  BY <1>2 DEF Round
<1>8. HashSession(u) \in SessionHash
  BY <1>3, <1>5, <1>6, <1>7, SessionHashType
<1>9. t = [request |-> s.request, budget |-> s.budget,
           rounds |-> Append(s.rounds, r), states |-> r.states,
           status |-> stop.status, kind |-> stop.kind,
           rootHash |-> HashSession(u), sealedAt |-> seal]
  BY <1>1 DEF Session
<1>10. HashSession(t) = HashSession(u)
  <2>1. t.rounds = u.rounds /\ t.states = u.states /\ t.status = u.status
    BY <1>5, <1>9
  <2> QED
    BY <2>1, Zenon DEF HashSession
<1>11. t \in Session
  BY <1>3, <1>4, <1>6, <1>7, <1>8, <1>9 DEF Session
<1> QED
  BY <1>9, <1>10, <1>11 DEF r, stop

\* Evidence gives an assumption a settled state or leaves it as it was.
LEMMA EvidenceTypes ==
  ASSUME NEW states \in [Assumptions -> AssumptionState],
         NEW evidence \in Evidence
  PROVE  /\ WithEvidence(states, evidence) \in [Assumptions -> AssumptionState]
         /\ \A a \in Assumptions :
              states[a] # "assumed" =>
                WithEvidence(states, evidence)[a] # "assumed"
<1>1. evidence \in [Assumptions -> AssumptionState]
  BY SessionAssumption
<1> QED
  BY <1>1 DEF WithEvidence, AssumptionState, TerminalState

\* What a human decision makes of each field of the session: nothing when
\* it is sealed; otherwise it is sealed and rehashed, or made active again.
LEMMA DecisionFields ==
  ASSUME NEW s \in Session, NEW approved \in BOOLEAN, NEW evidence \in Evidence
  PROVE  LET t == HumanDecision(s, approved, evidence)
         IN  /\ t \in Session
             /\ t.request = s.request
             /\ t.budget = s.budget
             /\ t.rounds = s.rounds
             /\ t.kind = s.kind
             /\ \/ s.status = "sealed" /\ t = s
                \/ /\ s.status # "sealed"
                   /\ t.states = WithEvidence(s.states, evidence)
                   /\ \/ t.status = "sealed" /\ t.rootHash = HashSession(t)
                      \/ t.status = "active" /\ t.rootHash = s.rootHash
<1> DEFINE states == WithEvidence(s.states, evidence)
           t == HumanDecision(s, approved, evidence)
<1>1. states \in [Assumptions -> AssumptionState]
  BY EvidenceTypes DEF Session
<1>2. CASE s.status = "sealed"
  <2>1. t = s
    BY <1>2 DEF HumanDecision
  <2> QED
    BY <1>2, <2>1
<1>3. CASE s.status # "sealed" /\ approved
  <2> DEFINE u == [s EXCEPT !.states = states, !.status = "sealed",
                            !.sealedAt = TRUE]
  <2>1. t = [u EXCEPT !.rootHash = HashSession(u)]
    BY <1>3 DEF HumanDecision, Seal
  <2> HIDE DEF states
  <2>2. /\ u.rounds = s.rounds /\ u.states = states /\ u.status = "sealed"
    BY DEF Session
  <2>3. t = [request |-> s.request, budget |-> s.budget,
             rounds |-> s.rounds, states |-> states, status |-> "sealed",
             kind |-> s.kind, rootHash |-> HashSession(u), sealedAt |-> TRUE]
    BY <2>1 DEF Session
  <2>4. HashSession(t) = HashSession(u)
    <3>1. t.rounds = u.rounds /\ t.states = u.states /\ t.status = u.status
      BY <2>2, <2>3
    <3> QED
      BY <3>1, Zenon DEF HashSession
  <2>5. HashSession(u) \in SessionHash
    BY <1>1, <2>2, SessionHashType DEF Session, SessionStatus
  <2>6. t \in Session
    BY <1>1, <2>3, <2>5 DEF Session, SessionStatus
  <2>7. /\ t.request = s.request /\ t.budget = s.budget
        /\ t.rounds = s.rounds /\ t.kind = s.kind
        /\ t.states = states /\ t.status = "sealed"
        /\ t.rootHash = HashSession(t)
    <3> HIDE DEF t, u
    <3> QED
      BY <2>3, <2>4
  <2> HIDE DEF t, u
  <2>8. t.states = WithEvidence(s.states, evidence)
    BY <2>7 DEF states
  <2> QED
    BY <1>3, <2>6, <2>7, <2>8 DEF t
<1>4. CASE s.status # "sealed" /\ ~approved
  <2>1. t = [s EXCEPT !.states = states, !.status = "active"]
    BY <1>4 DEF HumanDecision, Reopen
  <2> HIDE DEF states
  <2>2. t = [request |-> s.request, budget |-> s.budget,
             rounds |-> s.rounds, states |-> states, status |-> "active",
             kind |-> s.kind, rootHash |-> s.rootHash, sealedAt |-> s.sealedAt]
    BY <2>1 DEF Session
  <2>3. t \in Session
    BY <1>1, <2>2 DEF Session, SessionStatus
  <2> QED
    BY <1>4, <2>2, <2>3 DEF states
<1> QED
  BY <1>2, <1>3, <1>4

\* A new session.
LEMMA StartFields ==
  ASSUME NEW request \in Requests, NEW budget \in Budgets
  PROVE  Start(request, budget) \in Session
<1>1. <<>> \in Seq(Round)
  BY EmptySeq
<1> QED
  BY <1>1 DEF Start, Session, AssumptionState, SessionStatus, ConvergenceKind

------------------------------------------------------------------------------
(***************************************************************************)
(* The inductive invariant.  A round hands the session on in a status that *)
(* only rounds give, so such a status has a round behind it; and what a    *)
(* round's delta variables invalidate is falsified from then on.           *)
(***************************************************************************)

\* Only a round leaves a status other than active and sealed.
EndedByRound(s) == s.status \notin {"active", "sealed"} => s.rounds # <<>>

\* No decision has been taken since the session converged.
ConvergedAsOfLastRound(s) ==
  s.status = "converged" => /\ s.rounds # <<>>
                            /\ s.states = s.rounds[Len(s.rounds)].states

\* Each round's snapshot falsifies what its delta variables invalidate.
SnapshotsFalsify(s) ==
  \A i \in DOMAIN s.rounds : \A a \in DeltaInvalidated(s.rounds[i].delta) :
    s.rounds[i].states[a] = "falsified"

Sound(s) ==
  /\ s \in Session
  /\ RoundsLinked(s)
  /\ EndedByRound(s)
  /\ RootCommits(s)
  /\ NeverReassumed(s)
  /\ ConvergenceIsGenuine(s)
  /\ ConvergedAsOfLastRound(s)
  /\ SnapshotsFalsify(s)

\* The rounds of a session and the round a call adds to them.
LEMMA AdvanceRounds ==
  ASSUME NEW s \in Session, NEW d \in Deltas
  PROVE  LET t == Advance(s, d)
             n == Len(s.rounds)
         IN  /\ n \in Nat
             /\ DOMAIN s.rounds = 1 .. n
             /\ DOMAIN t.rounds = 1 .. n + 1
             /\ Len(t.rounds) = n + 1
             /\ \A i \in 1 .. n : /\ t.rounds[i] = s.rounds[i]
                                 /\ s.rounds[i] \in Round
             /\ t.rounds[n + 1] = NextRound(s, d)
<1>1. /\ s.rounds \in Seq(Round)
      /\ NextRound(s, d) \in Round
      /\ Advance(s, d).rounds = Append(s.rounds, NextRound(s, d))
  BY AdvanceFields, NextRoundFields DEF Session
<1>2. /\ Len(s.rounds) \in Nat
      /\ DOMAIN s.rounds = 1 .. Len(s.rounds)
  BY <1>1, LenProperties
<1>3. Advance(s, d).rounds \in Seq(Round)
  BY <1>1, AppendProperties
<1>4. DOMAIN Advance(s, d).rounds = 1 .. Len(Advance(s, d).rounds)
  BY <1>3, LenProperties
<1>5. \A i \in 1 .. Len(s.rounds) : s.rounds[i] \in Round
  BY <1>1, ElementOfSeq
<1>6. /\ Len(Advance(s, d).rounds) = Len(s.rounds) + 1
      /\ \A i \in 1 .. Len(s.rounds) : Advance(s, d).rounds[i] = s.rounds[i]
      /\ Advance(s, d).rounds[Len(s.rounds) + 1] = NextRound(s, d)
  BY <1>1, AppendProperties
<1> QED
  BY <1>2, <1>4, <1>5, <1>6

\* The round before the one now run, and its hash.
LEMMA PreviousRound ==
  ASSUME NEW s \in Session
  PROVE  LET n == Len(s.rounds)
         IN  /\ n = 0 <=> s.rounds = <<>>
             /\ PreviousHash(s.rounds) =
                  IF n = 0 THEN <<>> ELSE s.rounds[n].hash
<1>1. s.rounds \in Seq(Round)
  BY DEF Session
<1>2. Len(s.rounds) = 0 <=> s.rounds = <<>>
  BY <1>1, EmptySeq
<1> QED
  BY <1>2 DEF PreviousHash

\* A round extends the hash chain by one link.
LEMMA AdvanceLinks ==
  ASSUME NEW s \in Session, NEW d \in Deltas, RoundsLinked(s)
  PROVE  RoundsLinked(Advance(s, d))
<1> DEFINE t == Advance(s, d)
           n == Len(s.rounds)
           r == NextRound(s, d)
<1>1. /\ n \in Nat
      /\ DOMAIN s.rounds = 1 .. n
      /\ DOMAIN t.rounds = 1 .. n + 1
      /\ \A i \in 1 .. n : t.rounds[i] = s.rounds[i]
      /\ t.rounds[n + 1] = r
  BY AdvanceRounds
<1>2. /\ r.index = n
      /\ r.prev = IF n = 0 THEN <<>> ELSE s.rounds[n].hash
      /\ r.hash = HashRound(r, r.prev)
  BY NextRoundFields, PreviousRound
<1> HIDE DEF t, n, r
<1> SUFFICES ASSUME NEW i \in DOMAIN t.rounds
             PROVE  /\ t.rounds[i].index = i - 1
                    /\ t.rounds[i].prev =
                         IF i = 1 THEN <<>> ELSE t.rounds[i - 1].hash
                    /\ t.rounds[i].hash = HashRound(t.rounds[i], t.rounds[i].prev)
  BY DEF RoundsLinked, t
<1>3. CASE i = n + 1
  BY <1>1, <1>2, <1>3
<1>4. CASE i # n + 1
  <2>1. i \in 1 .. n /\ (i # 1 => i - 1 \in 1 .. n)
    BY <1>1, <1>4
  <2>2. /\ t.rounds[i] = s.rounds[i]
        /\ i # 1 => t.rounds[i - 1] = s.rounds[i - 1]
    BY <1>1, <2>1
  <2>3. /\ s.rounds[i].index = i - 1
        /\ s.rounds[i].prev = IF i = 1 THEN <<>> ELSE s.rounds[i - 1].hash
        /\ s.rounds[i].hash = HashRound(s.rounds[i], s.rounds[i].prev)
    BY <1>1, <2>1 DEF RoundsLinked
  <2> QED
    BY <2>2, <2>3
<1> QED
  BY <1>3, <1>4

\* The assumption states after a round.
LEMMA AdvanceStates ==
  ASSUME NEW s \in Session, NEW d \in Deltas
  PROVE  Advance(s, d).states =
           [a \in Assumptions |->
              IF \/ a \in DeltaInvalidated(d)
                 \/ s.states[a] = "falsified"
              THEN "falsified" ELSE s.states[a]]
<1>1. Advance(s, d).states = NextRound(s, d).states
  BY AdvanceFields
<1>2. NextRound(s, d).states =
        [a \in Assumptions |->
           IF \/ a \in DeltaInvalidated(d)
              \/ s.states[a] = "falsified"
           THEN "falsified" ELSE s.states[a]]
  BY NextRoundFields
<1> QED
  BY <1>1, <1>2

\* The delta variables and the snapshot of the round a call adds.
LEMMA LastRound ==
  ASSUME NEW s \in Session, NEW d \in Deltas
  PROVE  LET t == Advance(s, d)
             r == t.rounds[Len(s.rounds) + 1]
         IN  r.delta = d /\ r.states = t.states
<1>1. Advance(s, d).rounds[Len(s.rounds) + 1] = NextRound(s, d)
  BY AdvanceRounds
<1>2. NextRound(s, d).delta = d
  BY NextRoundFields
<1>3. Advance(s, d).states = NextRound(s, d).states
  BY AdvanceFields
<1> QED
  BY <1>1, <1>2, <1>3

\* Once out of "assumed", no round brings an assumption back.
LEMMA AdvanceNeverReassumes ==
  ASSUME NEW s \in Session, NEW d \in Deltas, NeverReassumed(s)
  PROVE  NeverReassumed(Advance(s, d))
<1> DEFINE t == Advance(s, d)
           n == Len(s.rounds)
<1>1. /\ n \in Nat
      /\ DOMAIN s.rounds = 1 .. n
      /\ DOMAIN t.rounds = 1 .. n + 1
      /\ Len(t.rounds) = n + 1
      /\ \A i \in 1 .. n : t.rounds[i] = s.rounds[i]
  BY AdvanceRounds
<1>2. t.rounds[n + 1].states = t.states
  BY LastRound
<1>3. \A a \in Assumptions : s.states[a] # "assumed" => t.states[a] # "assumed"
  <2>1. t.states = [a \in Assumptions |->
                      IF \/ a \in DeltaInvalidated(d)
                         \/ s.states[a] = "falsified"
                      THEN "falsified" ELSE s.states[a]]
    BY AdvanceStates
  <2> HIDE DEF t
  <2> QED
    BY <2>1
<1> HIDE DEF t, n
<1> SUFFICES ASSUME NEW i \in DOMAIN t.rounds, NEW a \in Assumptions,
                    t.rounds[i].states[a] # "assumed"
             PROVE  /\ t.states[a] # "assumed"
                    /\ \A j \in i .. Len(t.rounds) :
                         t.rounds[j].states[a] # "assumed"
  BY DEF NeverReassumed, t
<1>4. CASE i = n + 1
  BY <1>1, <1>2, <1>4
<1>5. CASE i # n + 1
  <2>1. i \in 1 .. n
    BY <1>1, <1>5
  <2>2. /\ s.states[a] # "assumed"
        /\ \A j \in i .. n : s.rounds[j].states[a] # "assumed"
    BY <1>1, <2>1 DEF NeverReassumed, n
  <2>3. t.states[a] # "assumed"
    BY <1>3, <2>2
  <2>4. ASSUME NEW j \in i .. n + 1
        PROVE  t.rounds[j].states[a] # "assumed"
    <3>1. CASE j = n + 1
      BY <1>2, <2>3, <3>1
    <3>2. CASE j # n + 1
      BY <1>1, <2>1, <2>2, <3>2
    <3> QED
      BY <3>1, <3>2
  <2> QED
    BY <1>1, <2>3, <2>4
<1> QED
  BY <1>4, <1>5

\* A round that the checker classifies as a fixed point reconstructed the
\* leading candidates of the round before it; one it classifies as no gain
\* ran on a budget that is not used up.
LEMMA VerdictMeans ==
  ASSUME NEW s \in Session, NEW d \in Deltas
  PROVE  LET n == Len(s.rounds)
         IN  /\ RoundVerdict(s, d) = "fixed_point" =>
                  /\ n > 0
                  /\ HasConvergence(s.rounds[n].delta)
                  /\ s.rounds[n].delta.leading = d.leading
             /\ RoundVerdict(s, d) = "no_gain" =>
                  n + 1 < s.budget.maxIterations
             /\ PreviousCandidates(s) = d.leading =>
                  RoundVerdict(s, d) = "fixed_point"
<1> DEFINE n == Len(s.rounds)
           used == BudgetUsedUp(UsedBy(s, n + 1), s.budget)
<1>1. /\ n \in Nat
      /\ s.budget.maxIterations \in Nat
  BY LenProperties, SessionAssumption DEF Session, BudgetShape
<1>2. RoundVerdict(s, d) =
        CASE PreviousCandidates(s) = d.leading -> "fixed_point"
          [] PreviousCandidates(s) # d.leading /\ used -> "budget_exhausted"
          [] PreviousCandidates(s) # d.leading /\ ~used ->
               IF s.request.unresolved <= 0 THEN "no_gain" ELSE "diverged"
  BY DEF RoundVerdict, Evaluate, PropositionFixedPoint
<1>3. d.leading # {""}
  BY DeltaTypes, SessionAssumption
<1>4. ~ used => n + 1 < s.budget.maxIterations
  BY <1>1 DEF BudgetUsedUp, UsedBy
<1>5. PreviousCandidates(s) = d.leading =>
        /\ n > 0
        /\ HasConvergence(s.rounds[n].delta)
        /\ s.rounds[n].delta.leading = d.leading
  BY <1>3 DEF PreviousCandidates
<1> HIDE DEF used
<1> QED
  BY <1>2, <1>4, <1>5

\* A round reports convergence for a reason that holds of the session.
LEMMA AdvanceGenuine ==
  ASSUME NEW s \in Session, NEW d \in Deltas
  PROVE  ConvergenceIsGenuine(Advance(s, d))
<1> DEFINE t == Advance(s, d)
           n == Len(s.rounds)
           stop == StopCondition(s, d)
<1>1. /\ n \in Nat
      /\ Len(t.rounds) = n + 1
      /\ \A i \in 1 .. n : t.rounds[i] = s.rounds[i]
  BY AdvanceRounds
<1>2. t.rounds[n + 1].delta = d
  BY LastRound
<1>3. t.status = stop.status /\ t.kind = stop.kind
  BY AdvanceFields
<1>4. t.request = s.request /\ t.budget = s.budget
  BY AdvanceFields
<1>5. \A a \in Assumptions : s.states[a] # "assumed" => t.states[a] # "assumed"
  <2>1. t.states = [a \in Assumptions |->
                      IF \/ a \in DeltaInvalidated(d)
                         \/ s.states[a] = "falsified"
                      THEN "falsified" ELSE s.states[a]]
    BY AdvanceStates
  <2> HIDE DEF t
  <2> QED
    BY <2>1
<1>6. ASSUME RoundVerdict(s, d) = "fixed_point", FixedPointAccepted(s, d)
      PROVE  FixedPointReached(t)
  <2>1. /\ n > 0
        /\ HasConvergence(s.rounds[n].delta)
        /\ s.rounds[n].delta.leading = d.leading
    BY <1>6, VerdictMeans
  <2>2. t.rounds[n] = s.rounds[n]
    BY <1>1, <2>1
  <2>3. HasConvergence(d) /\ IsConverged(d) /\ s.request.hypotheses = 0
    BY <1>6 DEF FixedPointAccepted
  <2>4. IsConverged(s.rounds[n].delta)
    BY <2>1, <2>3 DEF IsConverged
  <2> HIDE DEF t, n
  <2>5. \A i \in {(n + 1) - 1, n + 1} : /\ HasConvergence(t.rounds[i].delta)
                                       /\ IsConverged(t.rounds[i].delta)
    BY <1>1, <1>2, <2>1, <2>2, <2>3, <2>4
  <2> QED
    BY <1>1, <1>4, <2>1, <2>3, <2>5 DEF FixedPointReached
<1>7. ASSUME RoundVerdict(s, d) = "no_gain", NoGainAccepted(s)
      PROVE  NothingLeftToLearn(t)
  <2>1. n + 1 < s.budget.maxIterations
    BY <1>7, VerdictMeans
  <2> HIDE DEF t, n
  <2> QED
    BY <1>1, <1>4, <1>5, <1>7, <2>1 DEF NothingLeftToLearn, NoGainAccepted
<1> QED
  BY <1>3, <1>6, <1>7, StopTypes DEF ConvergenceIsGenuine

\* A round's snapshot is the state of the session it leaves.
LEMMA AdvanceSnapshots ==
  ASSUME NEW s \in Session, NEW d \in Deltas, SnapshotsFalsify(s)
  PROVE  /\ SnapshotsFalsify(Advance(s, d))
         /\ ConvergedAsOfLastRound(Advance(s, d))
<1> DEFINE t == Advance(s, d)
           n == Len(s.rounds)
<1>1. /\ n \in Nat
      /\ DOMAIN s.rounds = 1 .. n
      /\ DOMAIN t.rounds = 1 .. n + 1
      /\ Len(t.rounds) = n + 1
      /\ \A i \in 1 .. n : t.rounds[i] = s.rounds[i]
  BY AdvanceRounds
<1>2. t.rounds[n + 1].delta = d /\ t.rounds[n + 1].states = t.states
  BY LastRound
<1>3. t.rounds # <<>>
  BY <1>1, EmptySeq
<1>4. \A a \in DeltaInvalidated(d) : t.states[a] = "falsified"
  <2>1. t.states = [a \in Assumptions |->
                      IF \/ a \in DeltaInvalidated(d)
                         \/ s.states[a] = "falsified"
                      THEN "falsified" ELSE s.states[a]]
    BY AdvanceStates
  <2> HIDE DEF t
  <2> QED
    BY <2>1, DeltaTypes
<1> HIDE DEF t, n
<1>5. SnapshotsFalsify(t)
  <2> SUFFICES ASSUME NEW i \in DOMAIN t.rounds,
                      NEW a \in DeltaInvalidated(t.rounds[i].delta)
               PROVE  t.rounds[i].states[a] = "falsified"
    BY DEF SnapshotsFalsify
  <2>1. CASE i = n + 1
    BY <1>2, <1>4, <2>1
  <2>2. CASE i # n + 1
    <3>1. i \in DOMAIN s.rounds /\ t.rounds[i] = s.rounds[i]
      BY <1>1, <2>2
    <3> QED
      BY <3>1 DEF SnapshotsFalsify
  <2> QED
    BY <2>1, <2>2
<1>6. ConvergedAsOfLastRound(t)
  BY <1>1, <1>2, <1>3 DEF ConvergedAsOfLastRound
<1> QED
  BY <1>5, <1>6 DEF t

\* A round keeps a sound session sound.
LEMMA AdvanceSound ==
  ASSUME NEW s, Sound(s), NEW d \in Deltas
  PROVE  Sound(Advance(s, d))
<1> DEFINE t == Advance(s, d)
<1>1. s \in Session /\ t \in Session
  BY AdvanceFields DEF Sound
<1>2. t.status # "active" /\ t.rootHash = HashSession(t)
  BY <1>1, AdvanceFields, StopTypes
<1>3. t.rounds # <<>>
  BY <1>1, AdvanceRounds, EmptySeq
<1>4. RoundsLinked(t)
  BY <1>1, AdvanceLinks DEF Sound
<1>5. NeverReassumed(t)
  BY <1>1, AdvanceNeverReassumes DEF Sound
<1>6. ConvergenceIsGenuine(t)
  BY <1>1, AdvanceGenuine
<1>7. SnapshotsFalsify(t) /\ ConvergedAsOfLastRound(t)
  BY <1>1, AdvanceSnapshots DEF Sound
<1> HIDE DEF t
<1>8. EndedByRound(t)
  BY <1>3 DEF EndedByRound
<1>9. RootCommits(t)
  BY <1>2 DEF RootCommits
<1> QED
  BY <1>1, <1>4, <1>5, <1>6, <1>7, <1>8, <1>9 DEF Sound, t

\* A human decision keeps a sound session sound.
LEMMA DecisionSound ==
  ASSUME NEW s, Sound(s), NEW approved \in BOOLEAN, NEW evidence \in Evidence
  PROVE  Sound(HumanDecision(s, approved, evidence))
<1> DEFINE t == HumanDecision(s, approved, evidence)
<1>1. /\ s \in Session /\ t \in Session
      /\ t.rounds = s.rounds
      /\ \/ s.status = "sealed" /\ t = s
         \/ /\ s.status # "sealed"
            /\ t.states = WithEvidence(s.states, evidence)
            /\ \/ t.status = "sealed" /\ t.rootHash = HashSession(t)
               \/ t.status = "active" /\ t.rootHash = s.rootHash
  BY DecisionFields DEF Sound
<1> HIDE DEF t
<1>2. CASE s.status = "sealed"
  BY <1>1, <1>2 DEF t
<1>3. CASE s.status # "sealed"
  <2>1. t.status \in {"sealed", "active"}
    BY <1>1, <1>3
  <2>2. RoundsLinked(t)
    BY <1>1 DEF RoundsLinked, Sound
  <2>3. /\ EndedByRound(t)
        /\ ConvergenceIsGenuine(t)
        /\ ConvergedAsOfLastRound(t)
    BY <2>1 DEF EndedByRound, ConvergenceIsGenuine, ConvergedAsOfLastRound
  <2>4. SnapshotsFalsify(t)
    BY <1>1 DEF SnapshotsFalsify, Sound
  <2>5. NeverReassumed(t)
    <3>1. \A a \in Assumptions : s.states[a] # "assumed" =>
            t.states[a] # "assumed"
      BY <1>1, <1>3, EvidenceTypes DEF Session
    <3> QED
      BY <1>1, <3>1 DEF NeverReassumed, Sound
  <2>6. RootCommits(t)
    <3>1. CASE t.status = "sealed"
      BY <1>1, <1>3, <3>1 DEF RootCommits
    <3>2. CASE t.status = "active"
      <4>1. t.rootHash = s.rootHash
        BY <1>1, <1>3, <3>2
      <4>2. HashSession(t).rounds = HashSession(s).rounds
        BY <1>1 DEF HashSession
      <4>3. CASE s.status = "active"
        BY <1>1, <3>2, <4>1, <4>2, <4>3 DEF RootCommits, Sound
      <4>4. CASE s.status # "active"
        <5>1. s.rounds # <<>> /\ s.rootHash = HashSession(s)
          BY <1>3, <4>4 DEF Sound, EndedByRound, RootCommits
        <5>2. HashSession(s) \in SessionHash
          BY <1>1, SessionHashType DEF Session
        <5>3. s.rootHash # NoHash
          BY <5>1, <5>2, HashAssumption
        <5> QED
          BY <1>1, <3>2, <4>1, <4>2, <5>1, <5>3 DEF RootCommits
      <4> QED
        BY <4>3, <4>4
    <3> QED
      BY <2>1, <3>1, <3>2
  <2> QED
    BY <1>1, <2>2, <2>3, <2>4, <2>5, <2>6 DEF Sound, t
<1> QED
  BY <1>2, <1>3 DEF t

\* A new session is sound.
LEMMA StartSound ==
  ASSUME NEW request \in Requests, NEW budget \in Budgets
  PROVE  Sound(Start(request, budget))
<1> DEFINE s == Start(request, budget)
<1>1. s \in Session
  BY StartFields
<1>2. /\ s.rounds = <<>> /\ DOMAIN s.rounds = {} /\ s.status = "active"
      /\ s.rootHash = NoHash
  BY DEF Start
<1> HIDE DEF s
<1>3. RoundsLinked(s) /\ NeverReassumed(s) /\ SnapshotsFalsify(s)
  BY <1>2 DEF RoundsLinked, NeverReassumed, SnapshotsFalsify
<1>4. /\ EndedByRound(s) /\ ConvergenceIsGenuine(s) /\ ConvergedAsOfLastRound(s)
      /\ RootCommits(s)
  BY <1>2 DEF EndedByRound, ConvergenceIsGenuine, ConvergedAsOfLastRound,
              RootCommits
<1> QED
  BY <1>1, <1>3, <1>4 DEF Sound, s

------------------------------------------------------------------------------
(***************************************************************************)
(* The budget of a round: what was used up when it ran is a function of    *)
(* the rounds before it, so neither later rounds nor decisions change it.  *)
(***************************************************************************)

\* The evidence requests before a round depend on the rounds before it only.
LEMMA EvidenceRequestsKept ==
  ASSUME NEW s, NEW t, NEW k \in Nat, t.request = s.request,
         \A i \in 1 .. k : t.rounds[i] = s.rounds[i]
  PROVE  EvidenceRequests(t, k) = EvidenceRequests(s, k)
<1> DEFINE Step(u, f) ==
             [i \in 0 .. k |->
                IF i = 0 THEN u.request.hypotheses
                ELSE f[i - 1] + u.rounds[i].delta.size + u.request.hypotheses]
<1>1. \A f : Step(s, f) = Step(t, f)
  <2> SUFFICES ASSUME NEW f, NEW i \in 0 .. k
               PROVE  Step(s, f)[i] = Step(t, f)[i]
    OBVIOUS
  <2>1. i = 0 \/ i \in 1 .. k
    OBVIOUS
  <2> QED
    BY <2>1
<1>2. (CHOOSE f : f = Step(s, f)) = (CHOOSE f : f = Step(t, f))
  <2> HIDE DEF Step
  <2> QED
    BY <1>1, Zenon
<1>3. EvidenceRequests(s, k) = (CHOOSE f : f = Step(s, f))[k]
  BY DEF EvidenceRequests
<1>4. EvidenceRequests(t, k) = (CHOOSE f : f = Step(t, f))[k]
  BY DEF EvidenceRequests
<1> HIDE DEF Step
<1> QED
  BY <1>2, <1>3, <1>4

\* Every round that ran on a used-up budget and handed the session back
\* repeated the leading candidates of the round before it.
BudgetYields(s) ==
  \A i \in DOMAIN s.rounds :
    s.rounds[i].needsHuman /\ BudgetUsedUp(UsedBy(s, i), s.budget) =>
      /\ i > 1
      /\ HasConvergence(s.rounds[i - 1].delta)
      /\ s.rounds[i - 1].delta.leading = s.rounds[i].delta.leading

\* What a round was begun with is fixed once the rounds before it are.
LEMMA UsedByKept ==
  ASSUME NEW s, NEW t, NEW i \in Nat \ {0}, t.request = s.request,
         \A j \in 1 .. i - 1 : t.rounds[j] = s.rounds[j]
  PROVE  UsedBy(t, i) = UsedBy(s, i)
<1>1. EvidenceRequests(t, i - 1) = EvidenceRequests(s, i - 1)
  BY EvidenceRequestsKept
<1> QED
  BY <1>1 DEF UsedBy

\* A round needs the human only when it is given no verdict that stops.
LEMMA NeedsHumanMeans ==
  ASSUME NEW s \in Session, NEW d \in Deltas, NextRound(s, d).needsHuman,
         BudgetUsedUp(UsedBy(s, Len(s.rounds) + 1), s.budget)
  PROVE  PreviousCandidates(s) = d.leading
<1>1. NextRound(s, d).needsHuman
        = (StopCondition(s, d).status \in {"active", "awaiting_human"})
  BY DEF NextRound
<1>2. RoundVerdict(s, d) # "budget_exhausted"
  BY <1>1 DEF StopCondition
<1> QED
  BY <1>2 DEF RoundVerdict, Evaluate, PropositionFixedPoint

\* A round keeps to it.
LEMMA AdvanceBudgetYields ==
  ASSUME NEW s \in Session, NEW d \in Deltas, BudgetYields(s)
  PROVE  BudgetYields(Advance(s, d))
<1> DEFINE t == Advance(s, d)
           n == Len(s.rounds)
<1>1. /\ n \in Nat
      /\ DOMAIN s.rounds = 1 .. n
      /\ DOMAIN t.rounds = 1 .. n + 1
      /\ \A i \in 1 .. n : t.rounds[i] = s.rounds[i]
      /\ t.rounds[n + 1] = NextRound(s, d)
  BY AdvanceRounds
<1>2. t.request = s.request /\ t.budget = s.budget
  BY AdvanceFields
<1>3. NextRound(s, d).delta = d
  BY NextRoundFields
<1> HIDE DEF t, n
<1> SUFFICES ASSUME NEW i \in DOMAIN t.rounds, t.rounds[i].needsHuman,
                    BudgetUsedUp(UsedBy(t, i), t.budget)
             PROVE  /\ i > 1
                    /\ HasConvergence(t.rounds[i - 1].delta)
                    /\ t.rounds[i - 1].delta.leading = t.rounds[i].delta.leading
  BY DEF BudgetYields, t
<1>4. UsedBy(t, i) = UsedBy(s, i)
  <2>1. i \in Nat \ {0} /\ \A j \in 1 .. i - 1 : t.rounds[j] = s.rounds[j]
    BY <1>1
  <2> QED
    BY <1>2, <2>1, UsedByKept
<1>5. CASE i = n + 1
  <2>1. PreviousCandidates(s) = d.leading
    BY <1>1, <1>2, <1>4, <1>5, NeedsHumanMeans DEF n
  <2>2. RoundVerdict(s, d) = "fixed_point"
    BY <2>1, VerdictMeans
  <2>3. /\ n > 0
        /\ HasConvergence(s.rounds[n].delta)
        /\ s.rounds[n].delta.leading = d.leading
    BY <2>2, VerdictMeans DEF n
  <2>4. t.rounds[i - 1] = s.rounds[n] /\ t.rounds[i].delta = d
    BY <1>1, <1>3, <1>5, <2>3
  <2> QED
    BY <1>1, <1>5, <2>3, <2>4
<1>6. CASE i # n + 1
  <2>1. i \in DOMAIN s.rounds /\ t.rounds[i] = s.rounds[i]
    BY <1>1, <1>6
  <2>2. /\ i > 1
        /\ HasConvergence(s.rounds[i - 1].delta)
        /\ s.rounds[i - 1].delta.leading = s.rounds[i].delta.leading
    BY <1>2, <1>4, <2>1 DEF BudgetYields
  <2>3. t.rounds[i - 1] = s.rounds[i - 1]
    BY <1>1, <2>1, <2>2
  <2> QED
    BY <2>1, <2>2, <2>3
<1> QED
  BY <1>5, <1>6

\* A human decision runs no round and leaves request and budget alone.
LEMMA DecisionBudgetYields ==
  ASSUME NEW s \in Session, BudgetYields(s),
         NEW approved \in BOOLEAN, NEW evidence \in Evidence
  PROVE  BudgetYields(HumanDecision(s, approved, evidence))
<1> DEFINE t == HumanDecision(s, approved, evidence)
<1>1. t.rounds = s.rounds /\ t.request = s.request /\ t.budget = s.budget
  BY DecisionFields
<1>2. DOMAIN s.rounds \subseteq Nat \ {0}
  BY LenProperties DEF Session
<1> HIDE DEF t
<1>3. ASSUME NEW i \in DOMAIN s.rounds
      PROVE  UsedBy(t, i) = UsedBy(s, i)
  BY <1>1, <1>2, UsedByKept
<1> QED
  BY <1>1, <1>3 DEF BudgetYields, t

------------------------------------------------------------------------------
(***************************************************************************)
(* Type correctness                                                        *)
(***************************************************************************)

\* Every call leaves a well-formed session (session.py:111-235).
THEOREM TypeCorrect == Spec => []TypeOK
<1>1. Init => TypeOK
  BY StartFields DEF Init, TypeOK
<1>2. TypeOK /\ [Next]_session => TypeOK'
  <2> SUFFICES ASSUME TypeOK, [Next]_session
               PROVE  TypeOK'
    OBVIOUS
  <2>1. CASE AdvanceSession
    BY <2>1, AdvanceFields DEF AdvanceSession, Deltas, TypeOK
  <2>2. CASE DecideSession
    BY <2>2, DecisionFields DEF DecideSession, TypeOK
  <2>3. CASE UNCHANGED session
    BY <2>3 DEF TypeOK
  <2> QED
    BY <2>1, <2>2, <2>3 DEF Next
<1> QED
  BY <1>1, <1>2, PTL DEF Spec

------------------------------------------------------------------------------
(***************************************************************************)
(* The safety properties                                                   *)
(***************************************************************************)

SoundSession == Sound(session)

\* Every call keeps the session sound.
LEMMA SoundIsInvariant == Spec => []SoundSession
<1>1. Init => SoundSession
  BY StartSound DEF Init, SoundSession
<1>2. SoundSession /\ [Next]_session => SoundSession'
  <2> SUFFICES ASSUME SoundSession, [Next]_session
               PROVE  SoundSession'
    OBVIOUS
  <2>1. CASE AdvanceSession
    BY <2>1, AdvanceSound DEF AdvanceSession, Deltas, SoundSession
  <2>2. CASE DecideSession
    BY <2>2, DecisionSound DEF DecideSession, SoundSession
  <2>3. CASE UNCHANGED session
    BY <2>3 DEF SoundSession
  <2> QED
    BY <2>1, <2>2, <2>3 DEF Next
<1> QED
  BY <1>1, <1>2, PTL DEF Spec

\* Convergence is reported for a fixed point or for no gain, never for a
\* used-up budget (checker.py:168-170, session.py:249-328).
THEOREM ConvergenceTheorem == Spec => []ConvergedIsGenuine
<1>1. SoundSession => ConvergedIsGenuine
  BY DEF SoundSession, Sound, ConvergedIsGenuine
<1> QED
  BY <1>1, SoundIsInvariant, PTL

\* The recorded rounds form a hash chain (session.py:48-65 and 176-179).
THEOREM HashChainTheorem == Spec => []HashChainIntact
<1>1. SoundSession => HashChainIntact
  BY DEF SoundSession, Sound, HashChainIntact
<1> QED
  BY <1>1, SoundIsInvariant, PTL

\* The root hash commits to every recorded round, and to the whole session
\* unless a human re-opened it (session.py:193 and 228-235).
THEOREM RootHashTheorem == Spec => []RootHashCommits
<1>1. SoundSession => RootHashCommits
  BY DEF SoundSession, Sound, RootHashCommits
<1> QED
  BY <1>1, SoundIsInvariant, PTL

\* No sequence of rounds and decisions takes an assumption back to
\* "assumed" (enums.py:88-89).
THEOREM MonotoneTheorem == Spec => []AssumedNeverReturns
<1>1. SoundSession => AssumedNeverReturns
  BY DEF SoundSession, Sound, AssumedNeverReturns
<1> QED
  BY <1>1, SoundIsInvariant, PTL

\* The budget yields to a fixed point and to nothing else
\* (checker.py:93-121).
THEOREM BudgetTheorem == Spec => []BudgetYieldsToFixedPointOnly
<1>1. Init => BudgetYields(session)
  BY DEF Init, Start, BudgetYields
<1>2. TypeOK /\ BudgetYields(session) /\ [Next]_session => BudgetYields(session)'
  <2> SUFFICES ASSUME TypeOK, BudgetYields(session), [Next]_session
               PROVE  BudgetYields(session')
    OBVIOUS
  <2>1. CASE AdvanceSession
    BY <2>1, AdvanceBudgetYields DEF AdvanceSession, Deltas, TypeOK
  <2>2. CASE DecideSession
    BY <2>2, DecisionBudgetYields DEF DecideSession, TypeOK
  <2>3. CASE UNCHANGED session
    BY <2>3
  <2> QED
    BY <2>1, <2>2, <2>3 DEF Next
<1>3. BudgetYields(session) => BudgetYieldsToFixedPointOnly
  BY DEF BudgetYields, BudgetYieldsToFixedPointOnly, RanOverBudget
<1> QED
  BY <1>1, <1>2, <1>3, TypeCorrect, PTL DEF Spec

------------------------------------------------------------------------------
(***************************************************************************)
(* The action properties                                                   *)
(***************************************************************************)

\* A sequence that keeps the elements of another has it as a prefix.
LEMMA SameStart ==
  ASSUME NEW S, NEW s \in Seq(S), NEW t \in Seq(S), Len(s) <= Len(t),
         \A i \in 1 .. Len(s) : t[i] = s[i]
  PROVE  IsPrefix(s, t)
<1>1. Len(s) \in Nat /\ Len(t) \in Nat
  BY LenProperties
<1>2. \A i \in 1 .. Len(s) : s[i] \in S /\ t[i] \in S
  BY <1>1, ElementOfSeq
<1>3. /\ SubSeq(t, 1, Len(s)) \in Seq(S)
      /\ Len(SubSeq(t, 1, Len(s))) = Len(s)
      /\ \A i \in 1 .. Len(s) : SubSeq(t, 1, Len(s))[i] = t[i]
  BY <1>1, <1>2, SubSeqProperties
<1>4. SubSeq(t, 1, Len(s)) = s
  BY <1>3, SeqEqual
<1>5. SubSeq(s, 1, Len(s)) = s
  BY SubSeqFull
<1> QED
  BY <1>4, <1>5 DEF IsPrefix

\* Only advance() adds a round.
LEMMA RoundsAreRun ==
  ASSUME session \in Session, Next, RoundRun
  PROVE  \E d \in Deltas : session' = Advance(session, d)
<1>1. CASE AdvanceSession
  BY <1>1 DEF AdvanceSession, Deltas
<1>2. CASE DecideSession
  <2>1. session'.rounds = session.rounds
    BY <1>2, DecisionFields DEF DecideSession
  <2>2. Len(session.rounds) \in Nat
    BY LenProperties DEF Session
  <2> QED
    BY <2>1, <2>2 DEF RoundRun
<1> QED
  BY <1>1, <1>2 DEF Next

\* Recorded rounds are never rewritten, and a human decision does not touch
\* a sealed session (session.py:183 and 209-210).
THEOREM HistoryTheorem == Spec => HistoryAppendOnly
<1> DEFINE Kept == /\ IsPrefix(session.rounds, session'.rounds)
                   /\ session.status = "sealed" => RoundRun
<1>1. SoundSession /\ [Next]_session => [Kept]_session
  <2> SUFFICES ASSUME SoundSession, [Next]_session, session' # session
               PROVE  Kept
    OBVIOUS
  <2>1. session \in Session /\ session.rounds \in Seq(Round)
    BY DEF SoundSession, Sound, Session
  <2>2. CASE AdvanceSession
    <3>1. PICK d \in Deltas : session' = Advance(session, d)
      BY <2>2 DEF AdvanceSession, Deltas
    <3>2. /\ Len(session.rounds) \in Nat
          /\ Len(session'.rounds) = Len(session.rounds) + 1
          /\ \A i \in 1 .. Len(session.rounds) :
               session'.rounds[i] = session.rounds[i]
      BY <2>1, <3>1, AdvanceRounds
    <3>3. session'.rounds \in Seq(Round)
      BY <2>1, <3>1, AdvanceFields DEF Session
    <3>4. IsPrefix(session.rounds, session'.rounds)
      BY <2>1, <3>2, <3>3, SameStart
    <3> QED
      BY <3>2, <3>4 DEF RoundRun
  <2>3. CASE DecideSession
    <3>1. PICK approved \in BOOLEAN, evidence \in Evidence :
            session' = HumanDecision(session, approved, evidence)
      BY <2>3 DEF DecideSession
    <3>2. session'.rounds = session.rounds /\ session.status # "sealed"
      BY <2>1, <3>1, DecisionFields
    <3>3. Len(session.rounds) \in Nat
      BY <2>1, LenProperties
    <3>4. IsPrefix(session.rounds, session'.rounds)
      BY <3>2, <3>3 DEF IsPrefix
    <3> QED
      BY <3>2, <3>4
  <2> QED
    BY <2>2, <2>3 DEF Next
<1> QED
  BY <1>1, SoundIsInvariant, PTL DEF Spec, HistoryAppendOnly

\* A round changes an assumption only to "falsified", and only one that its
\* delta variables invalidate; what any round so far invalidated that way is
\* not open after it (session.py:146-150).
THEOREM FalsifyTheorem == Spec => EngineOnlyFalsifies
<1> DEFINE Falsifies ==
      \A a \in Assumptions :
        session'.states[a] # session.states[a] =>
          /\ session'.states[a] = "falsified"
          /\ a \in DeltaInvalidated(Last(session'.rounds).delta)
           Follows ==
      \A i \in DOMAIN session'.rounds :
        \A a \in InvalidationClosure(Dependencies,
                   session'.rounds[i].delta.falsifies) :
          session'.states[a] # "assumed"
<1>1. SoundSession /\ [Next]_session => [RoundRun => Falsifies]_session
  <2> SUFFICES ASSUME SoundSession, Next, RoundRun, NEW a \in Assumptions,
                      session'.states[a] # session.states[a]
               PROVE  /\ session'.states[a] = "falsified"
                      /\ a \in DeltaInvalidated(Last(session'.rounds).delta)
    OBVIOUS
  <2>1. session \in Session
    BY DEF SoundSession, Sound
  <2>2. PICK d \in Deltas : session' = Advance(session, d)
    BY <2>1, RoundsAreRun
  <2>3. Last(session'.rounds).delta = d
    BY <2>1, <2>2, LastRound, AdvanceRounds DEF Last
  <2>4. session'.states = [b \in Assumptions |->
                             IF \/ b \in DeltaInvalidated(d)
                                \/ session.states[b] = "falsified"
                             THEN "falsified" ELSE session.states[b]]
    BY <2>1, <2>2, AdvanceStates
  <2>5. a \in DeltaInvalidated(d) /\ session'.states[a] = "falsified"
    BY <2>4
  <2> QED
    BY <2>3, <2>5
<1>2. SoundSession' => Follows
  <2> SUFFICES ASSUME SoundSession', NEW i \in DOMAIN session'.rounds,
                      NEW a \in InvalidationClosure(Dependencies,
                                  session'.rounds[i].delta.falsifies)
               PROVE  session'.states[a] # "assumed"
    OBVIOUS
  <2>1. a \in Assumptions
    BY DEF InvalidationClosure
  <2>2. session'.rounds[i].states[a] = "falsified"
    BY DEF SoundSession, Sound, SnapshotsFalsify, DeltaInvalidated
  <2> QED
    BY <2>1, <2>2 DEF SoundSession, Sound, NeverReassumed
<1>3. [RoundRun => Falsifies]_session /\ Follows
        => [RoundRun => Falsifies /\ Follows]_session
  OBVIOUS
<1> QED
  BY <1>1, <1>2, <1>3, SoundIsInvariant, PTL DEF Spec, EngineOnlyFalsifies

\* Running the same delta variables again on a fixed point changes nothing
\* (session.py:308-312, checker.py:106-117).
THEOREM StabilityTheorem == Spec => FixedPointIsStable
<1> DEFINE Stable ==
      /\ session.status = "converged"
      /\ session.kind = "fixed_point"
      /\ RoundRun
      /\ Last(session'.rounds).delta = Last(session.rounds).delta
      => /\ session'.status = "converged"
         /\ session'.kind = "fixed_point"
         /\ session'.states = session.states
<1>1. SoundSession /\ [Next]_session => [Stable]_session
  <2> SUFFICES ASSUME SoundSession, Next, RoundRun,
                      session.status = "converged",
                      session.kind = "fixed_point",
                      Last(session'.rounds).delta = Last(session.rounds).delta
               PROVE  /\ session'.status = "converged"
                      /\ session'.kind = "fixed_point"
                      /\ session'.states = session.states
    OBVIOUS
  <2> DEFINE n == Len(session.rounds)
             last == session.rounds[n]
  <2>1. session \in Session /\ Sound(session)
    BY DEF SoundSession, Sound
  <2>2. PICK d \in Deltas : session' = Advance(session, d)
    BY <2>1, RoundsAreRun
  <2>3. n \in Nat /\ n > 1 /\ n \in DOMAIN session.rounds
    BY <2>1, AdvanceRounds, <2>2
       DEF Sound, ConvergenceIsGenuine, FixedPointReached
  <2>4. d = last.delta
    BY <2>1, <2>2, LastRound, AdvanceRounds DEF Last
  <2>5. HasConvergence(d) /\ IsConverged(d) /\ session.request.hypotheses = 0
    <3>1. FixedPointReached(session)
      BY <2>1 DEF Sound, ConvergenceIsGenuine
    <3> QED
      BY <2>4, <3>1 DEF FixedPointReached
  <2>6. RoundVerdict(session, d) = "fixed_point"
    <3>1. PreviousCandidates(session) = d.leading
      <4>1. n > 0 /\ HasConvergence(last.delta) /\ last.delta.leading = d.leading
        BY <2>3, <2>4, <2>5
      <4> QED
        BY <4>1 DEF PreviousCandidates
    <3> QED
      BY <2>1, <3>1, VerdictMeans
  <2>7. /\ StopCondition(session, d).status = "converged"
        /\ StopCondition(session, d).kind = "fixed_point"
    BY <2>5, <2>6 DEF StopCondition, FixedPointAccepted
  <2>8. session.states = last.states
    BY <2>1 DEF Sound, ConvergedAsOfLastRound
  <2>9. \A a \in DeltaInvalidated(d) : session.states[a] = "falsified"
    BY <2>1, <2>3, <2>4, <2>8 DEF Sound, SnapshotsFalsify
  <2>10. session'.states = session.states
    <3>1. session'.states = [b \in Assumptions |->
                               IF \/ b \in DeltaInvalidated(d)
                                  \/ session.states[b] = "falsified"
                               THEN "falsified" ELSE session.states[b]]
      BY <2>1, <2>2, AdvanceStates
    <3>2. session.states \in [Assumptions -> AssumptionState]
      BY <2>1 DEF Session
    <3> QED
      BY <2>9, <3>1, <3>2
  <2>11. session'.status = "converged" /\ session'.kind = "fixed_point"
    BY <2>1, <2>2, <2>7, AdvanceFields
  <2> QED
    BY <2>10, <2>11
<1> QED
  BY <1>1, SoundIsInvariant, PTL DEF Spec, FixedPointIsStable
==============================================================================
