---------------------------- MODULE SessionEngine ----------------------------
(***************************************************************************)
(* One reconstruction session as a value, and the three operations of      *)
(* ReconstructionSessionEngine on it (hub/session.py): Start, Advance and  *)
(* HumanDecision.  The engine keeps nothing between calls; each operation  *)
(* maps a session (and its arguments) to the next session.  ReconSession   *)
(* drives one session by one caller, SessionHub shares it between callers. *)
(*                                                                         *)
(* Hashes.  A SHA-256 value is modelled by the contents it commits to: a   *)
(* round's hash is the sequence of the contents of every round up to it,   *)
(* because each round hashes its predecessor's hash.  Equal hashes are     *)
(* equal contents.                                                         *)
(***************************************************************************)
EXTENDS Sequences, FiniteSets, ConvergenceChecker, AssumptionGraph

CONSTANTS
  Dependencies,  \* the assumptions each assumption declares it depends on
  Candidates,    \* the ids of the alternatives
  Baseline,      \* the leading candidates of the unchanged request
  DeltaBatches,  \* the non-empty lists of delta variables a caller may apply
  Requests,      \* what the request and its signals give: see RequestShape
  Budgets,       \* the pairs of budgets a session may be started with
  Evidence,      \* the evidence a human decision may carry: see WithEvidence
  NoHash         \* a hash field that has not been filled yet

\* A batch of delta variables: how many there are, the assumptions its
\* assumption paths name, and the leading candidates of the request
\* re-evaluated under it.
BatchShape ==
  [size : Nat, falsifies : SUBSET Assumptions, leading : SUBSET Candidates]

\* Backward tracing is a function of the request and its signals, which
\* never change: it finds the same number of hypotheses and of unresolved
\* branches in every round.
RequestShape == [hypotheses : Nat, unresolved : Nat]

BudgetShape == [maxIterations : Nat \ {0}, maxEvidence : Nat \ {0}]

AssumptionState == {"assumed", "verified", "falsified", "unfalsifiable"}
TerminalState == AssumptionState \ {"assumed"}

ASSUME SessionAssumption ==
  /\ Dependencies \in DependencyGraph
  /\ Baseline \subseteq Candidates
  /\ "" \notin Candidates
  /\ DeltaBatches \subseteq {b \in BatchShape : b.size > 0}
  /\ Requests \subseteq RequestShape
  /\ Budgets \subseteq BudgetShape
  /\ \A b \in Budgets :
       PropositionTermination(b.maxIterations, b.maxEvidence)
  /\ Evidence \subseteq [Assumptions -> AssumptionState]

SessionStatus ==
  {"active", "awaiting_human", "converged", "sealed", "budget_exceeded"}
ConvergenceKind == {"fixed_point", "no_gain", "budget", "none"}

\* advance() without delta variables: no third layer, no convergence report.
NoDelta == [size |-> 0, falsifies |-> {}, leading |-> {}]
HasConvergence(d) == d.size > 0
\* ConvergenceReport.is_converged: the leading candidates did not change.
IsConverged(d) == d.leading = Baseline

------------------------------------------------------------------------------
(***************************************************************************)
(* Forward propagation                                                     *)
(***************************************************************************)

\* What ForwardPropagation computes for the batch.
DeltaInvalidated(d) == InvalidationClosure(Dependencies, d.falsifies)

\* Faulty variant: whatever the human settled other than as verified.
ForwardInvalidatedUnverified(states) ==
  {a \in Assumptions : states[a] \notin {"assumed", "verified"}}

\* What the session already holds falsified; dependents are not followed.
ForwardInvalidated(states) ==
  {a \in Assumptions : states[a] = "falsified"}

------------------------------------------------------------------------------
(***************************************************************************)
(* The round and session hashes                                            *)
(***************************************************************************)

\* The fields of a round that its hash covers.  Of the delta variables it
\* covers the paths, and of the convergence report only whether the
\* leading candidates changed.
RoundContent(r) ==
  [index       |-> r.index,
   invalidated |-> r.invalidated,
   paths       |-> [size |-> r.delta.size, falsifies |-> r.delta.falsifies],
   changed     |-> HasConvergence(r.delta) /\ ~IsConverged(r.delta),
   states      |-> r.states,
   needsHuman  |-> r.needsHuman]

HashRound(r, previousHash) == Append(previousHash, RoundContent(r))

\* Rounds, assumption states and status are covered; the convergence kind
\* and the sealing time are not.
HashSession(s) ==
  [rounds |-> [i \in DOMAIN s.rounds |-> s.rounds[i].hash],
   states |-> s.states,
   status |-> s.status]

\* Faulty variant: the round before the last is taken for the last.
PreviousHashOffByOne(rounds) ==
  IF Len(rounds) < 2 THEN <<>> ELSE rounds[Len(rounds) - 1].hash

\* previous_round_hash of the first round is None: the empty commitment.
PreviousHash(rounds) ==
  IF rounds = <<>> THEN <<>> ELSE rounds[Len(rounds)].hash

------------------------------------------------------------------------------
(***************************************************************************)
(* The stop condition of a round                                           *)
(***************************************************************************)

\* start(): every assumption is merely assumed and no round has run.
Start(request, budget) ==
  [request  |-> request,
   budget   |-> budget,
   rounds   |-> <<>>,
   states   |-> [a \in Assumptions |-> "assumed"],
   status   |-> "active",
   kind     |-> "none",
   rootHash |-> NoHash,
   sealedAt |-> FALSE]

\* The evidence requests of the given number of rounds before and of the
\* round now run, whose own delta variables are not counted yet.
EvidenceRequests(s, before) ==
  LET spent[i \in 0 .. before] ==
        IF i = 0 THEN s.request.hypotheses
        ELSE spent[i - 1] + s.rounds[i].delta.size + s.request.hypotheses
  IN  spent[before]

\* The leading candidates of the round before, or a set no round can equal
\* when there is no such round or it had no delta reconstruction.
PreviousCandidates(s) ==
  LET n == Len(s.rounds)
  IN  IF n > 0 /\ HasConvergence(s.rounds[n].delta)
      THEN s.rounds[n].delta.leading
      ELSE {""}

\* What has been used up when round i of s is classified.
UsedBy(s, i) == [iterations |-> i, evidence |-> EvidenceRequests(s, i - 1)]

\* How the convergence checker classifies the round that applies d to s.
RoundVerdict(s, d) ==
  Evaluate(PreviousCandidates(s), d.leading, UsedBy(s, Len(s.rounds) + 1),
           s.budget, s.request.unresolved, FALSE)

\* A fixed point stops the session only when a delta reconstruction ran,
\* left the baseline unchanged, and tracing found no hypothesis.
FixedPointAccepted(s, d) ==
  HasConvergence(d) /\ IsConverged(d) /\ s.request.hypotheses = 0

\* No gain stops it only when nothing is unresolved and, before this round,
\* no assumption was still open.
NoGainAccepted(s) ==
  /\ s.request.unresolved = 0
  /\ \A a \in Assumptions : s.states[a] # "assumed"

\* Faulty variant: no gain does not look at the open assumptions.
StopConditionForgetsOpen(s, d) ==
  LET verdict == RoundVerdict(s, d)
  IN  CASE verdict = "fixed_point" /\ FixedPointAccepted(s, d) ->
             [status |-> "converged", kind |-> "fixed_point"]
        [] verdict = "no_gain" ->
             [status |-> "converged", kind |-> "no_gain"]
        [] verdict = "budget_exhausted" ->
             [status |-> "budget_exceeded", kind |-> "budget"]
        [] OTHER -> [status |-> "awaiting_human", kind |-> "none"]

\* Faulty variant: the checker's verdict is not mapped to a session status.
StopConditionUnmapped(s, d) == [status |-> RoundVerdict(s, d), kind |-> "none"]

\* _stop_condition: the status and convergence kind the round ends with.
StopCondition(s, d) ==
  LET verdict == RoundVerdict(s, d)
  IN  CASE verdict = "fixed_point" /\ FixedPointAccepted(s, d) ->
             [status |-> "converged", kind |-> "fixed_point"]
        [] verdict = "no_gain" /\ NoGainAccepted(s) ->
             [status |-> "converged", kind |-> "no_gain"]
        [] verdict = "budget_exhausted" ->
             [status |-> "budget_exceeded", kind |-> "budget"]
        [] OTHER -> [status |-> "awaiting_human", kind |-> "none"]

------------------------------------------------------------------------------
(***************************************************************************)
(* The operations                                                          *)
(***************************************************************************)

\* The record of the round that applies d to s.
NextRound(s, d) ==
  LET invalidated == DeltaInvalidated(d) \cup ForwardInvalidated(s.states)
      r == [index       |-> Len(s.rounds),
            invalidated |-> invalidated,
            delta       |-> d,
            states      |-> [a \in Assumptions |->
                               IF a \in invalidated THEN "falsified"
                               ELSE s.states[a]],
            needsHuman  |-> StopCondition(s, d).status
                              \in {"active", "awaiting_human"},
            prev        |-> PreviousHash(s.rounds),
            hash        |-> <<>>]
  IN  [r EXCEPT !.hash = HashRound(r, PreviousHash(s.rounds))]

\* advance(): exactly one round, whatever the status of the session.
Advance(s, d) ==
  LET stop    == StopCondition(s, d)
      updated == [s EXCEPT
                    !.rounds   = Append(@, NextRound(s, d)),
                    !.states   = NextRound(s, d).states,
                    !.status   = stop.status,
                    !.kind     = stop.kind,
                    !.sealedAt = @ \/ stop.status \in
                                      {"converged", "budget_exceeded"}]
  IN  [updated EXCEPT !.rootHash = HashSession(updated)]

\* Faulty variant: evidence of any state is taken over.
WithAnyEvidence(states, evidence) == evidence

\* The states after the human's evidence.  Evidence gives every assumption
\* a state; "assumed" stands for no evidence on it, and is ignored, as is
\* evidence on an unknown id.
WithEvidence(states, evidence) ==
  [a \in Assumptions |->
     IF evidence[a] \in TerminalState THEN evidence[a] ELSE states[a]]

\* Anything but an approval re-opens the session, and leaves the root hash
\* and the convergence kind as they were.
Reopen(s, states) == [s EXCEPT !.states = states, !.status = "active"]

\* Faulty variant: the session is sealed under the hash it had before.
SealUnhashed(s, states) ==
  [s EXCEPT !.states = states, !.status = "sealed", !.sealedAt = TRUE]

\* An approval seals the session, evidence included, and rehashes it.
Seal(s, states) ==
  LET sealed == [s EXCEPT !.states = states, !.status = "sealed",
                          !.sealedAt = TRUE]
  IN  [sealed EXCEPT !.rootHash = HashSession(sealed)]

\* Faulty variant: a sealed session is decided on like any other.
HumanDecisionUnseals(s, approved, evidence) ==
  IF approved THEN Seal(s, WithEvidence(s.states, evidence))
  ELSE Reopen(s, WithEvidence(s.states, evidence))

\* human_decision(): a sealed session is returned as it is.
HumanDecision(s, approved, evidence) ==
  CASE s.status = "sealed" -> s
    [] s.status # "sealed" /\ approved ->
         Seal(s, WithEvidence(s.states, evidence))
    [] s.status # "sealed" /\ ~approved ->
         Reopen(s, WithEvidence(s.states, evidence))

------------------------------------------------------------------------------
(***************************************************************************)
(* What makes a session value sound.  ReconSession checks these of the     *)
(* session one caller drives, SessionHub of the stored one.                *)
(***************************************************************************)

Commitment ==
  Seq([index : Nat, invalidated : SUBSET Assumptions,
       paths : [size : Nat, falsifies : SUBSET Assumptions],
       changed : BOOLEAN, states : [Assumptions -> AssumptionState],
       needsHuman : BOOLEAN])

Round ==
  [index : Nat, invalidated : SUBSET Assumptions,
   delta : DeltaBatches \cup {NoDelta},
   states : [Assumptions -> AssumptionState], needsHuman : BOOLEAN,
   prev : Commitment, hash : Commitment]

SessionHash ==
  [rounds : Seq(Commitment), states : [Assumptions -> AssumptionState],
   status : SessionStatus]

ASSUME HashAssumption == NoHash \notin SessionHash

Session ==
  [request : Requests, budget : Budgets, rounds : Seq(Round),
   states : [Assumptions -> AssumptionState], status : SessionStatus,
   kind : ConvergenceKind, rootHash : SessionHash \cup {NoHash},
   sealedAt : BOOLEAN]

\* Each round commits to its own contents and to the round before it.
RoundsLinked(s) ==
  \A i \in DOMAIN s.rounds :
    /\ s.rounds[i].index = i - 1
    /\ s.rounds[i].prev = IF i = 1 THEN <<>> ELSE s.rounds[i - 1].hash
    /\ s.rounds[i].hash = HashRound(s.rounds[i], s.rounds[i].prev)

\* The root hash commits to every round; only a re-opened session may have
\* a status or assumption states it does not commit to.
RootCommits(s) ==
  /\ s.status # "active" => s.rootHash = HashSession(s)
  /\ s.status = "active" =>
       IF s.rounds = <<>> THEN s.rootHash = NoHash
       ELSE s.rootHash # NoHash /\ s.rootHash.rounds = HashSession(s).rounds

\* A fixed point: the last two rounds reconstructed the same leading
\* candidates, those of the unchanged request, with no hypothesis open.
FixedPointReached(s) ==
  LET n == Len(s.rounds)
  IN  /\ n > 1
      /\ \A i \in {n - 1, n} : /\ HasConvergence(s.rounds[i].delta)
                              /\ IsConverged(s.rounds[i].delta)
      /\ s.request.hypotheses = 0

\* No gain: nothing unresolved, no assumption open, iterations left over.
NothingLeftToLearn(s) ==
  /\ s.request.unresolved = 0
  /\ \A a \in Assumptions : s.states[a] # "assumed"
  /\ Len(s.rounds) < s.budget.maxIterations

\* Convergence is reported for one of its two reasons, and the kind names
\* the reason; a budget stop is never reported as one of them.
ConvergenceIsGenuine(s) ==
  /\ s.status = "converged" =>
       \/ s.kind = "fixed_point" /\ FixedPointReached(s)
       \/ s.kind = "no_gain" /\ NothingLeftToLearn(s)
  /\ s.status = "budget_exceeded" => s.kind = "budget"
  /\ s.status = "awaiting_human"  => s.kind = "none"

\* Once an assumption has left "assumed" in a round's snapshot it is never
\* "assumed" again, in a later snapshot or now.
NeverReassumed(s) ==
  \A i \in DOMAIN s.rounds : \A a \in Assumptions :
    s.rounds[i].states[a] # "assumed" =>
      /\ s.states[a] # "assumed"
      /\ \A j \in i .. Len(s.rounds) : s.rounds[j].states[a] # "assumed"
=============================================================================
