# A TLA+ model of NOMOS (second-perspective)

NOMOS evaluates structured decision requests, keeps a hash-chained history of
every decision, and reconstructs failed decisions in rounds between which a
human decides. This directory models the parts of it that keep state: the
reconstruction session, the hub that stores sessions for concurrent callers,
the decision service with its revision histories and its event log, the
service behind its rate limiter, and the evolution loop of the cognitive audit;
and the computations those rest on: the decision engine, scenarios and delta
reconstruction, the propagation of failed assumptions, the search for root
causes, and the operators of the cognitive audit. The source paths below are
relative to `src/src/second_perspective/`.

Contents: [inventory](#1-the-system), [what is modelled and
how](#2-modules-and-their-correspondence-with-the-code), [the
runs](#3-runs), [findings](#4-where-the-documents-and-the-code-differ), [the
proofs](#5-proofs), [what is left out](#6-what-is-not-modelled), [the
plan](#7-plan).

## 1. The system

| Component (sources) | State it keeps | Operations | Hard behaviour |
|---|---|---|---|
| Reconstruction session engine (`hub/session.py`) | none; a session value holds rounds, assumption states, status, hashes | `start`, `advance`, `human_decision` | long sequences of legal calls; fields that go stale when a session is re-opened; monotone states |
| Convergence checker (`convergence/`) | none | `evaluate`, `proposition_*` | priority of the outcomes, off-by-one in the budgets |
| Session hub and repository (`hub/orchestrator.py`, `hub/repository.py`) | sessions and reports by id | `start_session`, `advance_session`, `human_session_decision`, `analyze` | read, compute without a lock, blind update; a partial failure of `analyze` |
| Decision service (`service.py`) | none of its own | `evaluate`, `approve`, `get`, `history` | read, compute, put; stale approvals; record and event written separately |
| Decision repositories (`repository.py`, `persistence/postgres.py`) | revisions of each decision | `put`, `get`, `history` | compare-and-append; two implementations of one check; restart |
| Approval, integrity (`governance/approval.py`, `decision/integrity.py`) | none | `apply_approval`, `seal_record`, `verify_chain` | a decision approved twice; a chain that no longer verifies |
| Event store (`persistence/event_store.py`) | append-only log | `append`, `last_hash`, `stream` | `last_hash` and `append` are two critical sections; kept in memory only |
| Forward and delta reconstruction (`decision/causal.py`, `decision/reconstruction.py`) | none | `invalidation_closure`, `apply_delta_vars`, backward tracing | transitive closure on cyclic declarations; a batch applied one variable at a time |
| Decision engine (`decision/engine.py`, `evaluator.py`, `selection.py`, ...) | none | `evaluate` | ties, zero scores, missing values |
| Hub analysis (`hub/orchestrator.py`, `hub/scenario.py`, `information.py`, `cognitive.py`, `integrity.py`) | the stored reports | `analyze`, `get_report` | the decision is committed long before the report; a scenario fails less than a delta does |
| Interaction layer (`interaction/`) | none | joint effects under a ceiling | clipping, monotonicity |
| Cognitive audit (`audit/cognitive/`) | event chain, approvals, spiral stack | `audit`, `evolve`, `approve_evolution_proposal` | the order of its verdicts; what a later layer loses; two searches of one graph; repeated approvals |
| Auditor and ledgers (`audit/`) | hash-chained entries | `append`, `verify` | a chain verified long after it was written |
| LLM gate (`llm_compliance/`) | provenance log | `process` | a withheld text must stay withheld |
| API front (`api/`, `tenant.py`, `observability/`) | token buckets, metrics, tenant of the request | middleware, endpoints | what is counted and what is not; tokens saved up by an idle client |
| Evaluation and operations (`evaluation/`) | appeals, drift windows | appeal workflow, drift monitor | protocol order |

How they interact. The endpoints in `api/main.py` are synchronous functions,
so the server runs each call on a thread of its pool and calls of several
clients interleave at every point where no lock is held. A call on a decision
goes through `DecisionService`: it reads the latest revision from the decision
repository (under the repository's lock or in a transaction), evaluates or
approves with no lock held, `put`s the sealed revision (the repository compares
it with its latest revision) and then announces it in the event store, reading
the tenant's last hash and appending in two separate critical sections. A call
on a session goes through `IntelligentDecisionHub`: a deep copy is read, the
session engine computes on it, and `update` overwrites the stored session. The
session engine calls the convergence checker once per round, and the causal
reconstructor for hypotheses and for the effect of delta variables, which in
turn runs the decision engine twice. An analysis goes through the hub: it
first evaluates through the decision service, which commits a revision, then
runs scenarios, backward tracing and the cognitive audit on that revision, and
last puts a report. In front of all endpoints stand, from the outside in, the
rate limiter, the metrics and the endpoint's own dependencies, on the event
loop. The cognitive audit runs its operators in the order of registration, with
the aggregate last; `evolve` audits once per approved delta and stacks the
layers.

What makes each component correct:

* session: convergence is reported only for its two reasons; the rounds are a
  hash chain the root hash commits to; an assumption never returns to
  `assumed`; the engine falsifies only what the delta variables invalidate; a
  fixed point is stable; the budget is respected as far as the code does;
* hub: overlapping calls leave a session that is sound in itself, and only a
  commit on a stale copy can do what the sequential session cannot;
* decision engine and delta reconstruction: what leads scores highest; a batch
  drops exactly what its report says it invalidated, and its order decides
  neither the result nor, but for the metrics of an alternative it drops
  itself, whether it is accepted; a counterfactual says whether the leading
  candidates change, a scenario that names a whole closure fails what the delta
  fails;
* cognitive audit: what a layer froze no later layer loses unnoticed; the
  lineage's generation can be recounted from the event chain; what blocks an
  audit reaches the hub's findings; the two searches of a graph agree;
* service: every report is of a stored revision, and a revision without its
  report shows in the metrics; no client exceeds its rate;
* decisions: every history verifies; an approval is of the revision that
  `approve` read, and follows it directly; the racing service is an atomic
  ledger; every stored revision is announced, faithfully and once; links of
  events go back within the tenant.

`PROJECT.json` lists, under `hazards`, the places in the code that are hard to
test, each with the properties that would notice it going wrong, or with the
reason why none does yet.

## 2. Modules and their correspondence with the code

    ConvergenceChecker  <-  SessionEngine  <-  ReconSession  <-  MCReconSession
                                                    |        <-  ReconSession_proofs
                                                    |               ^
                                               SessionHub  <-  SessionHub_proofs
                                                           <-  MCSessionHub

    AssumptionGraph  <-  SessionEngine
                     <-  ForwardPropagation  <-  MCForwardPropagation, ForwardPropagation_proofs
                     <-  BackwardTracing     <-  MCBackwardTracing, BackwardTracing_proofs

    DecisionRecord  <-  AtomicLedger
                    <-  DecisionLedger (INSTANCE AtomicLedger, refinement)
                           <-  MCDecisionLedger, DecisionLedger_proofs
                  <-  HubService (INSTANCE AtomicLedger, its steps)
                           <-  MCHubService, HubService_proofs

    AssumptionGraph  <-  DecisionEngine  <-  ScenarioAnalysis  <-  DeltaReconstruction
                             DeltaReconstruction  <-  MCDeltaReconstruction,
                                                      DeltaReconstruction_proofs

    TopologyGraph  <-  CognitiveOperators  <-  CognitiveReport  <-  EvolutionEngine
                             EvolutionEngine  <-  MCEvolutionEngine, EvolutionEngine_proofs

(`A <- B`: B extends A.)

**ConvergenceChecker** is `convergence/checker.py`: `Evaluate` is the decision
order of `evaluate` as written (a fixed point wins over a used-up budget), with
the two propositions it is built from. Pure.

**SessionEngine** is `hub/session.py` on values. A session is a record with the
fields of `ReconstructionSession` that the operations read or write; `Start`,
`Advance` and `HumanDecision` map a session to the next one. Details kept: the
order of the outcomes and the extra conditions under which the engine accepts a
checker's verdict (`FixedPointAccepted`, `NoGainAccepted`); that no-gain is
judged on the states before the round; that the evidence requests of the
current round count its hypotheses and not its delta variables; that `advance`
ignores the status; that re-opening leaves the root hash, the convergence kind
and the sealing time as they were. Abstracted: backward tracing is the number
of hypotheses and unresolved branches it finds (it is a function of the
request, which does not change); a batch of delta variables is its size, what
its assumption paths falsify and which candidates lead after it; forward
propagation is its result, `InvalidationClosure`. Timestamps are reduced to
whether the session was ever sealed.

**ReconSession** is one session under one caller at a time: every order of
rounds and human decisions. **SessionHub** extends it: `session` is the stored
one, and threads make calls, each a read step and a commit step.

**AssumptionGraph** is what a request declares: which assumption depends on
which (circles pass validation), and the closure of a failure, the least set
closed under dependents. **ForwardPropagation** is the code that computes it,
one turn of the worklist per step: `Visit` takes any member, since `pop()` on a
Python set is not determined, and `StartClosure`, `FinishClosure` and
`SkipPath` are the loop over a batch of delta variables in
`_collect_delta_invalidated`. Its result is what `SessionEngine` takes for
granted in `DeltaInvalidated`: `CollectedIsJointClosure` is the link, checked
and proved, between the two levels.

**BackwardTracing** is `reconstruct` up to its root chains: `Match` decides
which assumptions a signal is about, `StartSeed`, `Visit` and `FinishSeed` are
the loop over seeds, a turn of the search and the merge of its roots. The queue
holds chains, head first, in the order of declaration; expired evidence counts
as verified in the search and not in the matching, as in the code. Abstracted:
whether a condition's text mentions a metric; the wording, severity and missing
evidence of the hypotheses built from the chains.

**DecisionRecord** holds what a record is, how it is sealed and when a chain
verifies. **AtomicLedger** is what the service promises: evaluate and approve
as single steps on the latest entry. **DecisionLedger** is the code: each call
is four steps (`Begin*`, `Put` or `Conflict`, `LinkEvent`, `AppendEvent`),
which are exactly the critical sections of the repository and of the event
store; `durable` chooses the repository, whose two `put`s check differently
(`FitsInMemory`, `FitsInDatabase`); `Restart` loses the calls, the event log
always, and the records unless they are durable.

**DecisionEngine** is the evaluation of a request as operators: constraint
checks with their third outcome, normalised scores (not clamped, as in the
code), totals, the status of an alternative, the leading candidates with the 5%
gap and the `or` that takes a zero for no score, failure branches,
counterfactuals, sensitivity and the Pareto frontier. Numbers are integers: a
score of 1 is `Unit`, a weight of 1 is `Whole`, and `Unit` is a multiple of
every criterion's range, so nothing is rounded. **ScenarioAnalysis** is
`hub/scenario.py` on top of it. **DeltaReconstruction** is
`reconstruct_with_delta`: `EvaluateBaseline`, one `ApplyDeltaVar` or
`RefuseDeltaVar` per variable, each on the request the last one left, and
`EvaluatePatched`; a value that is no number makes either evaluation raise.
Abstracted: texts, the audit's stage events, the ranking stability.

**TopologyGraph** is the reasoning graph and its validations: the depth-first
search with its explicit stack (`SearchStep`), the queue over in-degrees as the
rounds it releases nodes in (`Rounds`), and the fatal and the open issues.
**CognitiveOperators** has one operator per plugin, each a function of the
context and of the results before it, with its verdicts in the order the code
decides them; a text is what the scanners find in it. **CognitiveReport** is
the hub's adapter: which operators a request registers, the context it builds,
and the findings read off the results. **EvolutionEngine** is the engine that
serves `evolve` and `approve_evolution_proposal`: one `RunLayer` per audited
layer (delta, event, audit, gaps, classification, push, verdict), and the ways
the loop ends without one. Kept as the code does it: the classifier puts a
used-up budget before a fixed point; the first layer ignores the energy budget;
approvals are recorded unchecked; a graph whose edges cannot be sorted raises
after the delta's event was written.

**HubService** is the service as clients meet it. A call is admitted or turned
away by its bucket (`Admit`, `TurnAway`), refused or let through by the
endpoint's dependencies, and then runs: `Prepare` reads, `PutRecord` or
`PutAnalysed` commits one step of **AtomicLedger** (of which `DecisionLedger`
shows that the racing service implements it), `PutReport` writes the second
store. `DatabaseFails`, `CommitUnacknowledged` and `ReportUnacknowledged` are
what a database adds between any two of these; `Restart` cuts every call off.
Every end of a call passes the metrics, `Answer` or `Raise`. Abstracted: who a
caller is, what its token permits (`Permitted`), the content of a report beyond
the revision it is about.

Hashes. A SHA-256 value is modelled by the contents it commits to, so equal
hashes are equal contents (collision freedom is the assumption). A round's hash
is the sequence of the contents of all rounds up to it. The prover needs one
consequence as a named assumption: the placeholder `NoHash` is not a hash.

## 3. Runs

| Run | Question | Bounds |
|---|---|---|
| `recon_session` | does every order of rounds and decisions keep hashes, states and reasons consistent? | 2 assumptions (one depends on the other), 2 candidates, 3 batches, 3 rounds, two budgets, all combinations of "has hypotheses" and "has unresolved signals" |
| `session_hub` | do overlapping calls leave a sound session, and where do they differ from sequential ones? | 2 callers, 1 assumption, 2 batches, copies of up to 2 rounds |
| `decision_ledger` | do racing evaluations and approvals with a restart implement the atomic ledger, and is every revision announced? | 2 threads, 2 tenants, 1 decision, 3 revisions, 1 restart, both repositories |
| `forward_propagation` | does the worklist compute the closure in every order and on every graph, and end? | all dependency graphs on 3 assumptions (512, circles and self-dependencies included), batches of up to 2 paths |
| `backward_tracing` | does every chain trace a matched assumption, and when may one be left without a root? | all dependency graphs on 3 assumptions, every state of their evidence, 2 signals that mention disjoint or overlapping assumptions |
| `delta_reconstruction` | does a batch drop what it reports, does its order matter, and where do deltas, counterfactuals and scenarios agree? | 3 assumptions (independent, a chain, a circle of two), 3 alternatives, 2 criteria of every rule, 5 tables of metrics, 5 sets of constraints, every batch of up to 2 of 7 variables |
| `cognitive_audit` | what can the layers, the chain and the findings of the evolution loop get wrong? | contexts of 6 requests and 7 more, every graph over 5 edges, 6 malformed graphs, lists of up to 5 deltas, 4 layers, 2 approvals |
| `hub_service` | do overlapping, failing and cut-off calls leave true reports, honest metrics and respected rates? | 2 clients, 1 decision, 2 calls between restarts, 1 restart, memory and database, no limit or one call a minute of 2 ticks |
| `human_gate` | see section 4 | as `recon_session` |
| `lost_update` | see section 4 | as `session_hub` |
| `event_chain` | see section 4 | as `decision_ledger` |
| `zero_score_leaders` | see section 4 | as `delta_reconstruction` |

Why these bounds are enough. `MaxRounds = 3` is the least number at which the
last round has a predecessor with a predecessor, so a fixed point can be
reached, left and reached again, and each of the two budgets runs out within it
(`maxIterations = 2`, `maxEvidence = 3`) or does not. One batch falsifies with
a dependent, one keeps the leader without falsifying, one changes the leader:
the effects the stop condition tells apart. Two callers suffice for a stale
copy; sessions do not interact, so one is modelled. A decision's history of 3
allows evaluation, approval and re-evaluation in every order; with two threads
every pair of calls can race for the same revision; decisions do not interact
except through the event log, where tenants already separate events of one
decision. Three assumptions have every shape the two searches tell apart: a
chain, a fork, a join, circles of one to three, and a circle with a way out; a
batch of two has overlapping and nested closures and the same path twice. A
batch of two delta variables has every pair in both orders, the tables of
metrics hold equal, close, dominated, missing and unreadable values and totals
of exactly zero and below it, and three alternatives are what a leader, a
runner-up and a bystander need. Five edges make a self-loop, a circle of three,
both at once, and nodes before and behind them; four layers are one more than
the loop's budget and one more than a flat spiral needs; the delta lists freeze
a node, remove it, and bring it back. Two calls race for one revision in every
way, and a third after a restart meets what they left; with one call a minute
and two ticks to it, a bucket empties, refuses, fills and caps within three
ticks. The named bounds are `MaxRounds`, `MaxRevisions`, `MaxRestarts`,
`MaxCalls`, `MaxTime`, `MaxApprovals` and `MaxPaths`, all but the last in guards
only, the last in the batches chosen initially. `CHECK_DEADLOCK FALSE` in the
configurations of the two searches and of delta reconstruction is for the state
in which they are over; elsewhere it is for the states where these bounds leave
nothing to do.

Fairness. `Terminates` assumes that the worklist's loop, which runs in one
thread and waits for nothing, is executed (weak fairness of `Next`).
`EventFollowsRecord` assumes weak fairness of what a thread does once it is in
a call (`Continue`). A started call runs on a pool thread that no modelled lock
can block for ever, since every critical section ends by itself. Nobody is
obliged to make a call, nothing makes the service restart, and after a restart
the property claims nothing.

Each property of a passing run has a mutant in `PROJECT.json`: an operator,
marked "Faulty variant" beside the operator it replaces, under which the
property fails. What the properties say is stated above each of them.

## 4. Where the documents and the code differ

Four properties state what a docstring or `docs/` says; their runs end in a
counterexample:

* `HumanGate`: "only a human decision may move the session to the next round".
  `advance` never looks at the status, so a round runs on a session that awaits
  the human, has converged or is sealed.
* `StoredStatesNeverReassumed`: states are documented as monotone, which holds
  of a session in one caller's hands (`AssumedNeverReturns`), and of the
  content of any stored session, but not of the stored session over time: a
  stale update puts back `assumed`.
* `EventChainLinear`: events of a tenant should form one chain; two calls that
  both read the last hash before either appends fork it. `LinksGoBack` is what
  remains true.
* `LeadersAreTopScoring`: leaders should be the "top-scoring eligible
  alternatives". A total of exactly zero is read as no score and ranks behind
  every negative one.

The models show further differences that have no run of their own.

Sessions and tracing:

* `docs/INTELLIGENT_DECISION_HUB_V0_4.md:105` wants a fixed point to keep the
  set of failed assumptions too; the code compares the leading candidates only.
* The same page, line 104, has "iteration count <= max_iterations". A fixed
  point of the checker beats the used-up budget, and the engine hands such a
  round back to the human when the leaders differ from the baseline's or
  hypotheses are open. `BudgetYieldsToFixedPointOnly` is what the code does
  guarantee.
* A round's forward step should propagate a declared failure
  (`docs/INTELLIGENT_DECISION_HUB_V0_4.md:142`). It repeats what is falsified
  already (`hub/session.py:242`); what depends on an assumption that a human
  falsified stays as it was. `EngineOnlyFalsifies` says whose failures are
  followed: those of the delta variables, for good.
* Backward tracing should find "which assumption failure could explain" a
  deviation (`decision/reconstruction.py:3-5`). The search goes from the matched
  assumption to its dependents, the direction in which failures propagate, so a
  root's own failure need not reach what was observed. `ChainsTraceSeeds` is
  what remains true.
* The docstring of `_backward_bfs` lets the search stop at evidence that is
  "supplied and not expired" (`decision/reconstruction.py:128`); the code asks
  only whether it was supplied, so it stops at expired evidence too.
  `ChainsTraceSeeds` keeps to the half that holds: no chain passes an assumption
  whose evidence does.
* Each trace should record a root, "the farthest node reached"
  (`decision/reconstruction.py:129`), and `docs/DECISION_FOUNDATION_V0_2.md:51`
  lists a cycle detection that request validation does not perform. Where a
  circle depends on the matched assumption a search may record none, and the
  signal is neither explained nor unresolved. `EverySeedHasRoot` says that
  nothing else costs a seed its root.

Decisions:

* An approval names neither the revision nor the hash it is meant for
  (`models/schemas.py:523-527`), and `approve` reads the latest revision when it
  is called (`service.py:109`). A re-evaluation between the human's reading and
  the call is approved unseen; `ApprovalsExtendWhatWasRead` is about the
  service's own read only.
* A counterfactual should be a new evaluation without the assumption's support
  (`decision/counterfactual.py:3-5`). It keeps the leaders that are left, or else
  takes the first alternative that remains, not the best (`:64`).
  `CounterfactualsPredictDeltas` is what it does predict: whether the leaders
  change, and that those it keeps lead.
* Failures "must propagate along the dependency graph"
  (`docs/DECISION_FOUNDATION_V0_2.md:34`), but a scenario fails what it names and
  none of its dependents (`hub/scenario.py:79`). "Scenarios only use changes
  explicitly declared by the user" (`docs/INTELLIGENT_DECISION_HUB_V0_4.md:264`)
  may be the reason, though the dependencies are declared too.
  `ScenarioOfClosureIsDelta` says how far the two agree.
* The sensitivity cases rank ineligible alternatives too and leave the penalties
  out (`decision/robustness.py:64-75`).
* Reweighing one criterion leaves weights that no longer sum to one, which
  validation demands of a request (`decision/reconstruction.py:620`,
  `models/schemas.py:371`).

Cognitive audit:

* The aggregate's verdict nests its halts, so an `AUDIT_HALT` counts as a risk
  and not as blocking in the convergence checker
  (`audit/cognitive/engine.py:284-292`): `evolve` can end CONVERGED on a halted
  audit. `HaltLeavesError` says what the hub still sees of it.
* Two edges with one key, of which one has a weight, make `graph_hash` raise
  (`audit/cognitive/plugins/topology.py:497`) where the validation would have
  reported T102.
* The adapter's clause for BFC looks for verdicts that BFC never gives
  (`audit/cognitive/adapter.py:381-382`).
* An approval is recorded whether or not its proposal was made or approved
  before (`audit/cognitive/engine.py:824-863`); `GenerationsProvable` is what
  the chain still proves.

Service:

* A bucket's capacity is a minute's allowance, so up to twice the rate passes
  within one minute after an idle one; `AdmittedWithinRate` is the bound that
  holds.
* A refused call raises outside the exception handlers, so it ends as a 500 and
  is never counted (`api/ratelimit.py:57`).
* `tenant_middleware` runs outside `identity_middleware`, which sets the claims
  it reads (`tenant.py:6-8`), so the tenant never comes from the claims.

## 5. Proofs

For every value of the constants that satisfies the named assumptions
(`SessionAssumption`, `HashAssumption`, `BoundAssumption`, `LedgerAssumption`,
`RecordAssumption` and the like, all of which the runs evaluate):

`ReconSession_proofs` proves of `ReconSession!Spec` every property of
`recon_session`. The properties are not inductive one by one: that a root hash
commits to the rounds after a re-opening needs that only an unstarted session
is `active` without rounds, that a fixed point is stable needs that the
convergence reported is that of the last round and that a round's snapshot
holds falsified all its delta invalidates. The inductive invariant
`Sound(session)` collects: the type, the links of the rounds, "an ended session
has rounds", the root commitment, the monotone snapshots, the genuine
convergence, and these two facts (`ConvergedAsOfLastRound`,
`SnapshotsFalsify`). It is proved per operation on values (`AdvanceSound`,
`DecisionSound`, `StartSound`), since the operations are functions; the steps
of the specification then follow. The count of evidence
requests (`EvidenceRequests`) is a recursive function whose value the provers
cannot compute; `BudgetTheorem` needs only that the count before a round is
fixed once the rounds before it are (`EvidenceRequestsKept`), for a later round
or a decision adds to the rounds and rewrites none.

`SessionHub_proofs` proves every property of `session_hub` from the same
lemmas, for any number of overlapping callers. The invariant `AllSound` is that
the stored session is sound and so is every copy a call still works on: a copy,
however stale, was once stored. That is why a lost update can lose rounds but
cannot leave a session with a broken chain.

`DecisionLedger_proofs` proves every safety property of `decision_ledger` and
the refinement. `ChainInv` says that each stored history is a sequence of
successors (`Successor`: one more in revision, the previous hash as parent, and
an entry that is an evaluation or an approval of what came before), and that
whatever a thread is about to put is a successor of some prefix of the current
history; the put's comparison then turns "some prefix" into "the whole", which
is the reason a stale call cannot spoil a history. The database's weaker check
of parents suffices because a pending record always carries its true parent.
`EventInv` adds that a thread between put and append announces a stored
revision nobody else announces, `LinkInv` that the hash it read belongs to an
event already in the log. `Implementation` maps `Put` to the abstract evaluate
or approve, `Restart` to a forgetting or a stutter, and all else to a stutter.

`ForwardPropagation_proofs` proves, for every dependency graph and batch, that
the worklist ends with the closure and the outer loop with the joint closure.
The invariant is the one of every worklist algorithm: what was visited lies in
the closure, as does the worklist, and the dependents of what was visited are
visited or waiting; with the worklist empty the visited set is closed, hence
holds the least closed set. `ClosureOfUnion` makes the joint closure the union
of the closures taken one by one.

`BackwardTracing_proofs` proves that every chain waiting, found or reported
traces a seed through declared dependencies without meeting an assumption
twice, and passes none whose evidence is supplied and holds. The invariant adds
that the members of a waiting chain have been visited, so a new dependent cannot
occur in the chain it extends, and that a seed being traced was matched by a
signal. `RootsTheorem` is that every seed has a root among what depends on it,
the direction in which the search goes, unless there is a circle among that.
`RootsInv` says that, as long as a search has found no root, what it met either
waits in the queue or has dependents, all of them met (`SearchCovers`), and that
the seeds finished so far have a root. A search that found none would end with a
non-empty set of assumptions each of which has a dependent in the set; without a
circle there is no such finite set (`CircleFreeHasTop`).

`DeltaReconstruction_proofs` proves that a batch drops what its report says.
The code computes the two apart: the variables are applied one after the other,
each to the request the last one left, and the invalidated assumptions are
collected from the baseline. The invariant says, after any number of variables,
what the patched request still shares with the baseline (`KeepsTheRest`: the
dependencies and requirements above all, on which both computations rest) and
that its alternatives are those that need nothing the variables so far
invalidate (`Lost`). `DroppedTheorem` is this invariant at the end of the
batch, and `ScenarioTheorem` the agreement with `hub/scenario.py` that follows.
For `OrderTheorem` the invariant says what the request is after a set of
variables that do not conflict (`CorrectedBy`): the batch applied in reverse is
the same set. Whether it is accepted in reverse is `RefusedForDropped`: a variable
is refused only for an alternative that is gone, the batch named none but the
request's own, and what any part of it drops the whole drops (`AfterDrops`).
`CounterfactualTheorem` rests on two facts. Where the assumption affects no
leader, the best score is still there and the same candidates lead
(`UnaffectedLeadersLead`); where it affects some, the best score may be lower,
and who was within 5% of the old one is within 5% of the new one (`StillNear`,
`KeptLeadersLead`). Others may join, so the leaders need not be the same.
`FrontierTheorem` is that dominance, a strict order, has maximal elements above
every member of a finite set. `RequestAssumption` says which fields a request
has (`WellShaped`), that its alternatives are finitely many and its scores
numbers or missing, of which kinds a delta variable is and that one which
falsifies names a declared assumption, and that `NoResult` is no result.

`HubService_proofs` proves every property of `hub_service`, for any number of
clients, rates and calls. `LimiterInv` is the bound of the limiter in a form
that one call preserves: for each earlier admission, the calls admitted since
and the tokens left are together no more than a full bucket and what the time
since has earned (`Balanced`). `ReportsInv` adds to "every stored report is of
the history" that a report still due is of the history, not stored, and due to
no other call. `UnreportedInv` counts: each revision without its report is
matched by a call at its report or by an error, which takes that the clients
are finitely many. `ServiceAssumption` says so, and that `Idle` is no call.

`EvolutionEngine_proofs` proves the properties of `cognitive_audit`, for any
contexts, deltas, budgets, operators and approvals. `ChainInv` says that the
approvals and their events on the chain are equally many, so the generation an
event notes is the number of approvals before it. `FrozenTheorem` needs only
that `violated` is never forgotten within a call and that the loop stops in the
layer that sets it. For `HaltTheorem` the invariant `AuditInv` says that the
last analysis is what `Audit` returns; by the operators in front of the
aggregate each result is the operator's own (`PriorSound`), so whichever of
them the aggregate halts on has a finding of severity ERROR, case by case
(`HaltHasFinding`). The assumptions are that `None` is no verdict
(`NoneAssumption`), that the engine has the known operators
(`EngineAssumption`), and that contexts and deltas have fields of the types the
operators read (`CallAssumption`).

`OrderTheorem` compares two algorithms on a graph. The one in rounds is done
after as many rounds as there are nodes, since until then each round visits
another node or none ever will (`RoundsClosed`), so a node is without a time
exactly if it is in a set of nodes each of which has a cause in the set
(`UnassignableLoops`, `LoopsUnassignable`). Of the depth-first search the
invariant (`SearchInv`) says that the stack is a path of distinct nodes
(`IsPath`), so an edge back to it closes a circle; and that, as long as no
circle was found, the edges followed lead to nodes that were left or to the
next on the stack, and every set of nodes that were left has one without a
cause in the set (`Loopless`). Every step takes something from what the search
has before it, nodes to enter, nodes to leave and edges to follow (`Advances`),
so it ends within `SearchLength` steps with every node left (`SearchEnds`), and
then `Loopless` is about the whole graph. That every layer holds a graph
(`GraphInv`) follows from what a context is built of.

Where a proof needs the end of a computation, the computation is a recursive
function, and what holds of every step of it is proved from the least step at
which it would fail (`LeastNatural`, from the well-foundedness of `<`), which
needs no induction principle over an operator.

Model-checked only:

* liveness (`EventFollowsRecord`, `Terminates`), which rests on fairness. Every
  invariant and action property of the passing runs is proved.

## 6. What is not modelled

* Text: the wording of reports, prompts, findings and recommendations, and how
  the scanners' patterns match; command lines and rendering.
* The interaction layer, the LLM compliance gate and `evaluation/`: no entry
  point of the service calls them. They are arithmetic on declared effects,
  text checks and offline statistics; none keeps state that another part reads.
* The older `CognitiveAuditEngine.reconstruct` loop, which `evolve` replaced,
  and the audit's log files and text provider.
* The PostgreSQL driver: a transaction is atomic and its row a record; JSONB
  decoding is external. No entry point wires a PostgreSQL event store.
* The hypotheses' severity, missing evidence and explained signals, and the
  hash chains of the audit events of one evaluation or reconstruction, which
  live and die within one call.
* Who a caller is: authentication, tokens, tenants beyond the event log's key,
  key management. Wall-clock time, but for the limiter's clock and the second
  in an audit's certificate.
* The ordering of information requests and the policy snapshot of a report: a
  sort and a copy.

## 7. Plan

1. (done) The session, the decision ledger, and their proofs.
2. (done) Forward propagation and backward tracing with their proofs.
3. (done) The decision engine, scenarios and delta reconstruction.
4. (done) The cognitive audit with its evolution loop.
5. (done) The service behind its limiter.
6. (done) The proofs of the hub, the service and delta reconstruction.
7. (done) The proofs of the cognitive audit, of the roots of a trace, and of
   the order of a batch.
8. What is left: the variants behind the two liveness properties, as facts
   about steps; the interaction layer's joint effect (P-3) and the compliance
   gate, once an entry point calls them.
