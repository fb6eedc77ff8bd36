---------------------------- MODULE BackwardTracing ----------------------------
(***************************************************************************)
(* Tracing deviation signals to root-cause hypotheses:                     *)
(* CausalReconstructor.reconstruct and _backward_bfs                       *)
(* (decision/reconstruction.py).  The signals are matched to assumptions;  *)
(* from each matched assumption (a seed) a breadth-first search follows    *)
(* the reverse dependency map, a list of dependents in the order of        *)
(* declaration, until it meets assumptions nothing depends on or           *)
(* assumptions whose evidence is supplied.                                 *)
(*                                                                         *)
(* Abstracted: a signal's metric mentions or does not mention an           *)
(* assumption's falsification condition; an assumption's evidence is open  *)
(* (none declared, or some of it not supplied), supplied, or supplied and  *)
(* expired when the signals were observed.                                 *)
(***************************************************************************)
EXTENDS Integers, Sequences, AssumptionGraph

CONSTANTS
  InOrder,        \* lists a set of assumptions in the order of declaration
  Signals,        \* the deviation signals
  MentionTables,  \* which assumptions' conditions mention each signal
  NoSeed          \* no seed is being traced

ASSUME TracingAssumption ==
  /\ InOrder \in [SUBSET Assumptions -> Seq(Assumptions)]
  /\ \A S \in SUBSET Assumptions :
       {InOrder[S][i] : i \in DOMAIN InOrder[S]} = S
  /\ MentionTables \subseteq [Signals -> SUBSET Assumptions]
  /\ NoSeed \notin Assumptions

EvidenceState == {"open", "supplied", "expired"}

VARIABLES
  deps,        \* the declared dependencies
  evidence,    \* the state of each assumption's evidence
  mentions,    \* the assumptions each signal's metric is mentioned by
  seeds,       \* the seeds still to be traced
  seed,        \* the seed being traced
  frontier,    \* the queue: chains from a reached assumption to the seed
  visited,     \* the assumptions the search has met
  localRoots,  \* the chains that ended at a root of this seed
  roots        \* the chain kept for each root

vars == <<deps, evidence, mentions, seeds, seed, frontier, visited,
          localRoots, roots>>

request == <<deps, evidence, mentions>>

------------------------------------------------------------------------------
\* _match_signal_to_assumptions: an assumption with supplied, unexpired
\* evidence is taken to hold.
Match(signal) == {a \in mentions[signal] : evidence[a] # "supplied"}

Seeds == UNION {Match(signal) : signal \in Signals}

\* The search asks only whether the evidence was supplied.
Verified(a) == evidence[a] \in {"supplied", "expired"}

Init ==
  /\ deps \in DependencyGraph
  /\ evidence \in [Assumptions -> EvidenceState]
  /\ mentions \in MentionTables
  /\ seeds = Seeds
  /\ seed = NoSeed
  /\ frontier = <<>>
  /\ visited = {}
  /\ localRoots = {}
  /\ roots = [r \in {} |-> <<>>]

\* The seeds are taken in the order of their ids, which may be any.
StartSeed ==
  \E s \in seeds :
    /\ seed = NoSeed
    /\ seeds' = seeds \ {s}
    /\ seed' = s
    /\ frontier' = <<<<s>>>>
    /\ visited' = {s}
    /\ localRoots' = {}
    /\ UNCHANGED <<request, roots>>

\* The dependents of current the search had not met.
NewDependents(current) == Dependents(deps, current) \ visited

\* The new dependents whose evidence is open, in the order of declaration.
OpenDependents(current) ==
  InOrder[{a \in NewDependents(current) : ~Verified(a)}]

\* Faulty variant: the queue holds assumptions.
ExtendedUnchained(chain) == OpenDependents(chain[1])

\* Faulty variant: the chain is written from the seed to the root.
ExtendedAtEnd(chain) ==
  [i \in DOMAIN OpenDependents(chain[1]) |->
     Append(chain, OpenDependents(chain[1])[i])]

\* The chains the search goes on with.
Extended(chain) ==
  [i \in DOMAIN OpenDependents(chain[1]) |->
     <<OpenDependents(chain[1])[i]>> \o chain]

\* Faulty variant: only what nothing depends on ends a chain.
EndsAtTopOnly(chain) == Dependents(deps, chain[1]) = {}

\* A chain ends where nothing depends on the assumption reached, or where a
\* new dependent is verified.
EndsAt(chain) ==
  \/ Dependents(deps, chain[1]) = {}
  \/ \E a \in NewDependents(chain[1]) : Verified(a)

\* One turn of the search.
Visit ==
  LET chain == Head(frontier)
  IN  /\ frontier # <<>>
      /\ frontier' = Tail(frontier) \o Extended(chain)
      /\ visited' = visited \cup Dependents(deps, chain[1])
      /\ localRoots' = localRoots \cup (IF EndsAt(chain) THEN {chain} ELSE {})
      /\ UNCHANGED <<request, seeds, seed, roots>>

\* The chain found for r in this search, which met r once.
Found(r) == {chain \in localRoots : chain[1] = r}

\* Whether the chain is kept: a root keeps the longest of the searches.
Kept(chain) ==
  chain[1] \in DOMAIN roots => Len(chain) > Len(roots[chain[1]])

\* The search from one seed is over.
FinishSeed ==
  /\ seed # NoSeed
  /\ frontier = <<>>
  /\ roots' = [r \in DOMAIN roots \cup {chain[1] : chain \in localRoots} |->
                 IF \E chain \in Found(r) : Kept(chain)
                 THEN CHOOSE chain \in Found(r) : Kept(chain)
                 ELSE roots[r]]
  /\ seed' = NoSeed
  /\ UNCHANGED <<request, seeds, frontier, visited, localRoots>>

Next == StartSeed \/ Visit \/ FinishSeed

Spec == Init /\ [][Next]_vars

Done == seed = NoSeed /\ seeds = {}

------------------------------------------------------------------------------
(***************************************************************************)
(* Properties                                                              *)
(***************************************************************************)

Chain == Seq(Assumptions) \ {<<>>}

\* Type invariant.
TypeOK ==
  /\ deps \in DependencyGraph
  /\ evidence \in [Assumptions -> EvidenceState]
  /\ mentions \in MentionTables
  /\ seeds \subseteq Assumptions
  /\ seed \in Assumptions \cup {NoSeed}
  /\ frontier \in Seq(Chain)
  /\ visited \subseteq Assumptions
  /\ localRoots \subseteq Chain
  /\ DOMAIN roots \subseteq Assumptions
  /\ \A r \in DOMAIN roots : roots[r] \in Chain

\* A chain of declared dependencies from the assumption reached to a seed:
\* each member depends on the next, none occurs twice, and none has evidence
\* that is supplied and has not expired.
Traces(chain) ==
  /\ chain[Len(chain)] \in Seeds
  /\ \A i, j \in 1 .. Len(chain) : chain[i] = chain[j] => i = j
  /\ \A i \in 1 .. Len(chain) - 1 : chain[i] \in Dependents(deps, chain[i + 1])
  /\ \A i \in 1 .. Len(chain) : evidence[chain[i]] # "supplied"

\* Every chain waiting, found or reported traces a seed: "every trace path
\* is derived from the declared dependency graph" (reconstruction.py:9),
\* also when dependencies make a circle, and passes no assumption whose
\* evidence holds.
ChainsTraceSeeds ==
  /\ \A i \in DOMAIN frontier : Traces(frontier[i])
  /\ \A chain \in localRoots : Traces(chain)
  /\ \A r \in DOMAIN roots : Traces(roots[r]) /\ roots[r][1] = r

\* Nothing that depends on s lies on a circle of dependencies.
CircleFree(s) ==
  \A a \in InvalidationClosure(deps, {s}) :
    a \notin InvalidationClosure(deps, Dependents(deps, a))

\* Tracing reports a root for every seed, one that forward propagation
\* reaches from it, so its signal is not lost without a hypothesis
\* (reconstruction.py:144-186).  Circles elsewhere in the graph take no root
\* from it; only one among what depends on the seed may.
EverySeedHasRoot ==
  Done =>
    \A s \in Seeds :
      CircleFree(s) => InvalidationClosure(deps, {s}) \cap DOMAIN roots # {}
=============================================================================
