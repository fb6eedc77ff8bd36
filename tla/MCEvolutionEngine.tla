-------------------------- MODULE MCEvolutionEngine --------------------------
(***************************************************************************)
(* EvolutionEngine on the contexts of a few decision requests and on every *)
(* graph over five edges, which make cycles of one and of three nodes and  *)
(* a node behind a cycle.                                                  *)
(***************************************************************************)
EXTENDS EvolutionEngine

CONSTANTS a1, a2, a3, goal, other

MCStatements == {a1, a2, a3}
MCVagueMarkers == [s \in MCStatements |-> IF s = a3 THEN 2 ELSE 0]
MCUnfalsifiable == {a3}
MCConditional == {a1}

Quiet == [segments |-> {}, hits |-> {}, occluded |-> FALSE, misattributed |-> FALSE]
Loud  == [segments |-> {"claim"}, hits |-> {"privilege_bypass"}, occluded |-> TRUE,
          misattributed |-> TRUE]

Request(text, assumptions, falsifiable, origin, rollout) ==
  [text |-> text, objective |-> goal, assumptions |-> assumptions,
   falsifiable |-> falsifiable, origin |-> origin, rollout |-> rollout]

Rollout(levels, exposure, feedback) ==
  [levels |-> levels, exposure |-> exposure, feedback |-> feedback]

Seen(s, what) == [x \in {s} |-> what]

Requests ==
  {Request(Quiet, <<a1, a2>>, {a1, a2}, None, None),
   Request(Quiet, <<a1, a2>>, {a1}, {0, 2}, None),
   Request(Quiet, <<a1, a3>>, {a1}, {-1}, Rollout(TRUE, "none", Seen(a1, "falsified"))),
   Request(Quiet, <<a1, a3>>, {a1}, {Undeclared}, Rollout(FALSE, "full", Seen(a3, "falsified"))),
   Request(Loud, <<a1, a2>>, {a1, a2}, None, Rollout(FALSE, "part", Seen(a2, "unobserved"))),
   Request(Quiet, <<>>, {}, None, None)}

Plain == BuildContext(Request(Quiet, <<a1, a2>>, {a1, a2}, None, None))

MCOperatorSets == {BaseOperators, BaseOperators \o <<"ORI", "GRF">>}

Node(i) == <<"n", i>>
Links == <<<<1, 2>>, <<2, 3>>, <<3, 1>>, <<3, 4>>, <<4, 4>>>>

GraphOver(links) ==
  Graph({Node(1)}, [i \in DOMAIN links |->
                      Edge(Node(links[i][1]), Node(links[i][2]), "causal")],
        DefaultConstraints, 1)

LinkGraphs == {GraphOver(SelectSeq(Links, LAMBDA l : l \in s)) : s \in SUBSET ToSet(Links)}

\* A forked, an overweight and a late edge; and one that is declared with and
\* without a weight.
Weighted(e, w, t) == [e EXCEPT !.weight = w, !.t = t]
OddGraphs ==
  LET e == Edge(Node(1), Node(2), "causal")
  IN  {Graph({}, <<e, [e EXCEPT !.relation = "requires"]>>, DefaultConstraints, 3),
       Graph({}, <<Weighted(e, 150, Undeclared)>>, DefaultConstraints, 1),
       Graph({}, <<Weighted(e, Undeclared, 5)>>, DefaultConstraints, 3),
       Graph({}, <<e, Weighted(e, 50, Undeclared)>>, DefaultConstraints, 1),
       Graph({}, <<e>>, DefaultConstraints \cup {[kind |-> "required_param"]}, 1),
       Graph({}, <<e, Edge(Node(1), Node(3), "causal")>>,
             {[kind |-> "max_out_degree", max |-> 1]}, 1)}

WithFacts(facts) == [Plain EXCEPT !.facts = facts, !.verify = TRUE]
Fact(claim, evidence, declared) ==
  [claim |-> claim, evidence |-> evidence, declared |-> declared]

Audited ==
  {BuildContext(r) : r \in Requests}
  \cup {WithFacts(f) : f \in {{}, {Fact(a1, "support", "false")}, {Fact(a2, "conflict", "true")},
                              {Fact(a2, "neutral", "undeclared")}, {Fact(a2, "none", "token")}}}
  \cup {[Plain EXCEPT !.deps = {<<1, 2>>, <<2, 1>>}], [Plain EXCEPT !.text = NoText, !.outcome = None]}

\* What people approve: answers added and taken away, an assumption more and
\* one less, other texts, another graph.
Branches(s)    == [branches |-> s]
Assumptions(s) == [assumptions |-> s]
Drop == [assumptions |-> <<a1>>, branches |-> <<a1>>]

DeltaLists ==
  {<<>>, <<[verify |-> TRUE]>>, <<<<>>>>,
   <<Branches(<<a1>>), Branches(<<a1, a2>>)>>,
   <<Branches(<<a1>>), Assumptions(<<a1, a2, a3>>), Drop>>,
   <<Assumptions(<<a1, a2, a3>>), Branches(<<a2>>), Drop>>,
   <<Branches(<<a1>>), [text |-> NoText], <<>>>>,
   <<Branches(<<a1>>), [text |-> NoText], [levels |-> TRUE], Branches(<<a2>>)>>,
   <<Branches(<<a1>>), [levels |-> TRUE], Assumptions(<<a1>>), [verify |-> TRUE], Drop>>}

Calling(contexts, lists, budgets) ==
  [context : contexts, deltas : lists, budget : budgets]

\* Every context with every list, two of them on a budget, the odd graphs as
\* deltas too.
MCCalls ==
  Calling(Audited, DeltaLists, {Unbounded})
  \cup Calling({Plain, [Plain EXCEPT !.branches = <<>>]}, DeltaLists, {0, 2})
  \cup Calling({Plain}, {<<[topology |-> g], [topology |-> NoTopology]>> : g \in OddGraphs},
               {Unbounded})
  \cup Calling({[Plain EXCEPT !.topology = g] : g \in LinkGraphs \cup OddGraphs},
               {<<>>}, {Unbounded})
=============================================================================
