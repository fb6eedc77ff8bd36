----------------------------- MODULE TopologyGraph -----------------------------
(***************************************************************************)
(* The reasoning topology and its four validations                         *)
(* (audit/cognitive/plugins/topology.py).                                  *)
(*                                                                         *)
(* A graph is a record of its nodes, the sequence of its edges and its     *)
(* constraints.  An edge names its source, its target, the relation, a     *)
(* weight in hundredths and a declared time, the last two possibly         *)
(* Undeclared.  What only texts record (notes, delta_d, validity) is left  *)
(* out, and so are names that differ in case only, which consistency       *)
(* forbids; the provenance is the number of its entries.                   *)
(***************************************************************************)
EXTENDS Integers, Sequences, FiniteSets, SequencesExt

CONSTANT Undeclared     \* None: no weight, no declared time

Edge(src, dst, relation) ==
  [src |-> src, dst |-> dst, relation |-> relation,
   weight |-> Undeclared, t |-> Undeclared]

DefaultConstraints == {[kind |-> "weight_range", lo |-> 0, hi |-> 100]}

\* An edge creates the nodes it connects.
Graph(nodes, edges, constraints, provenance) ==
  [nodes |-> nodes \cup {edges[i].src : i \in DOMAIN edges}
                   \cup {edges[i].dst : i \in DOMAIN edges},
   edges |-> edges, constraints |-> constraints, provenance |-> provenance]

IsSequence(s) == Len(s) \in Nat /\ DOMAIN s = 1 .. Len(s)

\* A graph as the program can build one.
IsGraph(g) ==
  /\ IsFiniteSet(g.nodes)
  /\ IsSequence(g.edges)
  /\ \A i \in DOMAIN g.edges : {g.edges[i].src, g.edges[i].dst} \subseteq g.nodes

Shape(e) == <<e.src, e.dst>>
Key(e)   == <<e.src, e.dst, e.relation>>

\* The edges out of n, by their position.
Leaving(g, n) == {i \in DOMAIN g.edges : g.edges[i].src = n}

\* The sources of the edges into n.
Causes(g, n) == {g.edges[i].src : i \in {j \in DOMAIN g.edges : g.edges[j].dst = n}}

------------------------------------------------------------------------------
(***************************************************************************)
(* find_cycles: a depth-first search with an explicit stack.  The nodes on *)
(* the stack are grey and their sequence is the path; with each are the    *)
(* edges out of it that are left to follow.                                *)
(***************************************************************************)
Search(stack, black, cycles) ==
  [stack |-> stack, black |-> black, cycles |-> cycles]

SearchStart == Search(<<>>, {}, {})

Grey(s) == {s.stack[i].node : i \in DOMAIN s.stack}

Enter(g, n) == [node |-> n, left |-> Leaving(g, n)]

\* The path from the grey node n to the top of the stack.
CycleFrom(s, n) ==
  LET start == CHOOSE i \in DOMAIN s.stack : s.stack[i].node = n
  IN  {s.stack[i].node : i \in start .. Len(s.stack)}

BackEdge(s, n) == n \in Grey(s)

\* The edges are followed in their order.  The roots are taken in the order
\* of their names; any order will do.
SearchStep(g, s) ==
  LET roots  == g.nodes \ s.black
      top    == Last(s.stack)
      edge   == Min(top.left)
      next   == g.edges[edge].dst
      onward == Append(Front(s.stack), [node |-> top.node, left |-> top.left \ {edge}])
  IN  CASE s.stack = <<>> /\ roots = {} -> s
        [] s.stack = <<>> /\ roots # {} ->
             Search(<<Enter(g, CHOOSE n \in roots : TRUE)>>, s.black, s.cycles)
        [] s.stack # <<>> /\ top.left = {} ->
             Search(Front(s.stack), s.black \cup {top.node}, s.cycles)
        [] s.stack # <<>> /\ top.left # {} ->
             CASE BackEdge(s, next) ->
                    Search(onward, s.black, s.cycles \cup {CycleFrom(s, next)})
               [] ~BackEdge(s, next) /\ next \in s.black ->
                    Search(onward, s.black, s.cycles)
               [] ~BackEdge(s, next) /\ next \notin s.black ->
                    Search(Append(onward, Enter(g, next)), s.black, s.cycles)

\* Every node is entered and left once, every edge is followed once.
SearchLength(g) == 2 * Cardinality(g.nodes) + Len(g.edges)

Searches(g) ==
  LET search[k \in 0 .. SearchLength(g)] ==
        IF k = 0 THEN SearchStart ELSE SearchStep(g, search[k - 1])
  IN  search

FindCycles(g) == Searches(g)[SearchLength(g)].cycles

------------------------------------------------------------------------------
(***************************************************************************)
(* assign_time_order: a node is visited when all its causes are, and its   *)
(* time is one more than the latest of the visited ones.                   *)
(***************************************************************************)
\* Faulty variant: a node is released by its first cause.
ReleasedByOne(g, visited) ==
  {n \in g.nodes : Causes(g, n) = {} \/ Causes(g, n) \cap visited # {}}

Released(g, visited) == {n \in g.nodes : Causes(g, n) \subseteq visited}

\* The nodes visited after k rounds.
Rounds(g) ==
  LET rounds[k \in 0 .. Cardinality(g.nodes)] ==
        IF k = 0 THEN {} ELSE Released(g, rounds[k - 1])
  IN  rounds

Assigned(g) == Rounds(g)[Cardinality(g.nodes)]

Unassignable(g) == g.nodes \ Assigned(g)

\* The round that visits n.
Turn(g, n) == Min({k \in 0 .. Cardinality(g.nodes) : n \in Rounds(g)[k]})

TimeOrder(g) ==
  [n \in g.nodes |->
     Max({0} \cup {Turn(g, c) : c \in Causes(g, n) \cap Assigned(g)})]

Forks(g) ==
  {Shape(g.edges[i]) : i \in {j \in DOMAIN g.edges :
     \E k \in DOMAIN g.edges : k # j /\ Shape(g.edges[k]) = Shape(g.edges[j])}}

\* Declared times outside the derived order.
Inverted(g) ==
  LET t == TimeOrder(g)
  IN  {Shape(e) : e \in {f \in ToSet(g.edges) :
         f.t # Undeclared /\ (f.t < t[f.src] \/ f.t >= t[f.dst])}}

------------------------------------------------------------------------------
(***************************************************************************)
(* The validations.  An issue is its code; those of consistency and        *)
(* constraints are fatal, the others leave the result invalid.             *)
(***************************************************************************)
DuplicatesOf(g, e) == {f \in ToSet(g.edges) : Key(f) = Key(e)}

CheckConsistency(g) ==
  {c \in {"T101", "T102"} :
     \/ c = "T101" /\ \E e, f \in ToSet(g.edges) :
          Shape(e) = Shape(f) /\ e.relation # f.relation
     \/ c = "T102" /\ \E e \in ToSet(g.edges) :
          \E f \in DuplicatesOf(g, e) : f.weight # e.weight}

OutDegree(g, n) == Cardinality(Leaving(g, n))

Lowest(ranges)  == Min({c.lo : c \in ranges})
Highest(ranges) == Max({c.hi : c \in ranges})

CheckConstraints(g) ==
  LET Of(kind) == {c \in g.constraints : c.kind = kind}
      ranges   == Of("weight_range")
  IN  {c \in {"T201", "T202", "T203"} :
         \/ c = "T201" /\ ranges # {} /\ \E e \in ToSet(g.edges) :
              /\ e.weight # Undeclared
              /\ e.weight < Lowest(ranges) \/ e.weight > Highest(ranges)
         \/ c = "T202" /\ Of("required_param") # {}
              /\ \E e \in ToSet(g.edges) : e.weight = Undeclared
         \/ c = "T203" /\ \E m \in Of("max_out_degree"), n \in g.nodes :
              OutDegree(g, n) > m.max}

\* Edges create their nodes, so none dangles.
CheckClosure(g) ==
  {c \in {"T302", "T303"} :
     \/ c = "T302" /\ \E n \in g.nodes :
          Causes(g, n) = {} /\ Leaving(g, n) = {}
     \/ c = "T303" /\ FindCycles(g) # {}}

CheckTimeOrder(g) ==
  {c \in {"T305", "T307", "T308"} :
     \/ c = "T305" /\ Forks(g) # {}
     \/ c = "T307" /\ Inverted(g) # {}
     \/ c = "T308" /\ Unassignable(g) # {}}

FatalIssues(g)   == CheckConsistency(g) \cup CheckConstraints(g)
WarningIssues(g) == CheckClosure(g) \cup CheckTimeOrder(g)

\* graph_hash sorts the edges: two with the same key, of which one declares
\* a weight (or a time, the weights being equal) and the other does not,
\* cannot be compared, and the call raises.
Unsortable(g) ==
  \E e \in ToSet(g.edges) : \E f \in DuplicatesOf(g, e) :
    \/ e.weight = Undeclared /\ f.weight # Undeclared
    \/ e.weight = f.weight /\ e.t = Undeclared /\ f.t # Undeclared
=============================================================================
