----------------------------- MODULE RoadGraph -----------------------------
(***************************************************************************)
(* The road graphs of the shortest-path search: Graph.java as GraphParser  *)
(* builds it.  Every edge takes some time and covers some distance; the    *)
(* parser keeps the first edge between two nodes and drops the others.     *)
(* What the searches should find is stated over all paths that have fewer  *)
(* edges than there are nodes: a longer one goes in a circle, and is not   *)
(* better than it is without, since no edge costs less than 0.             *)
(***************************************************************************)
EXTENDS Integers, FiniteSets, FiniteSetsExt

CONSTANTS
  Nodes,        (* the nodes of every graph                                *)
  Graphs        (* the graphs to search, as sets of edges                  *)

Edges == [from : Nodes, to : Nodes, time : Nat, distance : Nat]

ASSUME NodesAssumption == IsFiniteSet(Nodes)

ASSUME GraphsAssumption ==
  \A g \in Graphs :
    /\ g \subseteq Edges
    /\ \A d, e \in g : d.from = e.from /\ d.to = e.to => d = e

OutEdges(g, n) == {e \in g : e.from = n}
InEdges(g, n) == {e \in g : e.to = n}

Plus(e, c) == [time |-> e.time + c.time, distance |-> e.distance + c.distance]

Longest == Cardinality(Nodes) - 1

(* The costs of the paths to a node, by the number of their edges and the  *)
(* node they begin at.                                                     *)
CostsTo(g, to) ==
  LET Costs[k \in 0 .. Longest] ==
        IF k = 0 THEN [n \in Nodes |-> IF n = to THEN {[time |-> 0, distance |-> 0]} ELSE {}]
        ELSE LET shorter == Costs[k - 1]
             IN  [n \in Nodes |-> UNION {{Plus(e, c) : c \in shorter[e.to]} : e \in OutEdges(g, n)}]
  IN  Costs

PathCosts(g, from, to) == UNION {CostsTo(g, to)[k][from] : k \in 0 .. Longest}

Reaches(g, from, to) == PathCosts(g, from, to) # {}

(* In the array of Dijkstra.calculate() a node without a path has the 0    *)
(* that the array was created with.                                        *)
LeastCost(g, from, to, objective) ==
  IF Reaches(g, from, to) THEN Min({c[objective] : c \in PathCosts(g, from, to)}) ELSE 0

(* dominatedByTimeAndDistance() of SearchState.java.                       *)
Dominated(c, d) == c.time >= d.time /\ c.distance >= d.distance

(* The costs that no other path undercuts.                                 *)
ParetoFront(costs) ==
  {c \in costs : \A d \in costs : Dominated(c, d) => d = c}
=============================================================================
