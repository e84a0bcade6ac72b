----------------------- MODULE MCMultiObjectiveAStar -----------------------
(***************************************************************************)
(* Every graph that keeps some of eleven edges between five nodes: a fast, *)
(* a short and a middle way with links between them, ways back, an edge    *)
(* that takes no time, one of no length, and the dead ends that appear     *)
(* when edges are left out.                                                *)
(***************************************************************************)
EXTENDS MultiObjectiveAStar

Edge(from, to, time, distance) ==
  [from |-> from, to |-> to, time |-> time, distance |-> distance]

MCGraphs ==
  SUBSET {Edge(1, 2, 1, 3), Edge(1, 3, 2, 1), Edge(2, 3, 0, 1), Edge(3, 2, 1, 0),
          Edge(2, 4, 1, 3), Edge(3, 4, 2, 2), Edge(2, 5, 3, 6), Edge(3, 5, 9, 1),
          Edge(4, 5, 2, 1), Edge(4, 1, 1, 1), Edge(5, 3, 1, 1)}
=============================================================================
