------------------------------ MODULE Dijkstra ------------------------------
(***************************************************************************)
(* Dijkstra.java: one single-objective search, from its origin along the   *)
(* edges or against them.  A node is seen when it enters the heap and      *)
(* closed when it leaves it.                                               *)
(*                                                                         *)
(* The heap is modelled by what Heap.java promises, a set from which any   *)
(* entry of the least value may be taken.  The entries are the search      *)
(* states themselves, so decrease() puts a new state in the place of the   *)
(* one that seen remembers.                                                *)
(***************************************************************************)
EXTENDS RoadGraph

CONSTANT
  NoState       (* null                                                    *)

VARIABLES
  graph,        (* the graph, which no search changes                      *)
  job,          (* the origin, direction and objective of this search      *)
  heap,         (* the SingleObjStates in the heap                         *)
  seen,         (* for every node the last state that entered the heap     *)
  closed,       (* the nodes that left it                                  *)
  result,       (* the least objective found for every node                *)
  current,      (* the state being expanded                                *)
  edges         (* the edges it was not expanded by yet                    *)

vars == <<graph, job, heap, seen, closed, result, current, edges>>

SingleObjStates == [nodeId : Nodes, objective : Nat]
State(n, v) == [nodeId |-> n, objective |-> v]

ExpandEdges(n) == IF job.direction = "forward" THEN OutEdges(graph, n) ELSE InEdges(graph, n)
SuccessorNode(e) == IF job.direction = "forward" THEN e.to ELSE e.from

(* The fields of a new search for the job j, and the insertion of its      *)
(* origin, which seen does not get to know.                                *)
Begin(j) ==
  /\ job = j
  /\ heap = {State(j.origin, 0)}
  /\ seen = [n \in Nodes |-> NoState]
  /\ closed = {}
  /\ result = [n \in Nodes |-> 0]
  /\ current = NoState
  /\ edges = {}

BeginNext(j) ==
  /\ job' = j
  /\ heap' = {State(j.origin, 0)}
  /\ seen' = [n \in Nodes |-> NoState]
  /\ closed' = {}
  /\ result' = [n \in Nodes |-> 0]
  /\ current' = NoState
  /\ edges' = {}

(* extractMinimum() and close().                                           *)
CloseMinimum ==
  /\ current = NoState
  /\ \E s \in heap :
       /\ \A t \in heap : s.objective <= t.objective
       /\ heap' = heap \ {s}
       /\ closed' = closed \union {s.nodeId}
       /\ current' = s
       /\ edges' = ExpandEdges(s.nodeId)
  /\ UNCHANGED <<graph, job, seen, result>>

Encounter(s) ==
  /\ heap' = heap \union {s}
  /\ seen' = [seen EXCEPT ![s.nodeId] = s]

NeverDecrease(s) ==           \* mutant: the first way to a node is kept
  UNCHANGED <<heap, seen>>

(* decrease() refuses an entry that is not in the heap.                    *)
EncounterAgain(s) ==
  IF s.objective < seen[s.nodeId].objective
  THEN /\ seen[s.nodeId] \in heap
       /\ heap' = (heap \ {seen[s.nodeId]}) \union {s}
       /\ seen' = [seen EXCEPT ![s.nodeId] = s]
  ELSE UNCHANGED <<heap, seen>>

(* One round of the loop of expand(), over the edges in any order: it is   *)
(* the order of the lines in the file.                                     *)
FollowEdge ==
  \E e \in edges :
    LET s == State(SuccessorNode(e), current.objective + e[job.objective]) IN
    /\ edges' = edges \ {e}
    /\ IF s.nodeId \in closed THEN UNCHANGED <<heap, seen>>
       ELSE IF seen[s.nodeId] = NoState THEN Encounter(s) ELSE EncounterAgain(s)
    /\ UNCHANGED <<graph, job, closed, result, current>>

Expanded ==
  /\ current # NoState
  /\ edges = {}
  /\ result' = [result EXCEPT ![current.nodeId] = current.objective]
  /\ current' = NoState
  /\ UNCHANGED <<graph, job, heap, seen, closed, edges>>

Finished == heap = {} /\ current = NoState

Next == CloseMinimum \/ FollowEdge \/ Expanded
------------------------------------------------------------------------------
TypeOK ==
  /\ heap \subseteq SingleObjStates
  /\ seen \in [Nodes -> SingleObjStates \union {NoState}]
  /\ closed \subseteq Nodes
  /\ result \in [Nodes -> Nat]
  /\ current \in SingleObjStates \union {NoState}
  /\ edges \subseteq graph

(* Every node that was seen and not closed is in the heap, with the state  *)
(* that seen remembers: isInHeap() asks seen only, and decrease() refuses  *)
(* a state that is not in the heap.                                        *)
SeenStatesInHeap ==
  \A n \in Nodes \ closed :
    IF seen[n] = NoState THEN \A s \in heap : s.nodeId = n => closed = {}
    ELSE {s \in heap : s.nodeId = n} = {seen[n]}
=============================================================================
