------------------------ MODULE MultiObjectiveAStar ------------------------
(***************************************************************************)
(* Main.java with MultiObjectiveAStar.java: the search for all paths from  *)
(* Start to Goal that no other path undercuts in time and distance.  Two   *)
(* backward Dijkstra searches from the goal give the heuristics; then the  *)
(* labels of partial paths leave a heap in lexicographical order of their  *)
(* estimated costs.                                                        *)
(*                                                                         *)
(* The bag of opened labels of a node (BasicParetoBag) compares both       *)
(* objectives and shares its labels with the heap; the bag of closed       *)
(* labels and the bag of solutions (SingletonParetoBag) keep one label     *)
(* each and compare the distance only.                                     *)
(*                                                                         *)
(* The heap is modelled by what Heap.java promises, as in Dijkstra.  Of    *)
(* the path behind a label only its last node counts.  Costs are small     *)
(* enough for their sums to stay below 2^31.                               *)
(***************************************************************************)
EXTENDS RoadGraph, Sequences

CONSTANTS
  Start, Goal,
  ResultLimits, (* the arguments of calculate(), Integer.MAX_VALUE a bound *)
                (* that no graph reaches                                   *)
  NoState       (* null                                                    *)

ASSUME SearchAssumption ==
  /\ Start \in Nodes /\ Goal \in Nodes
  /\ ResultLimits \subseteq Nat \ {0}
  /\ NoState \notin Nodes

VARIABLES
  graph,
  stage,        (* the search that is going on, or "done"                  *)
  job, dHeap, dSeen, dClosed, dResult, dCurrent, dEdges,    (* of Dijkstra *)
  heuristic,    (* the results of the two backward searches                *)
  numberOfResults,
  heap,         (* the labels in the heap                                  *)
  opened,       (* for every node the labels of its bag, oldest first      *)
  closed,       (* for every node the label its bag of closed ones keeps   *)
  solution,     (* the label in the bag of solutions                       *)
  results,      (* the list of results                                     *)
  current,      (* the label being expanded                                *)
  edges         (* the edges it was not expanded by yet                    *)

dijkstra == <<job, dHeap, dSeen, dClosed, dResult, dCurrent, dEdges>>
search == <<heap, opened, closed, solution, results, current, edges>>
vars == <<graph, stage, dijkstra, heuristic, numberOfResults, search>>

D == INSTANCE Dijkstra WITH heap <- dHeap, seen <- dSeen, closed <- dClosed,
       result <- dResult, current <- dCurrent, edges <- dEdges

(* SearchState.java: the costs of a partial path and what is estimated to  *)
(* be missing to the goal.                                                 *)
SearchStates ==
  [nodeId : Nodes, time : Nat, distance : Nat,
   timeHeuristic : Nat, distanceHeuristic : Nat, previous : Nodes \union {NoState}]

ASSUME NullAssumption == NoState \notin SearchStates \union D!SingleObjStates

Objectives == {"time", "distance"}

Job(direction, objective) ==
  [origin |-> IF direction = "forward" THEN Start ELSE Goal,
   direction |-> direction, objective |-> objective]

Init ==
  /\ graph \in Graphs
  /\ numberOfResults \in ResultLimits
  /\ stage = "forward"
  /\ D!Begin(Job("forward", "distance"))
  /\ heuristic = [o \in Objectives |-> [n \in Nodes |-> 0]]
  /\ heap = {}
  /\ opened = [n \in Nodes |-> << >>]
  /\ closed = [n \in Nodes |-> NoState]
  /\ solution = NoState
  /\ results = << >>
  /\ current = NoState
  /\ edges = {}
------------------------------------------------------------------------------
EstimatedGoalTime(s) == s.time + s.timeHeuristic
EstimatedGoalDistance(s) == s.distance + s.distanceHeuristic

ByDistance(s, t) ==           \* mutant: the two objectives change places
  \/ EstimatedGoalDistance(s) < EstimatedGoalDistance(t)
  \/ /\ EstimatedGoalDistance(s) = EstimatedGoalDistance(t)
     /\ EstimatedGoalTime(s) < EstimatedGoalTime(t)

ByTime(s, t) ==               \* mutant: labels of equal time in any order
  EstimatedGoalTime(s) < EstimatedGoalTime(t)

LexicographicalOrder(s, t) ==
  \/ EstimatedGoalTime(s) < EstimatedGoalTime(t)
  \/ /\ EstimatedGoalTime(s) = EstimatedGoalTime(t)
     /\ EstimatedGoalDistance(s) < EstimatedGoalDistance(t)

DominatedByClosed(s) ==
  closed[s.nodeId] # NoState /\ s.distance >= closed[s.nodeId].distance

DominatedBySolution(s) ==
  solution # NoState /\ EstimatedGoalDistance(s) >= EstimatedGoalDistance(solution)

NothingLeft(s) ==             \* mutant: a label without estimates is at the goal
  s.timeHeuristic = 0 /\ s.distanceHeuristic = 0

IsGoal(s) == s.nodeId = Goal

(* The label that move() makes of a label and an edge.                     *)
Move(s, e) ==
  [nodeId |-> e.to, time |-> s.time + e.time, distance |-> s.distance + e.distance,
   timeHeuristic |-> heuristic["time"][e.to],
   distanceHeuristic |-> heuristic["distance"][e.to], previous |-> s.nodeId]

(* BasicParetoBag.remove(): the others keep their order.                   *)
Without(bag, gone) ==
  LET Kept[i \in 0 .. Len(bag)] ==
        IF i = 0 THEN << >>
        ELSE IF bag[i] \in gone THEN Kept[i - 1] ELSE Append(Kept[i - 1], bag[i])
  IN  Kept[Len(bag)]

ForgetTheHeap(s) ==           \* mutant: what leaves the bag stays in the heap
  LET bag == opened[s.nodeId]
      removed == {t \in {bag[i] : i \in DOMAIN bag} : Dominated(t, s)}
  IN  IF \E i \in DOMAIN bag : Dominated(s, bag[i])
      THEN UNCHANGED <<heap, opened>>
      ELSE /\ heap' = heap \union {s}
           /\ opened' = [opened EXCEPT ![s.nodeId] = Append(Without(bag, removed), s)]

(* BasicParetoBag.addToBagAndHeapIfNotDominated(): the loop ends at the    *)
(* first label that dominates s, unless s dominated an earlier one; the    *)
(* labels s dominates leave the bag and the heap, which refuses to delete  *)
(* one it does not hold.                                                   *)
AddIfNotDominated(s) ==
  LET bag == opened[s.nodeId]
      worse == {i \in DOMAIN bag : Dominated(bag[i], s)}
      removed == {bag[i] : i \in worse}
  IN  IF \E i \in DOMAIN bag : Dominated(s, bag[i]) /\ \A j \in worse : i <= j
      THEN UNCHANGED <<heap, opened>>
      ELSE /\ removed \subseteq heap
           /\ heap' = (heap \ removed) \union {s}
           /\ opened' = [opened EXCEPT ![s.nodeId] = Append(Without(bag, removed), s)]

Encounter(s) ==
  IF DominatedBySolution(s) \/ DominatedByClosed(s)
  THEN UNCHANGED <<heap, opened>>
  ELSE AddIfNotDominated(s)
------------------------------------------------------------------------------
DijkstraStep ==
  /\ stage \in {"forward", "time", "distance"}
  /\ D!Next
  /\ UNCHANGED <<stage, heuristic, numberOfResults, search>>

(* Main's own search ends, and createDefault() begins the first heuristic. *)
StartTimeHeuristic ==
  /\ stage = "forward" /\ D!Finished
  /\ stage' = "time"
  /\ D!BeginNext(Job("backward", "time"))
  /\ UNCHANGED <<graph, heuristic, numberOfResults, search>>

StartDistanceHeuristic ==
  /\ stage = "time" /\ D!Finished
  /\ stage' = "distance"
  /\ heuristic' = [heuristic EXCEPT !["time"] = dResult]
  /\ D!BeginNext(Job("backward", "distance"))
  /\ UNCHANGED <<graph, numberOfResults, search>>

(* The first label has no estimates.                                       *)
StartSearch ==
  /\ stage = "distance" /\ D!Finished
  /\ stage' = "search"
  /\ heuristic' = [heuristic EXCEPT !["distance"] = dResult]
  /\ Encounter([nodeId |-> Start, time |-> 0, distance |-> 0, timeHeuristic |-> 0,
                distanceHeuristic |-> 0, previous |-> NoState])
  /\ UNCHANGED <<graph, dijkstra, numberOfResults, closed, solution, results, current, edges>>

(* extractMinimum() and opened.remove(); dead by now are labels that a     *)
(* solution found in the meantime dominates.                               *)
TakeMinimum(s) ==
  /\ stage = "search" /\ current = NoState
  /\ s \in heap
  /\ \A t \in heap : ~LexicographicalOrder(t, s)
  /\ heap' = heap \ {s}
  /\ opened' = [opened EXCEPT ![s.nodeId] = Without(@, {s})]

PeekDominated ==              \* mutant: getMinimum() for extractMinimum()
  \E s \in heap :
    /\ stage = "search" /\ current = NoState
    /\ \A t \in heap : ~LexicographicalOrder(t, s)
    /\ DominatedBySolution(s)
    /\ UNCHANGED vars

DropDominated ==
  \E s \in heap :
    /\ TakeMinimum(s)
    /\ DominatedBySolution(s)
    /\ UNCHANGED <<graph, stage, dijkstra, heuristic, numberOfResults>>
    /\ UNCHANGED <<closed, solution, results, current, edges>>

ReachGoal ==
  \E s \in heap :
    /\ TakeMinimum(s)
    /\ ~DominatedBySolution(s)
    /\ IsGoal(s)
    /\ results' = Append(results, s)
    /\ solution' = s
    /\ stage' = IF Len(results') >= numberOfResults THEN "done" ELSE stage
    /\ UNCHANGED <<graph, dijkstra, heuristic, numberOfResults, closed, current, edges>>

Close ==
  \E s \in heap :
    /\ TakeMinimum(s)
    /\ ~DominatedBySolution(s)
    /\ ~IsGoal(s)
    /\ closed' = [closed EXCEPT ![s.nodeId] = s]
    /\ current' = s
    /\ edges' = OutEdges(graph, s.nodeId)
    /\ UNCHANGED <<graph, stage, dijkstra, heuristic, numberOfResults, solution, results>>

(* One round of the loop of expand(), over the edges in any order.         *)
FollowEdge ==
  \E e \in edges :
    /\ stage = "search"
    /\ edges' = edges \ {e}
    /\ IF e.to = current.previous THEN UNCHANGED <<heap, opened>>
       ELSE Encounter(Move(current, e))
    /\ UNCHANGED <<graph, stage, dijkstra, heuristic, numberOfResults>>
    /\ UNCHANGED <<closed, solution, results, current>>

Expanded ==
  /\ stage = "search" /\ current # NoState /\ edges = {}
  /\ current' = NoState
  /\ UNCHANGED <<graph, stage, dijkstra, heuristic, numberOfResults>>
  /\ UNCHANGED <<heap, opened, closed, solution, results, edges>>

NoMoreLabels ==
  /\ stage = "search" /\ current = NoState /\ heap = {}
  /\ stage' = "done"
  /\ UNCHANGED <<graph, dijkstra, heuristic, numberOfResults, search>>

Next ==
  \/ DijkstraStep
  \/ StartTimeHeuristic
  \/ StartDistanceHeuristic
  \/ StartSearch
  \/ DropDominated
  \/ ReachGoal
  \/ Close
  \/ FollowEdge
  \/ Expanded
  \/ NoMoreLabels

(* A single thread runs the program.                                       *)
Spec == Init /\ [][Next]_vars /\ WF_vars(Next)
------------------------------------------------------------------------------
(* Between the bags and the map every label is filed under its own node.   *)
TypeOK ==
  /\ graph \in Graphs /\ numberOfResults \in ResultLimits
  /\ stage \in {"forward", "time", "distance", "search", "done"}
  /\ D!TypeOK
  /\ heuristic \in [Objectives -> [Nodes -> Nat]]
  /\ heap \subseteq SearchStates
  /\ \A n \in Nodes :
       /\ \A i \in DOMAIN opened[n] : opened[n][i] \in SearchStates /\ opened[n][i].nodeId = n
       /\ closed[n] # NoState => closed[n] \in SearchStates /\ closed[n].nodeId = n
  /\ solution # NoState => solution \in SearchStates /\ solution.nodeId = Goal
  /\ \A i \in DOMAIN results : results[i] \in SearchStates
  /\ current \in SearchStates \union {NoState}
  /\ edges \subseteq graph

(* Dijkstra finds the least cost from or to every node, whatever the order *)
(* of the edges and the choice between entries of equal value; a node that *)
(* is not connected keeps a 0.                                             *)
HeuristicsAreLeastCosts ==
  /\ \A o \in Objectives :
       stage \in {"search", "done"} =>
         \A n \in Nodes : heuristic[o][n] = LeastCost(graph, n, Goal, o)
  /\ stage = "forward" /\ D!Finished =>
       \A n \in Nodes : dResult[n] = LeastCost(graph, Start, n, "distance")
  /\ D!SeenStatesInHeap

(* The heap and the bags of opened labels hold the same labels, although   *)
(* each is changed through the other's methods, and in no bag does one     *)
(* label dominate another: heap.delete() never refuses.                    *)
BagsMatchHeap ==
  /\ heap = UNION {{opened[n][i] : i \in DOMAIN opened[n]} : n \in Nodes}
  /\ \A n \in Nodes : \A i, j \in DOMAIN opened[n] :
       i # j => ~Dominated(opened[n][i], opened[n][j])

(* One label and one objective are enough for the closed labels and for    *)
(* the solutions: a label that is refused for its distance is worse in     *)
(* time too.  Nodes from which the goal cannot be reached are left out:    *)
(* Dijkstra leaves them the estimate 0, which is not consistent with the   *)
(* edges that lead there, and labels there may be refused although they    *)
(* are better in time.                                                     *)
OneObjectiveIsEnough ==
  LET pending == {Move(current, e) : e \in edges}
      useful == {s \in heap \union pending : Reaches(graph, s.nodeId, Goal)}
  IN  \A s \in useful :
        /\ DominatedByClosed(s) => s.time >= closed[s.nodeId].time
        /\ DominatedBySolution(s) => EstimatedGoalTime(s) >= solution.time

(* What the program is for: the results are the costs of the paths that no *)
(* other path undercuts, each once, the fastest first, as many as asked.   *)
ResultsAreParetoFront ==
  LET front == ParetoFront(PathCosts(graph, Start, Goal))
      found == {[time |-> results[i].time, distance |-> results[i].distance] :
                  i \in DOMAIN results}
  IN  /\ \A i, j \in DOMAIN results : i < j => results[i].time < results[j].time
      /\ found \subseteq front
      /\ \A c \in found, d \in front \ found : c.time < d.time
      /\ stage = "done" => Len(results) = Min({Cardinality(front), numberOfResults})

(* The search ends although the graph has cycles.                          *)
SearchEnds == <>(stage = "done")
=============================================================================
