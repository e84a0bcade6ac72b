---------------------- MODULE MultiObjectiveAStarProofs ----------------------
(***************************************************************************)
(* Proofs about the shortest-path search for every graph, start and goal.  *)
(*                                                                         *)
(* 1. Heaps and bags: the entries that Dijkstra remembers are those in its *)
(*    heap, and the heap of the labels and the bags of opened labels hold  *)
(*    the same ones (IInv).                                                *)
(* 2. Paths by the number of their edges, and what a search of Dijkstra    *)
(*    knows about them (LeastSoFar, Phases): it finds the least costs.     *)
(* 3. The estimates are consistent, so that labels are closed in the order *)
(*    of their estimated time (SearchOrder): one objective is enough.      *)
(* 4. Every label is the cost of a path (Sound), and every path is         *)
(*    undercut by a solution or by an open label (NothingLost): the        *)
(*    results are the Pareto front (Results).                              *)
(***************************************************************************)
EXTENDS MultiObjectiveAStar, SequenceTheorems, FiniteSetTheorems, WellFoundedInduction, TLAPS

Jobs == [origin : Nodes, direction : {"forward", "backward"}, objective : Objectives]

(* A search of Dijkstra: only its origin is in the heap without having     *)
(* been seen, and it is the first to leave it.                             *)
DijkstraOK ==
  /\ job \in Jobs
  /\ D!TypeOK
  /\ \A n \in Nodes : dSeen[n] # NoState => dSeen[n].nodeId = n
  /\ dEdges # {} => dCurrent # NoState
  /\ dCurrent # NoState => dClosed # {}
  /\ dClosed = {} => /\ dHeap \subseteq {D!State(job.origin, 0)}
                     /\ \A n \in Nodes : dSeen[n] = NoState
  /\ D!SeenStatesInHeap

(* Every label of a bag is in the heap and belongs to the node of the bag, *)
(* every label of the heap is in the bag of its node.                      *)
BagsOK ==
  /\ \A n \in Nodes : \A i \in DOMAIN opened[n] :
       opened[n][i] \in heap /\ opened[n][i].nodeId = n
  /\ \A s \in heap : \E i \in DOMAIN opened[s.nodeId] : opened[s.nodeId][i] = s
  /\ \A n \in Nodes : \A i, j \in DOMAIN opened[n] :
       i # j => ~Dominated(opened[n][i], opened[n][j])

LabelsOK ==
  /\ heap \subseteq SearchStates
  /\ opened \in [Nodes -> Seq(SearchStates)]
  /\ closed = [n \in Nodes |-> closed[n]]
  /\ \A n \in Nodes : closed[n] # NoState => closed[n] \in SearchStates /\ closed[n].nodeId = n
  /\ solution # NoState => solution \in SearchStates /\ solution.nodeId = Goal
  /\ results \in Seq(SearchStates)
  /\ current \in SearchStates \union {NoState}

IInv ==
  /\ graph \in Graphs /\ numberOfResults \in ResultLimits
  /\ stage \in {"forward", "time", "distance", "search", "done"}
  /\ heuristic \in [Objectives -> [Nodes -> Nat]]
  /\ edges \subseteq graph /\ (edges # {} => current # NoState)
  /\ DijkstraOK /\ LabelsOK /\ BagsOK
------------------------------------------------------------------------------
LEMMA NatMinimum ==
  ASSUME NEW S \in SUBSET Nat, S # {}
  PROVE  \E x \in S : \A y \in S : x <= y
<1> DEFINE R == OpToRel(<, Nat)
<1>1. \E x \in S : \A y \in S : ~(<<y, x>> \in R)
  BY NatLessThanWellFounded, WFMin
<1>2. \A x, y \in S : ~(<<y, x>> \in R) => x <= y
  BY DEF OpToRel
<1> QED
  BY <1>1, <1>2

(* What Without() computes: the bag is gone through from its first label   *)
(* to its n-th.                                                            *)
Keep(bag, gone, kept, i) == IF bag[i] \in gone THEN kept ELSE Append(kept, bag[i])

Keeps(f, bag, gone, n) ==
  f = [i \in 0 .. n |-> IF i = 0 THEN << >> ELSE Keep(bag, gone, f[i - 1], i)]

LEMMA KeepsExists ==
  ASSUME NEW bag, NEW gone, NEW n \in Nat
  PROVE  \E f : Keeps(f, bag, gone, n)
<1> DEFINE S == {k \in Nat : ~\E f : Keeps(f, bag, gone, k)}
<1>1. SUFFICES ASSUME S # {} PROVE FALSE
  OBVIOUS
<1>2. PICK k \in S : \A y \in S : k <= y
  <2>1. S \in SUBSET Nat
    OBVIOUS
  <2> HIDE DEF S
  <2> QED
    BY <1>1, <2>1, NatMinimum
<1>3. k \in Nat /\ ~\E f : Keeps(f, bag, gone, k)
  BY <1>2
<1>4. k # 0
  <2>1. ASSUME k = 0 PROVE Keeps([i \in 0 .. 0 |-> << >>], bag, gone, k)
    BY <2>1 DEF Keeps
  <2> QED
    BY <1>3, <2>1
<1>5. PICK f : Keeps(f, bag, gone, k - 1)
  <2>1. k - 1 \in Nat /\ k - 1 \notin S
    BY <1>2, <1>3, <1>4
  <2> QED
    BY <2>1
<1> DEFINE g == [i \in 0 .. k |-> IF i = k THEN Keep(bag, gone, f[k - 1], k) ELSE f[i]]
<1>6. /\ \A i \in 0 .. k - 1 : g[i] = f[i] /\ i \in 0 .. k
      /\ g[k] = Keep(bag, gone, f[k - 1], k)
  BY <1>3, <1>4
<1>7. \A i \in 0 .. k - 1 : f[i] = IF i = 0 THEN << >> ELSE Keep(bag, gone, f[i - 1], i)
  BY <1>5 DEF Keeps
<1>8. ASSUME NEW i \in 0 .. k
      PROVE  g[i] = IF i = 0 THEN << >> ELSE Keep(bag, gone, g[i - 1], i)
  <2> HIDE DEF g
  <2>1. CASE i = k
    <3>1. k - 1 \in 0 .. k - 1
      BY <1>3, <1>4
    <3> QED
      BY <1>4, <1>6, <2>1, <3>1
  <2>2. CASE i \in 0 .. k - 1
    <3>1. i = 0 \/ i - 1 \in 0 .. k - 1
      BY <2>2
    <3> QED
      BY <1>6, <1>7, <2>2, <3>1
  <2> QED
    BY <1>3, <2>1, <2>2
<1>9. g = [i \in 0 .. k |-> g[i]]
  OBVIOUS
<1> HIDE DEF g
<1>10. Keeps(g, bag, gone, k)
  BY <1>8, <1>9 DEF Keeps
<1> QED
  BY <1>3, <1>10

(* kept are the first n labels of the bag but those that are gone, in      *)
(* their order.                                                            *)
KeptFrom(kept, bag, gone, n) ==
  /\ \E g \in [1 .. Len(kept) -> 1 .. n] :
       /\ \A k \in 1 .. Len(kept) : kept[k] = bag[g[k]] /\ bag[g[k]] \notin gone
       /\ \A j, k \in 1 .. Len(kept) : j < k => g[j] < g[k]
  /\ \A i \in 1 .. n : bag[i] \notin gone => \E k \in 1 .. Len(kept) : kept[k] = bag[i]

LEMMA KeepOne ==
  ASSUME NEW S, NEW bag \in Seq(S), NEW gone, NEW n \in 1 .. Len(bag),
         NEW kept \in Seq(S), KeptFrom(kept, bag, gone, n - 1)
  PROVE  /\ Keep(bag, gone, kept, n) \in Seq(S)
         /\ KeptFrom(Keep(bag, gone, kept, n), bag, gone, n)
<1>1. PICK g \in [1 .. Len(kept) -> 1 .. n - 1] :
        /\ \A k \in 1 .. Len(kept) : kept[k] = bag[g[k]] /\ bag[g[k]] \notin gone
        /\ \A j, k \in 1 .. Len(kept) : j < k => g[j] < g[k]
  BY DEF KeptFrom
<1>2. /\ \A i \in 1 .. n - 1 : bag[i] \notin gone => \E k \in 1 .. Len(kept) : kept[k] = bag[i]
      /\ bag[n] \in S /\ Len(kept) \in Nat /\ n \in Nat
      /\ \A i \in 1 .. n : i = n \/ i \in 1 .. n - 1
      /\ \A i \in 1 .. n - 1 : i \in 1 .. n
  BY ElementOfSeq DEF KeptFrom
<1>3. CASE bag[n] \in gone
  <2>1. Keep(bag, gone, kept, n) = kept
    BY <1>3 DEF Keep
  <2>2. g \in [1 .. Len(kept) -> 1 .. n]
    BY <1>2
  <2>3. KeptFrom(kept, bag, gone, n)
    BY <1>1, <1>2, <1>3, <2>2 DEF KeptFrom
  <2> QED
    BY <2>1, <2>3
<1>4. CASE bag[n] \notin gone
  <2> DEFINE m == Len(kept) + 1
             q == Append(kept, bag[n])
             h == [k \in 1 .. m |-> IF k = m THEN n ELSE g[k]]
  <2>1. Keep(bag, gone, kept, n) = q
    BY <1>4 DEF Keep
  <2>2. /\ q \in Seq(S) /\ Len(q) = m /\ q[m] = bag[n]
        /\ \A k \in 1 .. Len(kept) : q[k] = kept[k]
    BY <1>2, AppendProperties
  <2> HIDE DEF q
  <2>3. /\ m \in 1 .. m /\ \A k \in 1 .. m : k = m \/ k \in 1 .. Len(kept)
        /\ \A k \in 1 .. Len(kept) : k # m /\ k \in 1 .. m
    BY <1>2
  <2>4. h[m] = n /\ \A k \in 1 .. Len(kept) : h[k] = g[k] /\ h[k] \in 1 .. n - 1
    BY <2>3
  <2>5. h \in [1 .. m -> 1 .. n]
    BY <1>2, <2>3
  <2> HIDE DEF h
  <2>6. \A k \in 1 .. m : q[k] = bag[h[k]] /\ bag[h[k]] \notin gone
    BY <1>1, <1>4, <2>2, <2>3, <2>4
  <2>7. \A j, k \in 1 .. m : j < k => h[j] < h[k]
    <3> SUFFICES ASSUME NEW j \in 1 .. m, NEW k \in 1 .. m, j < k PROVE h[j] < h[k]
      OBVIOUS
    <3>1. j \in 1 .. Len(kept)
      BY <1>2
    <3>2. CASE k = m
      BY <1>2, <2>4, <3>1, <3>2
    <3>3. CASE k \in 1 .. Len(kept)
      BY <1>1, <2>4, <3>1, <3>3
    <3> QED
      BY <2>3, <3>2, <3>3
  <2>8. \A i \in 1 .. n : bag[i] \notin gone => \E k \in 1 .. m : q[k] = bag[i]
    <3> SUFFICES ASSUME NEW i \in 1 .. n, bag[i] \notin gone PROVE \E k \in 1 .. m : q[k] = bag[i]
      OBVIOUS
    <3>1. CASE i = n
      BY <2>2, <2>3, <3>1
    <3>2. CASE i \in 1 .. n - 1
      BY <1>2, <2>2, <2>3, <3>2
    <3> QED
      BY <1>2, <3>1, <3>2
  <2> HIDE DEF m
  <2>9. KeptFrom(q, bag, gone, n)
    BY <2>2, <2>5, <2>6, <2>7, <2>8 DEF KeptFrom
  <2> QED
    BY <2>1, <2>2, <2>9
<1> QED
  BY <1>3, <1>4

LEMMA KeptIsKept ==
  ASSUME NEW S, NEW bag \in Seq(S), NEW gone, NEW f, Keeps(f, bag, gone, Len(bag))
  PROVE  f[Len(bag)] \in Seq(S) /\ KeptFrom(f[Len(bag)], bag, gone, Len(bag))
<1> DEFINE Good(n) == f[n] \in Seq(S) /\ KeptFrom(f[n], bag, gone, n)
           T == {n \in 0 .. Len(bag) : ~Good(n)}
<1>1. /\ Len(bag) \in Nat
      /\ \A i \in 0 .. Len(bag) : f[i] = IF i = 0 THEN << >> ELSE Keep(bag, gone, f[i - 1], i)
  BY DEF Keeps
<1>2. Good(0)
  <2>1. f[0] = << >> /\ << >> \in Seq(S) /\ Len(<< >>) = 0
    BY <1>1
  <2>2. [k \in 1 .. 0 |-> k] \in [1 .. 0 -> 1 .. 0] /\ 1 .. 0 = {}
    OBVIOUS
  <2>3. KeptFrom(<< >>, bag, gone, 0)
    BY <2>1, <2>2 DEF KeptFrom
  <2> QED
    BY <2>1, <2>3
<1> SUFFICES ASSUME T # {} PROVE FALSE
  BY <1>1
<1>3. PICK n \in T : \A y \in T : n <= y
  <2>1. T \in SUBSET Nat
    OBVIOUS
  <2> HIDE DEF T
  <2> QED
    BY <2>1, NatMinimum
<1>4. n \in 1 .. Len(bag) /\ n - 1 \in 0 .. Len(bag) /\ n - 1 \notin T /\ ~Good(n)
  BY <1>1, <1>2, <1>3
<1>5. Good(n - 1)
  BY <1>4
<1>6. f[n] = Keep(bag, gone, f[n - 1], n)
  BY <1>1, <1>4
<1> QED
  BY <1>4, <1>5, <1>6, KeepOne

LEMMA WithoutKeeps ==
  ASSUME NEW S, NEW bag \in Seq(S), NEW gone
  PROVE  /\ Without(bag, gone) \in Seq(S)
         /\ KeptFrom(Without(bag, gone), bag, gone, Len(bag))
<1> DEFINE F == CHOOSE f : Keeps(f, bag, gone, Len(bag))
<1>1. Len(bag) \in Nat
  OBVIOUS
<1>2. Keeps(F, bag, gone, Len(bag))
  BY <1>1, KeepsExists
<1>3. Without(bag, gone) = F[Len(bag)]
  BY DEF Without, Keeps, Keep
<1> HIDE DEF F
<1> QED
  BY <1>2, <1>3, KeptIsKept
------------------------------------------------------------------------------
(* A new search begins with its origin in the heap.                        *)
LEMMA JobsAreJobs ==
  ASSUME NEW direction \in {"forward", "backward"}, NEW objective \in Objectives
  PROVE  Job(direction, objective) \in Jobs
BY SearchAssumption DEF Job, Jobs

LEMMA DijkstraBegins ==
  ASSUME NEW j \in Jobs, D!Begin(j)
  PROVE  DijkstraOK
<1>1. /\ job = j /\ dHeap = {D!State(j.origin, 0)} /\ dSeen = [n \in Nodes |-> NoState]
      /\ dClosed = {} /\ dResult = [n \in Nodes |-> 0] /\ dCurrent = NoState /\ dEdges = {}
  BY DEF D!Begin
<1>2. D!State(j.origin, 0) \in D!SingleObjStates
  BY DEF D!State, D!SingleObjStates, Jobs
<1>3. D!TypeOK
  BY <1>1, <1>2 DEF D!TypeOK
<1>4. D!SeenStatesInHeap
  BY <1>1 DEF D!SeenStatesInHeap
<1> QED
  BY <1>1, <1>3, <1>4 DEF DijkstraOK

LEMMA DijkstraBeginsNext ==
  ASSUME NEW j \in Jobs, D!BeginNext(j)
  PROVE  DijkstraOK'
<1>1. /\ job' = j /\ dHeap' = {D!State(j.origin, 0)} /\ dSeen' = [n \in Nodes |-> NoState]
      /\ dClosed' = {} /\ dResult' = [n \in Nodes |-> 0] /\ dCurrent' = NoState /\ dEdges' = {}
  BY DEF D!BeginNext
<1>2. D!State(j.origin, 0) \in D!SingleObjStates
  BY DEF D!State, D!SingleObjStates, Jobs
<1>3. D!TypeOK'
  BY <1>1, <1>2 DEF D!TypeOK
<1>4. D!SeenStatesInHeap'
  BY <1>1 DEF D!SeenStatesInHeap
<1> QED
  BY <1>1, <1>3, <1>4 DEF DijkstraOK, D!State

LEMMA DijkstraUnchanged ==
  ASSUME DijkstraOK, UNCHANGED <<graph, dijkstra>>
  PROVE  DijkstraOK'
BY DEF DijkstraOK, dijkstra, D!TypeOK, D!SeenStatesInHeap, D!State

(* The entry with the least value leaves the heap; unless it is the origin *)
(* it is the one that was seen for its node.                               *)
LEMMA CloseMinimumStep ==
  ASSUME graph \in Graphs, DijkstraOK, D!CloseMinimum
  PROVE  DijkstraOK'
<1>1. PICK s \in dHeap :
        /\ dHeap' = dHeap \ {s} /\ dClosed' = dClosed \union {s.nodeId} /\ dCurrent' = s
        /\ dEdges' = D!ExpandEdges(s.nodeId)
  BY DEF D!CloseMinimum
<1>2. graph' = graph /\ job' = job /\ dSeen' = dSeen /\ dResult' = dResult
  BY DEF D!CloseMinimum
<1>3. D!TypeOK /\ D!SeenStatesInHeap /\ job \in Jobs
  BY DEF DijkstraOK
<1>4. s \in D!SingleObjStates /\ s # NoState /\ s.nodeId \in Nodes
  BY <1>3, NullAssumption DEF D!TypeOK, D!SingleObjStates
<1>5. D!TypeOK'
  <2>1. dEdges' \subseteq graph'
    BY <1>1, <1>2 DEF D!ExpandEdges, D!OutEdges, D!InEdges
  <2> QED
    BY <1>1, <1>2, <1>3, <1>4, <2>1 DEF D!TypeOK
<1>6. D!SeenStatesInHeap'
  <2> SUFFICES ASSUME NEW n \in Nodes, n \notin dClosed, n # s.nodeId
               PROVE  IF dSeen[n] = NoState
                      THEN \A t \in dHeap' : t.nodeId = n => dClosed' = {}
                      ELSE {t \in dHeap' : t.nodeId = n} = {dSeen[n]}
    BY <1>1, <1>2 DEF D!SeenStatesInHeap
  <2>1. {t \in dHeap' : t.nodeId = n} = {t \in dHeap : t.nodeId = n}
    BY <1>1
  <2>2. CASE dSeen[n] # NoState
    BY <1>3, <2>1, <2>2 DEF D!SeenStatesInHeap
  <2>3. CASE dSeen[n] = NoState
    <3>1. CASE dClosed = {}
      BY <1>1, <2>3, <3>1 DEF DijkstraOK
    <3>2. CASE dClosed # {}
      BY <1>1, <1>3, <2>3, <3>2 DEF D!SeenStatesInHeap
    <3> QED
      BY <3>1, <3>2
  <2> QED
    BY <2>2, <2>3
<1>7. dClosed' # {} /\ dCurrent' # NoState
  BY <1>1, <1>4
<1> QED
  BY <1>1, <1>2, <1>3, <1>5, <1>6, <1>7 DEF DijkstraOK

LEMMA DijkstraExpandedStep ==
  ASSUME DijkstraOK, D!Expanded
  PROVE  DijkstraOK'
<1>1. /\ dCurrent # NoState /\ dEdges = {} /\ dCurrent' = NoState
      /\ dResult' = [dResult EXCEPT ![dCurrent.nodeId] = dCurrent.objective]
      /\ graph' = graph /\ job' = job /\ dHeap' = dHeap /\ dSeen' = dSeen
      /\ dClosed' = dClosed /\ dEdges' = dEdges
  BY DEF D!Expanded
<1>2. D!TypeOK /\ D!SeenStatesInHeap
  BY DEF DijkstraOK
<1>3. dCurrent.objective \in Nat
  BY <1>1, <1>2 DEF D!TypeOK, D!SingleObjStates
<1>4. D!TypeOK'
  BY <1>1, <1>2, <1>3 DEF D!TypeOK
<1>5. D!SeenStatesInHeap'
  BY <1>1, <1>2 DEF D!SeenStatesInHeap
<1> QED
  BY <1>1, <1>4, <1>5 DEF DijkstraOK, D!State

(* A state that is new to its node, or better than the one that was seen,  *)
(* enters the heap, the latter in its place.                               *)
LEMMA DijkstraEdgeStep ==
  ASSUME graph \in Graphs, DijkstraOK, D!FollowEdge
  PROVE  DijkstraOK'
<1> DEFINE S(e) == D!State(D!SuccessorNode(e), dCurrent.objective + e[job.objective])
<1>1. PICK e \in dEdges :
        /\ dEdges' = dEdges \ {e}
        /\ IF S(e).nodeId \in dClosed THEN UNCHANGED <<dHeap, dSeen>>
           ELSE IF dSeen[S(e).nodeId] = NoState THEN D!Encounter(S(e))
                                                ELSE D!EncounterAgain(S(e))
        /\ UNCHANGED <<graph, job, dClosed, dResult, dCurrent>>
  BY DEF D!FollowEdge
<1> DEFINE s == S(e)
<1>2. D!TypeOK /\ D!SeenStatesInHeap /\ job \in Jobs
  BY DEF DijkstraOK
<1>3. dCurrent # NoState /\ dClosed # {} /\ dCurrent.objective \in Nat
  BY <1>1, <1>2 DEF DijkstraOK, D!TypeOK, D!SingleObjStates
<1>4. e \in Edges
  BY <1>1, <1>2, GraphsAssumption DEF D!TypeOK
<1>5. e[job.objective] \in Nat /\ D!SuccessorNode(e) \in Nodes
  <2>1. job.objective = "time" \/ job.objective = "distance"
    BY <1>2 DEF Jobs, Objectives
  <2>2. e.time \in Nat /\ e.distance \in Nat /\ e.from \in Nodes /\ e.to \in Nodes
    BY <1>4 DEF Edges
  <2>3. e[job.objective] \in Nat
    BY <2>1, <2>2
  <2> QED
    BY <2>2, <2>3 DEF D!SuccessorNode
<1>6. s \in D!SingleObjStates /\ s.nodeId \in Nodes /\ s # NoState
  BY <1>3, <1>5, NullAssumption DEF D!State, D!SingleObjStates
<1> HIDE DEF S
<1>7. CASE UNCHANGED <<dHeap, dSeen>>
  <2>1. D!TypeOK'
    BY <1>1, <1>2, <1>7 DEF D!TypeOK
  <2>2. D!SeenStatesInHeap'
    BY <1>1, <1>2, <1>7 DEF D!SeenStatesInHeap
  <2> QED
    BY <1>1, <1>2, <1>3, <1>7, <2>1, <2>2 DEF DijkstraOK
<1>8. ASSUME NEW T \in SUBSET dHeap, \A t \in T : t.nodeId = s.nodeId,
             {t \in dHeap : t.nodeId = s.nodeId} \subseteq T,
             dHeap' = (dHeap \ T) \union {s}, dSeen' = [dSeen EXCEPT ![s.nodeId] = s]
      PROVE  DijkstraOK'
  <2>1. /\ dSeen'[s.nodeId] = s
        /\ \A n \in Nodes : n # s.nodeId => dSeen'[n] = dSeen[n]
    BY <1>2, <1>6, <1>8 DEF D!TypeOK
  <2>2. D!TypeOK'
    BY <1>1, <1>2, <1>6, <1>8 DEF D!TypeOK
  <2>3. \A n \in Nodes : dSeen'[n] # NoState => dSeen'[n].nodeId = n
    BY <2>1 DEF DijkstraOK
  <2>4. D!SeenStatesInHeap'
    <3> SUFFICES ASSUME NEW n \in Nodes, n \notin dClosed
                 PROVE  IF dSeen'[n] = NoState
                        THEN \A t \in dHeap' : t.nodeId = n => dClosed' = {}
                        ELSE {t \in dHeap' : t.nodeId = n} = {dSeen'[n]}
      BY <1>1 DEF D!SeenStatesInHeap
    <3>1. CASE n = s.nodeId
      <4>1. {t \in dHeap' : t.nodeId = n} = {s}
        BY <1>8, <3>1
      <4> QED
        BY <1>6, <2>1, <3>1, <4>1
    <3>2. CASE n # s.nodeId
      <4>1. {t \in dHeap' : t.nodeId = n} = {t \in dHeap : t.nodeId = n}
        BY <1>8, <3>2
      <4>2. dSeen'[n] = dSeen[n]
        BY <2>1, <3>2
      <4> QED
        BY <1>1, <1>2, <4>1, <4>2 DEF D!SeenStatesInHeap
    <3> QED
      BY <3>1, <3>2
  <2>5. dClosed' # {} /\ job' \in Jobs /\ dCurrent' # NoState
    BY <1>1, <1>2, <1>3
  <2> QED
    BY <2>2, <2>3, <2>4, <2>5 DEF DijkstraOK
<1>9. CASE s.nodeId \notin dClosed /\ dSeen[s.nodeId] = NoState
  <2>1. {t \in dHeap : t.nodeId = s.nodeId} = {}
    BY <1>2, <1>3, <1>6, <1>9 DEF D!SeenStatesInHeap
  <2>2. dHeap' = (dHeap \ {}) \union {s} /\ dSeen' = [dSeen EXCEPT ![s.nodeId] = s]
    BY <1>1, <1>9 DEF D!Encounter
  <2> QED
    BY <1>8, <2>1, <2>2
<1>10. CASE s.nodeId \notin dClosed /\ dSeen[s.nodeId] # NoState
  <2>1. {t \in dHeap : t.nodeId = s.nodeId} = {dSeen[s.nodeId]}
    BY <1>2, <1>6, <1>10 DEF D!SeenStatesInHeap
  <2>2. D!EncounterAgain(s)
    BY <1>1, <1>10
  <2>3. CASE s.objective < dSeen[s.nodeId].objective
    <3>1. /\ dHeap' = (dHeap \ {dSeen[s.nodeId]}) \union {s}
          /\ dSeen' = [dSeen EXCEPT ![s.nodeId] = s]
      BY <2>2, <2>3 DEF D!EncounterAgain
    <3> QED
      BY <1>8, <2>1, <3>1
  <2>4. CASE ~(s.objective < dSeen[s.nodeId].objective)
    BY <1>7, <2>2, <2>4 DEF D!EncounterAgain
  <2> QED
    BY <2>3, <2>4
<1> QED
  BY <1>1, <1>7, <1>9, <1>10

LEMMA DijkstraNextStep ==
  ASSUME graph \in Graphs, DijkstraOK, D!Next
  PROVE  DijkstraOK'
BY CloseMinimumStep, DijkstraEdgeStep, DijkstraExpandedStep DEF D!Next
------------------------------------------------------------------------------
(* One bag and the labels of its node in the heap change together.         *)
LEMMA BagChanged ==
  ASSUME LabelsOK, BagsOK, NEW n \in Nodes, NEW bag \in Seq(SearchStates),
         \A i \in DOMAIN bag : bag[i].nodeId = n,
         \A i, j \in DOMAIN bag : i # j => ~Dominated(bag[i], bag[j]),
         opened' = [opened EXCEPT ![n] = bag],
         heap' \subseteq SearchStates,
         \A i \in DOMAIN bag : bag[i] \in heap',
         \A s \in heap' : s.nodeId = n => \E i \in DOMAIN bag : bag[i] = s,
         \A s : s.nodeId # n => (s \in heap' <=> s \in heap)
  PROVE  BagsOK' /\ opened' \in [Nodes -> Seq(SearchStates)]
<1>1. opened'[n] = bag /\ \A m \in Nodes : m # n => opened'[m] = opened[m]
  BY DEF LabelsOK
<1>2. opened' \in [Nodes -> Seq(SearchStates)]
  BY DEF LabelsOK
<1>3. ASSUME NEW m \in Nodes, NEW i \in DOMAIN opened'[m]
      PROVE  opened'[m][i] \in heap' /\ opened'[m][i].nodeId = m
  <2>1. CASE m = n
    BY <1>1, <1>3, <2>1
  <2>2. CASE m # n
    <3>1. opened[m][i] \in heap /\ opened[m][i].nodeId = m
      BY <1>1, <1>3, <2>2 DEF BagsOK
    <3> QED
      BY <1>1, <2>2, <3>1
  <2> QED
    BY <2>1, <2>2
<1>4. ASSUME NEW s \in heap'
      PROVE  \E i \in DOMAIN opened'[s.nodeId] : opened'[s.nodeId][i] = s
  <2>1. s.nodeId \in Nodes
    BY DEF SearchStates
  <2>2. CASE s.nodeId = n
    BY <1>1, <2>2
  <2>3. CASE s.nodeId # n
    <3>1. s \in heap
      BY <2>3
    <3>2. \E i \in DOMAIN opened[s.nodeId] : opened[s.nodeId][i] = s
      BY <3>1 DEF BagsOK
    <3> QED
      BY <1>1, <2>1, <2>3, <3>2
  <2> QED
    BY <2>2, <2>3
<1>5. ASSUME NEW m \in Nodes, NEW i \in DOMAIN opened'[m], NEW j \in DOMAIN opened'[m], i # j
      PROVE  ~Dominated(opened'[m][i], opened'[m][j])
  <2>1. CASE m = n
    BY <1>1, <1>5, <2>1
  <2>2. CASE m # n
    BY <1>1, <1>5, <2>2 DEF BagsOK
  <2> QED
    BY <2>1, <2>2
<1> QED
  BY <1>2, <1>3, <1>4, <1>5 DEF BagsOK

(* Without the labels of a set, what was between any two of the others     *)
(* still is.                                                               *)
LEMMA BagWithout ==
  ASSUME LabelsOK, BagsOK, NEW n \in Nodes, NEW gone
  PROVE  LET bag == opened[n]
             rest == Without(bag, gone)
         IN  /\ rest \in Seq(SearchStates)
             /\ \A k \in DOMAIN rest : /\ rest[k] \in heap /\ rest[k].nodeId = n
                                       /\ rest[k] \notin gone
                                       /\ \E i \in DOMAIN bag : rest[k] = bag[i]
             /\ \A i \in DOMAIN bag : bag[i] \notin gone => \E k \in DOMAIN rest : rest[k] = bag[i]
             /\ \A j, k \in DOMAIN rest : j # k => ~Dominated(rest[j], rest[k])
<1> DEFINE bag == opened[n]
           rest == Without(bag, gone)
<1>1. bag \in Seq(SearchStates) /\ Len(bag) \in Nat /\ DOMAIN bag = 1 .. Len(bag)
  BY DEF LabelsOK
<1>2. /\ \A i \in DOMAIN bag : bag[i] \in heap /\ bag[i].nodeId = n
      /\ \A i, j \in DOMAIN bag : i # j => ~Dominated(bag[i], bag[j])
  BY DEF BagsOK
<1> HIDE DEF bag
<1>3. rest \in Seq(SearchStates) /\ KeptFrom(rest, bag, gone, Len(bag))
  BY <1>1, WithoutKeeps
<1> HIDE DEF rest
<1>4. Len(rest) \in Nat /\ DOMAIN rest = 1 .. Len(rest)
  BY <1>3
<1>5. PICK g \in [1 .. Len(rest) -> 1 .. Len(bag)] :
        /\ \A k \in 1 .. Len(rest) : rest[k] = bag[g[k]] /\ bag[g[k]] \notin gone
        /\ \A j, k \in 1 .. Len(rest) : j < k => g[j] < g[k]
  BY <1>3 DEF KeptFrom
<1>6. \A i \in 1 .. Len(bag) : bag[i] \notin gone => \E k \in 1 .. Len(rest) : rest[k] = bag[i]
  BY <1>3 DEF KeptFrom
<1>7. \A k \in DOMAIN rest : g[k] \in DOMAIN bag /\ rest[k] = bag[g[k]] /\ rest[k] \notin gone
  BY <1>1, <1>4, <1>5
<1>8. ASSUME NEW j \in DOMAIN rest, NEW k \in DOMAIN rest, j # k
      PROVE  ~Dominated(rest[j], rest[k])
  <2>1. g[j] # g[k]
    <3>1. j < k \/ k < j
      BY <1>4, <1>8
    <3>2. g[j] < g[k] \/ g[k] < g[j]
      BY <1>4, <1>5, <3>1
    <3>3. g[j] \in Int /\ g[k] \in Int
      BY <1>1, <1>4, <1>5
    <3> QED
      BY <3>2, <3>3
  <2> QED
    BY <1>2, <1>7, <2>1
<1>9. /\ \A k \in DOMAIN rest : /\ rest[k] \in heap /\ rest[k].nodeId = n
                                /\ rest[k] \notin gone
                                /\ \E i \in DOMAIN bag : rest[k] = bag[i]
      /\ \A i \in DOMAIN bag : bag[i] \notin gone => \E k \in DOMAIN rest : rest[k] = bag[i]
  BY <1>1, <1>2, <1>4, <1>6, <1>7
<1> QED
  BY <1>3, <1>8, <1>9 DEF bag, rest

(* A label that leaves the heap leaves the bag of its node.                *)
LEMMA LabelTaken ==
  ASSUME LabelsOK, BagsOK, NEW s \in heap, TakeMinimum(s)
  PROVE  BagsOK' /\ opened' \in [Nodes -> Seq(SearchStates)] /\ heap' \subseteq SearchStates
<1> DEFINE n == s.nodeId
           gone == {s}
           rest == Without(opened[n], gone)
<1>1. s \in SearchStates /\ n \in Nodes
  BY DEF LabelsOK, SearchStates
<1>2. heap' = heap \ {s}
  BY DEF TakeMinimum
<1>3. opened' = [opened EXCEPT ![n] = rest]
  BY DEF TakeMinimum
<1>4. /\ rest \in Seq(SearchStates)
      /\ \A k \in DOMAIN rest : rest[k] \in heap /\ rest[k].nodeId = n /\ rest[k] # s
      /\ \A i \in DOMAIN opened[n] : opened[n][i] # s => \E k \in DOMAIN rest : rest[k] = opened[n][i]
      /\ \A j, k \in DOMAIN rest : j # k => ~Dominated(rest[j], rest[k])
  <2>1. /\ rest \in Seq(SearchStates)
        /\ \A k \in DOMAIN rest : /\ rest[k] \in heap /\ rest[k].nodeId = n
                                  /\ rest[k] \notin gone
                                  /\ \E i \in DOMAIN opened[n] : rest[k] = opened[n][i]
        /\ \A i \in DOMAIN opened[n] :
             opened[n][i] \notin gone => \E k \in DOMAIN rest : rest[k] = opened[n][i]
        /\ \A j, k \in DOMAIN rest : j # k => ~Dominated(rest[j], rest[k])
    <3> HIDE DEF n, gone
    <3> QED
      BY <1>1, BagWithout
  <2> HIDE DEF rest
  <2> QED
    BY <2>1
<1> HIDE DEF rest
<1>5. \A t \in heap' : t.nodeId = n => \E k \in DOMAIN rest : rest[k] = t
  <2> SUFFICES ASSUME NEW t \in heap', t.nodeId = n PROVE \E k \in DOMAIN rest : rest[k] = t
    OBVIOUS
  <2>1. PICK i \in DOMAIN opened[n] : opened[n][i] = t
    BY <1>2 DEF BagsOK
  <2> QED
    BY <1>2, <1>4, <2>1
<1>6. heap' \subseteq SearchStates
  BY <1>2 DEF LabelsOK
<1>7. \A t : t.nodeId # n => (t \in heap' <=> t \in heap)
  BY <1>2
<1>8. \A k \in DOMAIN rest : rest[k] \in heap'
  BY <1>2, <1>4
<1> HIDE DEF n
<1> QED
  BY <1>1, <1>3, <1>4, <1>5, <1>6, <1>7, <1>8, BagChanged

LEMMA DominatedIsTransitive ==
  ASSUME NEW a \in SearchStates, NEW b \in SearchStates, NEW c \in SearchStates,
         Dominated(a, b), Dominated(b, c)
  PROVE  Dominated(a, c)
BY DEF Dominated, SearchStates

(* A label that no other in the bag of its node dominates enters the bag   *)
(* and the heap, and those it dominates leave both.                        *)
LEMMA LabelAdded ==
  ASSUME LabelsOK, BagsOK, NEW s \in SearchStates, AddIfNotDominated(s)
  PROVE  BagsOK' /\ opened' \in [Nodes -> Seq(SearchStates)] /\ heap' \subseteq SearchStates
<1> DEFINE n == s.nodeId
           bag == opened[n]
           worse == {i \in DOMAIN bag : Dominated(bag[i], s)}
           removed == {bag[i] : i \in worse}
           rest == Without(bag, removed)
           better == Append(rest, s)
<1>1. n \in Nodes /\ heap \subseteq SearchStates
  BY DEF LabelsOK, SearchStates
<1>2. CASE UNCHANGED <<heap, opened>>
  BY <1>2 DEF LabelsOK, BagsOK
<1>3. CASE /\ ~(\E i \in DOMAIN bag : Dominated(s, bag[i]) /\ \A j \in worse : i <= j)
           /\ heap' = (heap \ removed) \union {s}
           /\ opened' = [opened EXCEPT ![n] = better]
  <2>1. /\ rest \in Seq(SearchStates)
        /\ \A k \in DOMAIN rest : /\ rest[k] \in heap /\ rest[k].nodeId = n
                                  /\ rest[k] \notin removed
                                  /\ \E i \in DOMAIN bag : rest[k] = bag[i]
        /\ \A i \in DOMAIN bag : bag[i] \notin removed => \E k \in DOMAIN rest : rest[k] = bag[i]
        /\ \A j, k \in DOMAIN rest : j # k => ~Dominated(rest[j], rest[k])
    BY <1>1, BagWithout
  <2>2. /\ bag \in Seq(SearchStates) /\ DOMAIN bag = 1 .. Len(bag) /\ Len(bag) \in Nat
        /\ \A i \in DOMAIN bag : bag[i] \in SearchStates /\ bag[i].nodeId = n /\ bag[i] \in heap
        /\ \A i, j \in DOMAIN bag : i # j => ~Dominated(bag[i], bag[j])
    BY <1>1 DEF LabelsOK, BagsOK
  <2>3. \A i \in DOMAIN bag : bag[i] \notin removed => ~Dominated(bag[i], s) /\ ~Dominated(s, bag[i])
    <3> SUFFICES ASSUME NEW i \in DOMAIN bag, bag[i] \notin removed, Dominated(s, bag[i])
                 PROVE  FALSE
      OBVIOUS
    <3>1. PICK j \in worse : ~(i <= j)
      BY <1>3
    <3>2. j \in DOMAIN bag /\ j # i /\ Dominated(bag[j], s)
      BY <2>2, <3>1
    <3>3. Dominated(bag[j], bag[i])
      BY <2>2, <3>2, DominatedIsTransitive
    <3> QED
      BY <2>2, <3>2, <3>3
  <2>4. \A k \in DOMAIN rest : ~Dominated(rest[k], s) /\ ~Dominated(s, rest[k])
    BY <2>1, <2>3
  <2>5. \A t \in removed : t.nodeId = n
    BY <2>2
  <2>6. \A t \in heap : t.nodeId = n => \E i \in DOMAIN bag : bag[i] = t
    BY DEF BagsOK
  <2> HIDE DEF removed, rest
  <2>7. /\ better \in Seq(SearchStates) /\ Len(better) = Len(rest) + 1 /\ Len(rest) \in Nat
        /\ better[Len(rest) + 1] = s /\ \A k \in 1 .. Len(rest) : better[k] = rest[k]
    BY <2>1, AppendProperties
  <2> HIDE DEF better
  <2>8. /\ DOMAIN rest = 1 .. Len(rest) /\ DOMAIN better = 1 .. Len(rest) + 1
        /\ \A k \in DOMAIN better : k = Len(rest) + 1 \/ k \in DOMAIN rest
        /\ \A k \in DOMAIN rest : k \in DOMAIN better
        /\ Len(rest) + 1 \in DOMAIN better
    BY <2>1, <2>7
  <2>9. \A k \in DOMAIN better : better[k].nodeId = n /\ better[k] \in heap'
    BY <1>3, <2>1, <2>7, <2>8
  <2>10. \A j, k \in DOMAIN better : j # k => ~Dominated(better[j], better[k])
    BY <2>1, <2>4, <2>7, <2>8
  <2>11. heap' \subseteq SearchStates
    BY <1>1, <1>3
  <2>12. \A t \in heap' : t.nodeId = n => \E k \in DOMAIN better : better[k] = t
    <3> SUFFICES ASSUME NEW t \in heap', t.nodeId = n PROVE \E k \in DOMAIN better : better[k] = t
      OBVIOUS
    <3>1. CASE t = s
      BY <2>7, <2>8, <3>1
    <3>2. CASE t \in heap /\ t \notin removed
      <4>1. PICK i \in DOMAIN bag : bag[i] = t
        BY <2>6, <3>2
      <4>2. PICK k \in DOMAIN rest : rest[k] = t
        BY <2>1, <3>2, <4>1
      <4> QED
        BY <2>7, <2>8, <4>2
    <3> QED
      BY <1>3, <3>1, <3>2
  <2>13. \A t : t.nodeId # n => (t \in heap' <=> t \in heap)
    BY <1>3, <2>5
  <2>14. opened' = [opened EXCEPT ![n] = better]
    BY <1>3
  <2>15. /\ \A k \in DOMAIN better : better[k].nodeId = n
         /\ \A k \in DOMAIN better : better[k] \in heap'
    BY <2>9
  <2> HIDE DEF n
  <2> QED
    BY <1>1, <2>7, <2>10, <2>11, <2>12, <2>13, <2>14, <2>15, BagChanged
<1> QED
  BY <1>2, <1>3 DEF AddIfNotDominated

LEMMA LabelEncountered ==
  ASSUME LabelsOK, BagsOK, NEW s \in SearchStates, Encounter(s)
  PROVE  BagsOK' /\ opened' \in [Nodes -> Seq(SearchStates)] /\ heap' \subseteq SearchStates
<1>1. CASE UNCHANGED <<heap, opened>>
  BY <1>1 DEF LabelsOK, BagsOK
<1>2. CASE AddIfNotDominated(s)
  BY <1>2, LabelAdded
<1> QED
  BY <1>1, <1>2 DEF Encounter
------------------------------------------------------------------------------
LEMMA InitIInv == Init => IInv
<1> SUFFICES ASSUME Init PROVE IInv
  OBVIOUS
<1>1. /\ graph \in Graphs /\ numberOfResults \in ResultLimits /\ stage = "forward"
      /\ D!Begin(Job("forward", "distance"))
      /\ heuristic = [o \in Objectives |-> [n \in Nodes |-> 0]]
      /\ heap = {} /\ opened = [n \in Nodes |-> << >>] /\ closed = [n \in Nodes |-> NoState]
      /\ solution = NoState /\ results = << >> /\ current = NoState /\ edges = {}
  BY DEF Init
<1>2. DijkstraOK
  <2>1. Job("forward", "distance") \in Jobs
    BY JobsAreJobs DEF Objectives
  <2> QED
    BY <1>1, <2>1, DijkstraBegins
<1>3. << >> \in Seq(SearchStates) /\ DOMAIN << >> = {}
  OBVIOUS
<1>4. LabelsOK
  BY <1>1, <1>3 DEF LabelsOK
<1>5. BagsOK
  BY <1>1, <1>3 DEF BagsOK
<1>6. heuristic \in [Objectives -> [Nodes -> Nat]]
  BY <1>1
<1> QED
  BY <1>1, <1>2, <1>4, <1>5, <1>6 DEF IInv

(* The searches of Dijkstra, and the first label.                          *)
LEMMA HeuristicsStep ==
  ASSUME IInv, DijkstraStep \/ StartTimeHeuristic \/ StartDistanceHeuristic
  PROVE  IInv'
<1>1. /\ graph' = graph /\ numberOfResults' = numberOfResults /\ UNCHANGED search
      /\ stage' \in {"forward", "time", "distance", "search", "done"}
  BY DEF IInv, DijkstraStep, StartTimeHeuristic, StartDistanceHeuristic,
         D!Next, D!CloseMinimum, D!FollowEdge, D!Expanded
<1>2. heuristic' \in [Objectives -> [Nodes -> Nat]]
  <2>1. dResult \in [Nodes -> Nat] /\ heuristic \in [Objectives -> [Nodes -> Nat]]
    BY DEF IInv, DijkstraOK, D!TypeOK
  <2> QED
    BY <2>1 DEF DijkstraStep, StartTimeHeuristic, StartDistanceHeuristic
<1>3. DijkstraOK'
  <2>1. CASE DijkstraStep
    BY <2>1, DijkstraNextStep DEF DijkstraStep, IInv
  <2>2. CASE StartTimeHeuristic
    <3>1. Job("backward", "time") \in Jobs
      BY JobsAreJobs DEF Objectives
    <3> QED
      BY <2>2, <3>1, DijkstraBeginsNext DEF StartTimeHeuristic
  <2>3. CASE StartDistanceHeuristic
    <3>1. Job("backward", "distance") \in Jobs
      BY JobsAreJobs DEF Objectives
    <3> QED
      BY <2>3, <3>1, DijkstraBeginsNext DEF StartDistanceHeuristic
  <2> QED
    BY <2>1, <2>2, <2>3
<1>4. LabelsOK' /\ BagsOK'
  BY <1>1 DEF search, IInv, LabelsOK, BagsOK
<1>5. edges' \subseteq graph' /\ (edges' # {} => current' # NoState)
  BY <1>1 DEF search, IInv
<1> QED
  BY <1>1, <1>2, <1>3, <1>4, <1>5 DEF IInv

(* What the steps of the search itself have in common.                     *)
LEMMA SearchKeeps ==
  ASSUME IInv, UNCHANGED <<graph, dijkstra, numberOfResults>>,
         stage' \in {"search", "done"} \/ stage' = stage,
         heuristic' \in [Objectives -> [Nodes -> Nat]],
         edges' \subseteq graph, edges' # {} => current' # NoState,
         LabelsOK', BagsOK'
  PROVE  IInv'
<1>1. DijkstraOK'
  BY DijkstraUnchanged DEF IInv
<1> QED
  BY <1>1 DEF IInv

LEMMA StartSearchStep ==
  ASSUME IInv, StartSearch
  PROVE  IInv'
<1> DEFINE s == [nodeId |-> Start, time |-> 0, distance |-> 0, timeHeuristic |-> 0,
                 distanceHeuristic |-> 0, previous |-> NoState]
<1>1. s \in SearchStates
  BY SearchAssumption DEF SearchStates
<1>2. /\ Encounter(s) /\ stage' = "search"
      /\ UNCHANGED <<graph, dijkstra, numberOfResults, closed, solution, results, current, edges>>
      /\ heuristic' = [heuristic EXCEPT !["distance"] = dResult]
  BY DEF StartSearch
<1> HIDE DEF s
<1>3. heuristic' \in [Objectives -> [Nodes -> Nat]]
  <2>1. dResult \in [Nodes -> Nat] /\ heuristic \in [Objectives -> [Nodes -> Nat]]
    BY DEF IInv, DijkstraOK, D!TypeOK
  <2> QED
    BY <1>2, <2>1
<1>4. LabelsOK /\ BagsOK
  BY DEF IInv
<1>5. BagsOK' /\ opened' \in [Nodes -> Seq(SearchStates)] /\ heap' \subseteq SearchStates
  BY <1>1, <1>2, <1>4, LabelEncountered
<1>6. LabelsOK'
  BY <1>2, <1>4, <1>5 DEF LabelsOK
<1>7. edges' \subseteq graph /\ (edges' # {} => current' # NoState)
  BY <1>2 DEF IInv
<1> QED
  BY <1>2, <1>3, <1>5, <1>6, <1>7, SearchKeeps

LEMMA ExtractStep ==
  ASSUME IInv, DropDominated \/ ReachGoal \/ Close
  PROVE  IInv'
<1>1. PICK s \in heap :
        /\ TakeMinimum(s)
        /\ \/ UNCHANGED <<stage, closed, solution, results, current, edges>>
           \/ /\ s.nodeId = Goal
              /\ results' = Append(results, s) /\ solution' = s
              /\ stage' \in {stage, "done"}
              /\ UNCHANGED <<closed, current, edges>>
           \/ /\ closed' = [closed EXCEPT ![s.nodeId] = s]
              /\ current' = s /\ edges' = OutEdges(graph, s.nodeId)
              /\ UNCHANGED <<stage, solution, results>>
  BY DEF DropDominated, ReachGoal, Close, IsGoal
<1>2. UNCHANGED <<graph, dijkstra, heuristic, numberOfResults>>
  BY DEF DropDominated, ReachGoal, Close
<1>3. LabelsOK /\ BagsOK /\ edges \subseteq graph /\ (edges # {} => current # NoState)
  BY DEF IInv
<1>4. s \in SearchStates /\ s.nodeId \in Nodes /\ s # NoState
  BY <1>3, NullAssumption DEF LabelsOK, SearchStates
<1>5. BagsOK' /\ opened' \in [Nodes -> Seq(SearchStates)] /\ heap' \subseteq SearchStates
  BY <1>1, <1>3, LabelTaken
<1>6. LabelsOK' /\ edges' \subseteq graph /\ (edges' # {} => current' # NoState)
  <2>1. CASE UNCHANGED <<stage, closed, solution, results, current, edges>>
    BY <1>3, <1>5, <2>1 DEF LabelsOK
  <2>2. CASE /\ s.nodeId = Goal
             /\ results' = Append(results, s) /\ solution' = s
             /\ UNCHANGED <<closed, current, edges>>
    <3>1. results' \in Seq(SearchStates)
      BY <1>3, <1>4, <2>2, AppendProperties DEF LabelsOK
    <3> QED
      BY <1>3, <1>4, <1>5, <2>2, <3>1 DEF LabelsOK
  <2>3. CASE /\ closed' = [closed EXCEPT ![s.nodeId] = s]
             /\ current' = s /\ edges' = OutEdges(graph, s.nodeId)
             /\ UNCHANGED <<stage, solution, results>>
    <3>1. /\ closed'[s.nodeId] = s /\ closed' = [n \in Nodes |-> closed'[n]]
          /\ \A n \in Nodes : n # s.nodeId => closed'[n] = closed[n]
      BY <1>3, <1>4, <2>3 DEF LabelsOK
    <3>2. \A n \in Nodes : closed'[n] # NoState => closed'[n] \in SearchStates /\ closed'[n].nodeId = n
      BY <1>3, <1>4, <3>1 DEF LabelsOK
    <3>3. edges' \subseteq graph
      BY <2>3 DEF OutEdges
    <3>4. LabelsOK'
      BY <1>3, <1>4, <1>5, <2>3, <3>1, <3>2 DEF LabelsOK
    <3> QED
      BY <1>4, <2>3, <3>3, <3>4
  <2> QED
    BY <1>1, <2>1, <2>2, <2>3
<1>7. stage' \in {"search", "done"} \/ stage' = stage
  BY <1>1
<1>8. heuristic' \in [Objectives -> [Nodes -> Nat]]
  BY <1>2 DEF IInv
<1> QED
  BY <1>2, <1>5, <1>6, <1>7, <1>8, SearchKeeps

LEMMA FollowEdgeStep ==
  ASSUME IInv, FollowEdge
  PROVE  IInv'
<1>1. PICK e \in edges :
        /\ edges' = edges \ {e}
        /\ IF e.to = current.previous THEN UNCHANGED <<heap, opened>>
           ELSE Encounter(Move(current, e))
        /\ UNCHANGED <<graph, stage, dijkstra, heuristic, numberOfResults>>
        /\ UNCHANGED <<closed, solution, results, current>>
  BY DEF FollowEdge
<1>2. LabelsOK /\ BagsOK /\ edges \subseteq graph /\ current # NoState
  BY <1>1 DEF IInv
<1>3. Move(current, e) \in SearchStates
  <2>1. current.nodeId \in Nodes /\ current.time \in Nat /\ current.distance \in Nat
    BY <1>2 DEF LabelsOK, SearchStates
  <2>2. e.to \in Nodes /\ e.time \in Nat /\ e.distance \in Nat
    <3>1. e \in Edges
      BY <1>2, GraphsAssumption DEF IInv
    <3> QED
      BY <3>1 DEF Edges
  <2>3. heuristic["time"][e.to] \in Nat /\ heuristic["distance"][e.to] \in Nat
    BY <2>2 DEF IInv, Objectives
  <2> QED
    BY <2>1, <2>2, <2>3 DEF Move, SearchStates
<1>4. BagsOK' /\ opened' \in [Nodes -> Seq(SearchStates)] /\ heap' \subseteq SearchStates
  <2>1. CASE UNCHANGED <<heap, opened>>
    BY <1>2, <2>1 DEF LabelsOK, BagsOK
  <2>2. CASE Encounter(Move(current, e))
    BY <1>2, <1>3, <2>2, LabelEncountered
  <2> QED
    BY <1>1, <2>1, <2>2
<1>5. LabelsOK'
  BY <1>1, <1>2, <1>4 DEF LabelsOK
<1>6. edges' \subseteq graph /\ (edges' # {} => current' # NoState)
  BY <1>1, <1>2
<1>7. UNCHANGED <<graph, dijkstra, numberOfResults>> /\ stage' = stage
  BY <1>1
<1>8. heuristic' \in [Objectives -> [Nodes -> Nat]]
  BY <1>1 DEF IInv
<1> QED
  BY <1>4, <1>5, <1>6, <1>7, <1>8, SearchKeeps

LEMMA NextIInv == IInv /\ [Next]_vars => IInv'
<1> SUFFICES ASSUME IInv, [Next]_vars PROVE IInv'
  OBVIOUS
<1>1. CASE DijkstraStep \/ StartTimeHeuristic \/ StartDistanceHeuristic
  BY <1>1, HeuristicsStep
<1>2. CASE StartSearch
  BY <1>2, StartSearchStep
<1>3. CASE DropDominated \/ ReachGoal \/ Close
  BY <1>3, ExtractStep
<1>4. CASE FollowEdge
  BY <1>4, FollowEdgeStep
<1>5. CASE Expanded \/ NoMoreLabels \/ UNCHANGED vars
  <2>1. /\ UNCHANGED <<graph, dijkstra, numberOfResults, heuristic>>
        /\ UNCHANGED <<heap, opened, closed, solution, results, edges>>
        /\ stage' \in {"search", "done"} \/ stage' = stage
        /\ current' = current \/ (edges = {} /\ current' = NoState)
    BY <1>5 DEF Expanded, NoMoreLabels, vars, search
  <2>2. LabelsOK' /\ BagsOK'
    BY <2>1 DEF IInv, LabelsOK, BagsOK
  <2>3. edges' \subseteq graph /\ (edges' # {} => current' # NoState)
    BY <2>1 DEF IInv
  <2>4. heuristic' \in [Objectives -> [Nodes -> Nat]]
    BY <2>1 DEF IInv
  <2> QED
    BY <2>1, <2>2, <2>3, <2>4, SearchKeeps
<1> QED
  BY <1>1, <1>2, <1>3, <1>4, <1>5 DEF Next
------------------------------------------------------------------------------
(* The inductive invariant holds always: heaps, bags and what the searches *)
(* remember of their entries fit together.                                 *)
THEOREM Invariance == Spec => []IInv
BY InitIInv, NextIInv, PTL DEF Spec

(* Every label is filed under its own node, among the opened ones, among   *)
(* the closed ones and among the solutions, and no search leaves the graph.*)
THEOREM TypeCorrect == Spec => []TypeOK
<1>1. IInv => TypeOK
  <2> SUFFICES ASSUME IInv PROVE TypeOK
    OBVIOUS
  <2>1. LabelsOK /\ BagsOK /\ D!TypeOK
    BY DEF IInv, DijkstraOK
  <2>2. ASSUME NEW n \in Nodes, NEW i \in DOMAIN opened[n]
        PROVE  opened[n][i] \in SearchStates /\ opened[n][i].nodeId = n
    BY <2>1 DEF LabelsOK, BagsOK
  <2>3. \A i \in DOMAIN results : results[i] \in SearchStates
    <3>1. results \in Seq(SearchStates)
      BY <2>1 DEF LabelsOK
    <3> QED
      BY <3>1
  <2> QED
    BY <2>1, <2>2, <2>3 DEF IInv, LabelsOK, TypeOK
<1> QED
  BY <1>1, Invariance, PTL

(* addToBagAndHeapIfNotDominated() deletes from the heap only what is in   *)
(* it, and calculate() removes from a bag what it extracts from the heap:  *)
(* both hold the same labels, of which none dominates another of its node. *)
THEOREM BagsMatchHeapHolds == Spec => []BagsMatchHeap
<1>1. IInv => BagsMatchHeap
  <2> SUFFICES ASSUME IInv PROVE BagsMatchHeap
    OBVIOUS
  <2>1. LabelsOK /\ BagsOK
    BY DEF IInv
  <2> DEFINE labels == UNION {{opened[n][i] : i \in DOMAIN opened[n]} : n \in Nodes}
  <2>2. ASSUME NEW s \in heap PROVE s \in labels
    <3>1. s.nodeId \in Nodes
      BY <2>1 DEF LabelsOK, SearchStates
    <3>2. PICK i \in DOMAIN opened[s.nodeId] : opened[s.nodeId][i] = s
      BY <2>1 DEF BagsOK
    <3> QED
      BY <3>1, <3>2
  <2>3. ASSUME NEW s \in labels PROVE s \in heap
    BY <2>1 DEF BagsOK
  <2>4. heap = labels
    BY <2>2, <2>3
  <2> QED
    BY <2>1, <2>4 DEF BagsOK, BagsMatchHeap
<1> QED
  BY <1>1, Invariance, PTL

(* Every search of Dijkstra remembers for a node the very entry that the   *)
(* heap has for it: decrease() never refuses one.                          *)
THEOREM SeenStatesInHeapHolds == Spec => []D!SeenStatesInHeap
<1>1. IInv => D!SeenStatesInHeap
  BY DEF IInv, DijkstraOK
<1> QED
  BY <1>1, Invariance, PTL
------------------------------------------------------------------------------
(* The costs of paths, by the number of their edges.                       *)
Costs == [time : Nat, distance : Nat]
NoCost == [time |-> 0, distance |-> 0]

NoEdge(to) == [n \in Nodes |-> IF n = to THEN {NoCost} ELSE {}]
OneEdge(g, shorter) ==
  [n \in Nodes |-> UNION {{Plus(e, c) : c \in shorter[e.to]} : e \in OutEdges(g, n)}]

CostsUpTo(f, g, to, m) ==
  f = [k \in 0 .. m |-> IF k = 0 THEN NoEdge(to) ELSE OneEdge(g, f[k - 1])]

LEMMA LongestIsNat == Longest \in Nat
<1>1. IsFiniteSet(Nodes) /\ Nodes # {}
  BY NodesAssumption, SearchAssumption
<1>2. Cardinality(Nodes) \in Nat /\ Cardinality(Nodes) # 0
  BY <1>1, FS_CardinalityType, FS_EmptySet
<1> QED
  BY <1>2 DEF Longest

LEMMA CostsExist ==
  ASSUME NEW g, NEW to, NEW m \in Nat
  PROVE  \E f : CostsUpTo(f, g, to, m)
<1> DEFINE S == {k \in Nat : ~\E f : CostsUpTo(f, g, to, k)}
<1>1. SUFFICES ASSUME S # {} PROVE FALSE
  OBVIOUS
<1>2. PICK k \in S : \A y \in S : k <= y
  <2>1. S \in SUBSET Nat
    OBVIOUS
  <2> HIDE DEF S
  <2> QED
    BY <1>1, <2>1, NatMinimum
<1>3. k \in Nat /\ ~\E f : CostsUpTo(f, g, to, k)
  BY <1>2
<1>4. k # 0
  <2>1. ASSUME k = 0 PROVE CostsUpTo([i \in 0 .. 0 |-> NoEdge(to)], g, to, k)
    BY <2>1 DEF CostsUpTo
  <2> QED
    BY <1>3, <2>1
<1>5. PICK f : CostsUpTo(f, g, to, k - 1)
  <2>1. k - 1 \in Nat /\ k - 1 \notin S
    BY <1>2, <1>3, <1>4
  <2> QED
    BY <2>1
<1> DEFINE h == [i \in 0 .. k |-> IF i = k THEN OneEdge(g, f[k - 1]) ELSE f[i]]
<1>6. /\ \A i \in 0 .. k - 1 : h[i] = f[i] /\ i \in 0 .. k
      /\ h[k] = OneEdge(g, f[k - 1])
  BY <1>3, <1>4
<1>7. \A i \in 0 .. k - 1 : f[i] = IF i = 0 THEN NoEdge(to) ELSE OneEdge(g, f[i - 1])
  BY <1>5 DEF CostsUpTo
<1>8. ASSUME NEW i \in 0 .. k
      PROVE  h[i] = IF i = 0 THEN NoEdge(to) ELSE OneEdge(g, h[i - 1])
  <2> HIDE DEF h
  <2>1. CASE i = k
    <3>1. k - 1 \in 0 .. k - 1
      BY <1>3, <1>4
    <3> QED
      BY <1>4, <1>6, <2>1, <3>1
  <2>2. CASE i \in 0 .. k - 1
    <3>1. i = 0 \/ i - 1 \in 0 .. k - 1
      BY <2>2
    <3> QED
      BY <1>6, <1>7, <2>2, <3>1
  <2> QED
    BY <1>3, <2>1, <2>2
<1>9. h = [i \in 0 .. k |-> h[i]]
  OBVIOUS
<1> HIDE DEF h
<1>10. CostsUpTo(h, g, to, k)
  BY <1>8, <1>9 DEF CostsUpTo
<1> QED
  BY <1>3, <1>10

LEMMA CostsToIs ==
  ASSUME NEW g, NEW to
  PROVE  CostsUpTo(CostsTo(g, to), g, to, Longest)
<1> DEFINE F == CHOOSE f : CostsUpTo(f, g, to, Longest)
<1>1. CostsUpTo(F, g, to, Longest)
  BY LongestIsNat, CostsExist
<1>2. CostsTo(g, to) = F
  BY DEF CostsTo, CostsUpTo, NoEdge, OneEdge, NoCost
<1> HIDE DEF F
<1> QED
  BY <1>1, <1>2

(* A path without an edge, and a path with one edge more.                  *)
LEMMA CostsOfNoEdge ==
  ASSUME NEW g, NEW to, NEW n \in Nodes, NEW w
  PROVE  w \in CostsTo(g, to)[0][n] <=> n = to /\ w = NoCost
<1>1. CostsTo(g, to)[0] = NoEdge(to)
  BY LongestIsNat, CostsToIs DEF CostsUpTo
<1> QED
  BY <1>1 DEF NoEdge

LEMMA CostsOfOneMore ==
  ASSUME NEW g, NEW to, NEW n \in Nodes, NEW k \in 1 .. Longest, NEW w
  PROVE  w \in CostsTo(g, to)[k][n] <=>
           \E e \in g : e.from = n /\ \E c \in CostsTo(g, to)[k - 1][e.to] : w = Plus(e, c)
<1>1. CostsTo(g, to)[k] = OneEdge(g, CostsTo(g, to)[k - 1])
  BY LongestIsNat, CostsToIs DEF CostsUpTo
<1> QED
  BY <1>1 DEF OneEdge, OutEdges

LEMMA EdgeFacts ==
  ASSUME NEW g \in Graphs, NEW e \in g
  PROVE  /\ e \in Edges /\ e.from \in Nodes /\ e.to \in Nodes
         /\ e.time \in Nat /\ e.distance \in Nat
         /\ \A c \in Costs : Plus(e, c) \in Costs
<1>1. e \in Edges
  BY GraphsAssumption
<1> QED
  BY <1>1 DEF Edges, Costs, Plus

LEMMA CostsAreCosts ==
  ASSUME NEW g \in Graphs, NEW to \in Nodes, NEW k \in 0 .. Longest, NEW n \in Nodes
  PROVE  CostsTo(g, to)[k][n] \subseteq Costs
<1> DEFINE S == {i \in 0 .. Longest : ~\A m \in Nodes : CostsTo(g, to)[i][m] \subseteq Costs}
<1>1. SUFFICES ASSUME S # {} PROVE FALSE
  OBVIOUS
<1>2. PICK i \in S : \A y \in S : i <= y
  <2>1. S \in SUBSET Nat
    BY LongestIsNat
  <2> HIDE DEF S
  <2> QED
    BY <1>1, <2>1, NatMinimum
<1>3. PICK m \in Nodes : \E w \in CostsTo(g, to)[i][m] : w \notin Costs
  BY <1>2
<1>3a. PICK w \in CostsTo(g, to)[i][m] : w \notin Costs
  BY <1>3
<1>4. CASE i = 0
  BY <1>3a, <1>4, CostsOfNoEdge DEF NoCost, Costs
<1>5. CASE i # 0
  <2>1. i \in 1 .. Longest /\ i - 1 \in 0 .. Longest /\ i - 1 \notin S
    BY <1>2, <1>5, LongestIsNat
  <2>2. PICK e \in g : e.from = m /\ \E c \in CostsTo(g, to)[i - 1][e.to] : w = Plus(e, c)
    BY <1>3a, <2>1, CostsOfOneMore
  <2>3. CostsTo(g, to)[i - 1][e.to] \subseteq Costs
    BY <2>1, EdgeFacts
  <2> QED
    BY <1>3a, <2>2, <2>3, EdgeFacts
<1> QED
  BY <1>4, <1>5

LEMMA PlusCommutes ==
  ASSUME NEW d \in Edges, NEW e \in Edges, NEW c \in Costs
  PROVE  Plus(d, Plus(e, c)) = Plus(e, Plus(d, c))
BY DEF Edges, Costs, Plus

(* Paths grow at their end as well as at their beginning.                  *)
LEMMA CostsOfOneMoreAtTheEnd ==
  ASSUME NEW g \in Graphs, NEW n \in Nodes, NEW e \in g, NEW k \in 0 .. Longest - 1,
         NEW c \in CostsTo(g, e.from)[k][n]
  PROVE  Plus(e, c) \in CostsTo(g, e.to)[k + 1][n]
<1> DEFINE Good(i) == \A m \in Nodes : \A w \in CostsTo(g, e.from)[i][m] :
                        Plus(e, w) \in CostsTo(g, e.to)[i + 1][m]
           S == {i \in 0 .. Longest - 1 : ~Good(i)}
<1>1. SUFFICES ASSUME S # {} PROVE FALSE
  OBVIOUS
<1>2. PICK i \in S : \A y \in S : i <= y
  <2>1. S \in SUBSET Nat
    BY LongestIsNat
  <2> HIDE DEF S
  <2> QED
    BY <1>1, <2>1, NatMinimum
<1>3. PICK m \in Nodes : \E w \in CostsTo(g, e.from)[i][m] :
        Plus(e, w) \notin CostsTo(g, e.to)[i + 1][m]
  BY <1>2
<1>3a. PICK w \in CostsTo(g, e.from)[i][m] :
        Plus(e, w) \notin CostsTo(g, e.to)[i + 1][m]
  BY <1>3
<1>4. i \in 0 .. Longest /\ i + 1 \in 1 .. Longest /\ i \in Nat /\ i + 1 - 1 = i
  BY <1>2, LongestIsNat
<1>5. e \in Edges /\ e.from \in Nodes /\ e.to \in Nodes
  BY EdgeFacts
<1>6. CASE i = 0
  <2>1. m = e.from /\ w = NoCost
    BY <1>3a, <1>6, CostsOfNoEdge
  <2>2. NoCost \in CostsTo(g, e.to)[0][e.to]
    BY <1>5, CostsOfNoEdge
  <2> QED
    BY <1>3a, <1>4, <1>6, <2>1, <2>2, CostsOfOneMore
<1>7. CASE i # 0
  <2>1. i \in 1 .. Longest /\ i - 1 \in 0 .. Longest - 1 /\ i - 1 \notin S /\ i - 1 + 1 = i
        /\ i - 1 \in 0 .. Longest
    BY <1>2, <1>4, <1>7, LongestIsNat
  <2>2. PICK d \in g : d.from = m /\ \E v \in CostsTo(g, e.from)[i - 1][d.to] : w = Plus(d, v)
    BY <1>3a, <2>1, CostsOfOneMore
  <2>3. PICK v \in CostsTo(g, e.from)[i - 1][d.to] : w = Plus(d, v)
    BY <2>2
  <2>4. d \in Edges /\ d.to \in Nodes
    BY EdgeFacts
  <2>5. Plus(e, v) \in CostsTo(g, e.to)[i][d.to]
    BY <2>1, <2>3, <2>4
  <2>6. v \in Costs
    BY <1>5, <2>1, <2>3, <2>4, CostsAreCosts
  <2>7. Plus(e, w) = Plus(d, Plus(e, v))
    BY <1>5, <2>3, <2>4, <2>6, PlusCommutes
  <2>8. Plus(d, Plus(e, v)) \in CostsTo(g, e.to)[i + 1][m]
    BY <1>4, <2>2, <2>5, CostsOfOneMore
  <2> QED
    BY <1>3a, <2>7, <2>8
<1> QED
  BY <1>6, <1>7

LEMMA CostsWithoutTheLastEdge ==
  ASSUME NEW g \in Graphs, NEW to \in Nodes, NEW n \in Nodes, NEW k \in 1 .. Longest,
         NEW c \in CostsTo(g, to)[k][n]
  PROVE  \E e \in g : e.to = to /\ \E d \in CostsTo(g, e.from)[k - 1][n] : c = Plus(e, d)
<1> DEFINE Good(i) == \A m \in Nodes : \A w \in CostsTo(g, to)[i][m] :
              \E e \in g : e.to = to /\ \E d \in CostsTo(g, e.from)[i - 1][m] : w = Plus(e, d)
           S == {i \in 1 .. Longest : ~Good(i)}
<1>1. SUFFICES ASSUME S # {} PROVE FALSE
  OBVIOUS
<1>2. PICK i \in S : \A y \in S : i <= y
  <2>1. S \in SUBSET Nat
    BY LongestIsNat
  <2> HIDE DEF S
  <2> QED
    BY <1>1, <2>1, NatMinimum
<1>3. PICK m \in Nodes : \E w \in CostsTo(g, to)[i][m] :
        ~\E e \in g : e.to = to /\ \E d \in CostsTo(g, e.from)[i - 1][m] : w = Plus(e, d)
  BY <1>2
<1>3a. PICK w \in CostsTo(g, to)[i][m] :
        ~\E e \in g : e.to = to /\ \E d \in CostsTo(g, e.from)[i - 1][m] : w = Plus(e, d)
  BY <1>3
<1>4. i \in 1 .. Longest /\ i - 1 \in 0 .. Longest /\ i \in Nat
  BY <1>2, LongestIsNat
<1>5. PICK a \in g : a.from = m /\ \E v \in CostsTo(g, to)[i - 1][a.to] : w = Plus(a, v)
  BY <1>3a, <1>4, CostsOfOneMore
<1>6. PICK v \in CostsTo(g, to)[i - 1][a.to] : w = Plus(a, v)
  BY <1>5
<1>7. a \in Edges /\ a.to \in Nodes /\ v \in Costs
  BY <1>4, <1>6, EdgeFacts, CostsAreCosts
<1>8. CASE i = 1
  <2>1. a.to = to /\ v = NoCost
    BY <1>6, <1>7, <1>8, CostsOfNoEdge
  <2>2. NoCost \in CostsTo(g, a.from)[0][m]
    BY <1>5, CostsOfNoEdge
  <2> QED
    BY <1>3a, <1>6, <1>8, <2>1, <2>2
<1>9. CASE i # 1
  <2>1. i - 1 \in 1 .. Longest /\ i - 1 \notin S /\ i - 1 - 1 \in 0 .. Longest
    BY <1>2, <1>4, <1>9, LongestIsNat
  <2>2. PICK e \in g : e.to = to /\ \E d \in CostsTo(g, e.from)[i - 1 - 1][a.to] : v = Plus(e, d)
    BY <1>6, <1>7, <2>1
  <2>3. PICK d \in CostsTo(g, e.from)[i - 1 - 1][a.to] : v = Plus(e, d)
    BY <2>2
  <2>4. e \in Edges /\ e.from \in Nodes
    BY EdgeFacts
  <2>5. d \in Costs
    BY <1>7, <2>1, <2>3, <2>4, CostsAreCosts
  <2>6. Plus(a, d) \in CostsTo(g, e.from)[i - 1][m]
    BY <1>5, <2>1, <2>3, CostsOfOneMore
  <2>7. w = Plus(e, Plus(a, d))
    BY <1>6, <1>7, <2>3, <2>4, <2>5, PlusCommutes
  <2> QED
    BY <1>3a, <2>2, <2>6, <2>7
<1> QED
  BY <1>8, <1>9
------------------------------------------------------------------------------
(* The costs of the paths of k edges between the origin of a search and a  *)
(* node, in the direction of the search.                                   *)
OriginCosts(k, n) ==
  IF job.direction = "forward" THEN CostsTo(graph, n)[k][job.origin]
                               ELSE CostsTo(graph, job.origin)[k][n]

(* What a search knows of a closed node.                                   *)
Found(n) ==
  IF dCurrent # NoState /\ dCurrent.nodeId = n THEN dCurrent.objective ELSE dResult[n]

Pending(n, e) == dCurrent # NoState /\ dCurrent.nodeId = n /\ e \in dEdges

AtOrigin ==
  /\ dClosed = {} => dHeap = {D!State(job.origin, 0)}
  /\ dClosed # {} => job.origin \in dClosed /\ Found(job.origin) = 0
  /\ dCurrent # NoState =>
       dCurrent.nodeId \in dClosed /\ dEdges \subseteq D!ExpandEdges(dCurrent.nodeId)
  /\ \A n \in Nodes \ dClosed : dResult[n] = 0

(* Nodes are closed in the order of their costs.                           *)
Ordered ==
  /\ \A s \in dHeap : s.nodeId \notin dClosed /\ \A n \in dClosed : Found(n) <= s.objective
  /\ dCurrent # NoState => \A n \in dClosed : Found(n) <= dCurrent.objective

(* No edge that was followed leads to a better way than the one known.     *)
Relaxed ==
  \A n \in dClosed : \A e \in D!ExpandEdges(n) :
    \/ Pending(n, e)
    \/ /\ D!SuccessorNode(e) \in dClosed
       /\ Found(D!SuccessorNode(e)) <= Found(n) + e[job.objective]
    \/ /\ D!SuccessorNode(e) \notin dClosed
       /\ dSeen[D!SuccessorNode(e)] # NoState
       /\ dSeen[D!SuccessorNode(e)].objective <= Found(n) + e[job.objective]

(* What is known are the costs of some path over closed nodes.             *)
AttainedBy(v, n, longest) ==
  \E k \in 0 .. longest : \E c \in OriginCosts(k, n) : c[job.objective] = v

Attained ==
  /\ \A n \in dClosed : AttainedBy(Found(n), n, Cardinality(dClosed) - 1)
  /\ \A s \in dHeap : AttainedBy(s.objective, s.nodeId, Cardinality(dClosed))

LeastSoFar == AtOrigin /\ Ordered /\ Relaxed /\ Attained

LEMMA ExpandFacts ==
  ASSUME graph \in Graphs, job \in Jobs, NEW n \in Nodes, NEW e \in D!ExpandEdges(n)
  PROVE  /\ e \in graph /\ e \in Edges /\ D!SuccessorNode(e) \in Nodes
         /\ e[job.objective] \in Nat
         /\ \A c \in Costs : /\ c[job.objective] \in Nat
                             /\ Plus(e, c)[job.objective] = e[job.objective] + c[job.objective]
<1>1. e \in graph /\ job.objective \in {"time", "distance"}
  BY DEF D!ExpandEdges, D!OutEdges, D!InEdges, Jobs, Objectives
<1>2. e \in Edges /\ e.from \in Nodes /\ e.to \in Nodes /\ e.time \in Nat /\ e.distance \in Nat
  BY <1>1, EdgeFacts
<1>3. e[job.objective] \in Nat
  BY <1>1, <1>2
<1>4. ASSUME NEW c \in Costs
      PROVE  /\ c[job.objective] \in Nat
             /\ Plus(e, c)[job.objective] = e[job.objective] + c[job.objective]
  BY <1>1, <1>2 DEF Costs, Plus
<1> QED
  BY <1>1, <1>2, <1>3, <1>4 DEF D!SuccessorNode

LEMMA OriginCostsFacts ==
  ASSUME graph \in Graphs, job \in Jobs
  PROVE  /\ \A n \in Nodes : \A w : w \in OriginCosts(0, n) <=> n = job.origin /\ w = NoCost
         /\ \A k \in 0 .. Longest : \A n \in Nodes : OriginCosts(k, n) \subseteq Costs
         /\ \A k \in 0 .. Longest - 1 : \A n \in Nodes :
              \A e \in D!ExpandEdges(n) : \A c \in OriginCosts(k, n) :
                Plus(e, c) \in OriginCosts(k + 1, D!SuccessorNode(e))
         /\ \A k \in 1 .. Longest : \A n \in Nodes : \A c \in OriginCosts(k, n) :
              \E m \in Nodes : \E e \in D!ExpandEdges(m) :
                D!SuccessorNode(e) = n /\ \E d \in OriginCosts(k - 1, m) : c = Plus(e, d)
<1>1. job.origin \in Nodes /\ Longest \in Nat
  BY LongestIsNat DEF Jobs
<1>2. CASE job.direction = "forward"
  <2>1. /\ \A k, n : OriginCosts(k, n) = CostsTo(graph, n)[k][job.origin]
        /\ \A n : D!ExpandEdges(n) = {e \in graph : e.from = n}
        /\ \A e : D!SuccessorNode(e) = e.to
    BY <1>2 DEF OriginCosts, D!ExpandEdges, D!OutEdges, D!SuccessorNode
  <2>2. \A n \in Nodes : \A w : w \in OriginCosts(0, n) <=> n = job.origin /\ w = NoCost
    BY <1>1, <2>1, CostsOfNoEdge
  <2>3. \A k \in 0 .. Longest : \A n \in Nodes : OriginCosts(k, n) \subseteq Costs
    BY <1>1, <2>1, CostsAreCosts
  <2>4. ASSUME NEW k \in 0 .. Longest - 1, NEW n \in Nodes, NEW e \in D!ExpandEdges(n),
               NEW c \in OriginCosts(k, n)
        PROVE  Plus(e, c) \in OriginCosts(k + 1, D!SuccessorNode(e))
    <3>1. e \in graph /\ e.from = n /\ c \in CostsTo(graph, e.from)[k][job.origin]
      BY <2>1
    <3>2. Plus(e, c) \in CostsTo(graph, e.to)[k + 1][job.origin]
      BY <1>1, <3>1, CostsOfOneMoreAtTheEnd
    <3> QED
      BY <2>1, <3>2
  <2>5. ASSUME NEW k \in 1 .. Longest, NEW n \in Nodes, NEW c \in OriginCosts(k, n)
        PROVE  \E m \in Nodes : \E e \in D!ExpandEdges(m) :
                 D!SuccessorNode(e) = n /\ \E d \in OriginCosts(k - 1, m) : c = Plus(e, d)
    <3>1. PICK e \in graph : e.to = n /\ \E d \in CostsTo(graph, e.from)[k - 1][job.origin] : c = Plus(e, d)
      <4>1. c \in CostsTo(graph, n)[k][job.origin]
        BY <2>1
      <4> QED
        BY <1>1, <4>1, CostsWithoutTheLastEdge
    <3>2. e.from \in Nodes
      BY EdgeFacts
    <3> QED
      BY <2>1, <3>1, <3>2
  <2> QED
    BY <2>2, <2>3, <2>4, <2>5
<1>3. CASE job.direction = "backward"
  <2>1. /\ \A k, n : OriginCosts(k, n) = CostsTo(graph, job.origin)[k][n]
        /\ \A n : D!ExpandEdges(n) = {e \in graph : e.to = n}
        /\ \A e : D!SuccessorNode(e) = e.from
    BY <1>3 DEF OriginCosts, D!ExpandEdges, D!InEdges, D!SuccessorNode
  <2>2. \A n \in Nodes : \A w : w \in OriginCosts(0, n) <=> n = job.origin /\ w = NoCost
    BY <1>1, <2>1, CostsOfNoEdge
  <2>3. \A k \in 0 .. Longest : \A n \in Nodes : OriginCosts(k, n) \subseteq Costs
    BY <1>1, <2>1, CostsAreCosts
  <2>4. ASSUME NEW k \in 0 .. Longest - 1, NEW n \in Nodes, NEW e \in D!ExpandEdges(n),
               NEW c \in OriginCosts(k, n)
        PROVE  Plus(e, c) \in OriginCosts(k + 1, D!SuccessorNode(e))
    <3>1. e \in graph /\ e.to = n /\ c \in CostsTo(graph, job.origin)[k][e.to] /\ e.from \in Nodes
      BY <2>1, EdgeFacts
    <3>2. k + 1 \in 1 .. Longest /\ k + 1 - 1 = k
      BY <1>1
    <3>3. Plus(e, c) \in CostsTo(graph, job.origin)[k + 1][e.from]
      BY <3>1, <3>2, CostsOfOneMore
    <3> QED
      BY <2>1, <3>3
  <2>5. ASSUME NEW k \in 1 .. Longest, NEW n \in Nodes, NEW c \in OriginCosts(k, n)
        PROVE  \E m \in Nodes : \E e \in D!ExpandEdges(m) :
                 D!SuccessorNode(e) = n /\ \E d \in OriginCosts(k - 1, m) : c = Plus(e, d)
    <3>1. PICK e \in graph : e.from = n /\ \E d \in CostsTo(graph, job.origin)[k - 1][e.to] : c = Plus(e, d)
      BY <2>1, CostsOfOneMore
    <3>2. e.to \in Nodes
      BY EdgeFacts
    <3> QED
      BY <2>1, <3>1, <3>2
  <2> QED
    BY <2>2, <2>3, <2>4, <2>5
<1> QED
  BY <1>2, <1>3 DEF Jobs

LEMMA ClosedNodes ==
  ASSUME NEW S \in SUBSET Nodes
  PROVE  /\ IsFiniteSet(S) /\ Cardinality(S) \in Nat /\ Cardinality(S) <= Longest + 1
         /\ \A n \in Nodes \ S : /\ Cardinality(S \union {n}) = Cardinality(S) + 1
                                 /\ Cardinality(S) <= Longest
<1>1. IsFiniteSet(Nodes) /\ Cardinality(Nodes) = Longest + 1 /\ Cardinality(Nodes) \in Nat
  BY NodesAssumption, FS_CardinalityType DEF Longest
<1>2. \A T \in SUBSET Nodes : IsFiniteSet(T) /\ Cardinality(T) \in Nat /\ Cardinality(T) <= Longest + 1
  BY <1>1, FS_Subset, FS_CardinalityType
<1>3. ASSUME NEW n \in Nodes \ S
      PROVE  Cardinality(S \union {n}) = Cardinality(S) + 1 /\ Cardinality(S) <= Longest
  <2>1. Cardinality(S \union {n}) = Cardinality(S) + 1
    BY <1>2, FS_AddElement
  <2>2. Cardinality(S \union {n}) <= Longest + 1
    BY <1>2
  <2> QED
    BY <1>2, <2>1, <2>2, LongestIsNat
<1> QED
  BY <1>2, <1>3

LEMMA LeastBegins ==
  ASSUME graph \in Graphs, NEW j \in Jobs, D!Begin(j)
  PROVE  LeastSoFar
<1>1. /\ job = j /\ dHeap = {D!State(j.origin, 0)} /\ dClosed = {}
      /\ dResult = [n \in Nodes |-> 0] /\ dCurrent = NoState /\ dEdges = {}
  BY DEF D!Begin
<1>2. AtOrigin /\ Ordered /\ Relaxed
  BY <1>1 DEF AtOrigin, Ordered, Relaxed
<1>3. Attained
  <2>1. NoCost \in OriginCosts(0, j.origin) /\ j.origin \in Nodes
    BY <1>1, OriginCostsFacts DEF Jobs
  <2>2. NoCost[job.objective] = 0
    BY <1>1 DEF NoCost, Jobs, Objectives
  <2>3. Cardinality(dClosed) = 0
    BY <1>1, FS_EmptySet
  <2>4. AttainedBy(0, j.origin, 0)
    BY <2>1, <2>2 DEF AttainedBy
  <2> QED
    BY <1>1, <2>3, <2>4 DEF Attained, D!State
<1> QED
  BY <1>2, <1>3 DEF LeastSoFar
------------------------------------------------------------------------------
LEMMA LeastBeginsNext ==
  ASSUME graph' \in Graphs, NEW j \in Jobs, D!BeginNext(j)
  PROVE  LeastSoFar'
<1>1. /\ job' = j /\ dHeap' = {D!State(j.origin, 0)} /\ dClosed' = {}
      /\ dResult' = [n \in Nodes |-> 0] /\ dCurrent' = NoState /\ dEdges' = {}
  BY DEF D!BeginNext
<1>2. AtOrigin' /\ Ordered' /\ Relaxed'
  BY <1>1 DEF AtOrigin, Ordered, Relaxed, D!State
<1>3. Attained'
  <2>1. NoCost \in OriginCosts(0, j.origin)'
    <3>1. j.origin \in Nodes /\ 0 \in 0 .. Longest
      BY LongestIsNat DEF Jobs
    <3>2. NoCost \in CostsTo(graph', j.origin)[0][j.origin]
      BY <3>1, CostsOfNoEdge
    <3> QED
      BY <1>1, <3>2 DEF OriginCosts
  <2>2. NoCost[job'.objective] = 0
    BY <1>1 DEF NoCost, Jobs, Objectives
  <2>3. Cardinality(dClosed') = 0
    BY <1>1, FS_EmptySet
  <2>4. AttainedBy(0, j.origin, 0)'
    BY <2>1, <2>2 DEF AttainedBy
  <2> QED
    BY <1>1, <2>3, <2>4 DEF Attained, D!State
<1> QED
  BY <1>2, <1>3 DEF LeastSoFar

LEMMA LeastUnchanged ==
  ASSUME LeastSoFar, UNCHANGED <<graph, dijkstra>>
  PROVE  LeastSoFar'
BY DEF LeastSoFar, dijkstra, AtOrigin, Ordered, Relaxed, Attained, AttainedBy, OriginCosts,
       Found, Pending, D!State, D!ExpandEdges, D!SuccessorNode

(* Found() has its type, and so have the costs in the heap.                *)
LEMMA FoundFacts ==
  ASSUME DijkstraOK
  PROVE  /\ \A n \in Nodes : Found(n) \in Nat
         /\ \A s \in dHeap : s.nodeId \in Nodes /\ s.objective \in Nat
         /\ dClosed \subseteq Nodes
         /\ dCurrent # NoState => /\ dCurrent.nodeId \in Nodes /\ dCurrent.objective \in Nat
                                  /\ Found(dCurrent.nodeId) = dCurrent.objective
         /\ \A n \in Nodes : dSeen[n] # NoState => dSeen[n].objective \in Nat /\ dSeen[n].nodeId = n
         /\ job \in Jobs
<1>1. D!TypeOK /\ job \in Jobs
  BY DEF DijkstraOK
<1>2. \A s \in dHeap : s.nodeId \in Nodes /\ s.objective \in Nat
  BY <1>1 DEF D!TypeOK, D!SingleObjStates
<1>3. dCurrent # NoState => dCurrent.nodeId \in Nodes /\ dCurrent.objective \in Nat
  BY <1>1 DEF D!TypeOK, D!SingleObjStates
<1>4. \A n \in Nodes : dSeen[n] # NoState => dSeen[n].objective \in Nat /\ dSeen[n].nodeId = n
  BY <1>1 DEF DijkstraOK, D!TypeOK, D!SingleObjStates
<1>5. \A n \in Nodes : Found(n) \in Nat
  BY <1>1, <1>3 DEF D!TypeOK, Found
<1> QED
  BY <1>1, <1>2, <1>3, <1>4, <1>5 DEF D!TypeOK, Found

(* The node that is closed next is the one with the least costs, and what  *)
(* was seen of it is all that can still be found.                          *)
LEMMA LeastCloseMinimum ==
  ASSUME graph \in Graphs, DijkstraOK, LeastSoFar, D!CloseMinimum
  PROVE  LeastSoFar'
<1>1. PICK s \in dHeap :
        /\ dCurrent = NoState /\ \A t \in dHeap : s.objective <= t.objective
        /\ dHeap' = dHeap \ {s} /\ dClosed' = dClosed \union {s.nodeId} /\ dCurrent' = s
        /\ dEdges' = D!ExpandEdges(s.nodeId)
  BY DEF D!CloseMinimum
<1>2. graph' = graph /\ job' = job /\ dSeen' = dSeen /\ dResult' = dResult
  BY DEF D!CloseMinimum
<1>3. AtOrigin /\ Ordered /\ Relaxed /\ Attained /\ D!SeenStatesInHeap /\ D!TypeOK
  BY DEF LeastSoFar, DijkstraOK
<1> DEFINE m == s.nodeId
<1>4. /\ m \in Nodes /\ m \notin dClosed /\ s.objective \in Nat /\ s # NoState
      /\ dClosed \subseteq Nodes
  BY <1>1, <1>3, FoundFacts, NullAssumption DEF Ordered, D!TypeOK
<1>5. \A t \in dHeap : t.nodeId = m => t = s
  <2>1. CASE dSeen[m] = NoState
    BY <1>1, <1>3, <1>4, <2>1 DEF D!SeenStatesInHeap, AtOrigin
  <2>2. CASE dSeen[m] # NoState
    BY <1>1, <1>3, <1>4, <2>2 DEF D!SeenStatesInHeap
  <2> QED
    BY <2>1, <2>2
<1>6. dSeen[m] # NoState => dSeen[m] = s
  BY <1>1, <1>3, <1>4 DEF D!SeenStatesInHeap
<1>7. /\ Found(m)' = s.objective /\ \A n \in dClosed : Found(n)' = Found(n)
      /\ \A n \in Nodes : Found(n) \in Nat
  <2>1. Found(m)' = s.objective
    BY <1>1, <1>4 DEF Found
  <2>2. \A n \in dClosed : n # m
    BY <1>4
  <2>3. \A n \in dClosed : Found(n)' = Found(n)
    BY <1>1, <1>2, <2>2 DEF Found
  <2> QED
    BY <2>1, <2>3, FoundFacts
<1>8. /\ \A n : D!ExpandEdges(n)' = D!ExpandEdges(n)
      /\ \A e : D!SuccessorNode(e)' = D!SuccessorNode(e)
      /\ \A k, n : OriginCosts(k, n)' = OriginCosts(k, n)
  BY <1>2 DEF D!ExpandEdges, D!SuccessorNode, OriginCosts
<1>9. AtOrigin'
  <2>1. job.origin \in dClosed' /\ Found(job.origin)' = 0
    <3>1. CASE dClosed = {}
      <4>1. s = D!State(job.origin, 0)
        BY <1>1, <1>3, <3>1 DEF AtOrigin
      <4>2. m = job.origin /\ s.objective = 0
        BY <4>1 DEF D!State
      <4> QED
        BY <1>1, <1>2, <1>7, <4>2
    <3>2. CASE dClosed # {}
      BY <1>1, <1>2, <1>3, <1>7, <3>2 DEF AtOrigin
    <3> QED
      BY <3>1, <3>2
  <2>2. \A n \in Nodes \ dClosed' : dResult'[n] = 0
    BY <1>1, <1>2, <1>3 DEF AtOrigin
  <2>3. dCurrent'.nodeId \in dClosed' /\ dEdges' \subseteq D!ExpandEdges(dCurrent.nodeId)'
    BY <1>1, <1>8
  <2>4. dClosed' # {}
    BY <1>1
  <2> QED
    BY <1>2, <2>1, <2>2, <2>3, <2>4 DEF AtOrigin
<1>10. Ordered'
  <2>1. ASSUME NEW t \in dHeap'
        PROVE  t.nodeId \notin dClosed' /\ \A n \in dClosed' : Found(n)' <= t.objective
    BY <1>1, <1>3, <1>5, <1>7, <2>1 DEF Ordered
  <2>2. \A n \in dClosed' : Found(n)' <= dCurrent'.objective
    BY <1>1, <1>3, <1>4, <1>7 DEF Ordered
  <2> QED
    BY <2>1, <2>2 DEF Ordered
<1>11. Relaxed'
  <2> SUFFICES ASSUME NEW n \in dClosed', NEW e \in D!ExpandEdges(n), ~Pending(n, e)'
               PROVE  \/ /\ D!SuccessorNode(e) \in dClosed'
                         /\ Found(D!SuccessorNode(e))' <= Found(n)' + e[job.objective]
                      \/ /\ D!SuccessorNode(e) \notin dClosed'
                         /\ dSeen[D!SuccessorNode(e)] # NoState
                         /\ dSeen[D!SuccessorNode(e)].objective <= Found(n)' + e[job.objective]
    BY <1>2, <1>8 DEF Relaxed
  <2>1. n # m
    BY <1>1, <1>4 DEF Pending
  <2>2. n \in dClosed /\ Found(n)' = Found(n) /\ ~Pending(n, e)
    BY <1>1, <1>7, <2>1 DEF Pending
  <2> DEFINE q == D!SuccessorNode(e)
  <2>3. CASE q \in dClosed /\ Found(q) <= Found(n) + e[job.objective]
    BY <1>1, <1>7, <1>8, <2>2, <2>3
  <2>4. CASE q \notin dClosed /\ dSeen[q] # NoState /\ dSeen[q].objective <= Found(n) + e[job.objective]
    <3>1. CASE q = m
      BY <1>1, <1>6, <1>7, <1>8, <2>2, <2>4, <3>1
    <3>2. CASE q # m
      BY <1>1, <1>8, <2>2, <2>4, <3>2
    <3> QED
      BY <3>1, <3>2
  <2> QED
    BY <1>3, <2>2, <2>3, <2>4 DEF Relaxed
<1>12. Attained'
  <2>1. Cardinality(dClosed') = Cardinality(dClosed) + 1 /\ Cardinality(dClosed) \in Nat
    BY <1>1, <1>4, ClosedNodes
  <2>2. \A v, n, i, j : i \in Int /\ j \in Int /\ i <= j /\ AttainedBy(v, n, i) => AttainedBy(v, n, j)'
    BY <1>2, <1>8 DEF AttainedBy
  <2>3. ASSUME NEW n \in dClosed' PROVE AttainedBy(Found(n), n, Cardinality(dClosed) - 1)'
    <3>1. CASE n = m
      <4>1. AttainedBy(s.objective, m, Cardinality(dClosed))
        BY <1>3 DEF Attained
      <4>2. Cardinality(dClosed) <= Cardinality(dClosed') - 1 /\ Cardinality(dClosed') - 1 \in Int
        BY <2>1
      <4> QED
        BY <1>7, <2>1, <2>2, <3>1, <4>1, <4>2
    <3>2. CASE n \in dClosed
      <4>1. AttainedBy(Found(n), n, Cardinality(dClosed) - 1)
        BY <1>3, <3>2 DEF Attained
      <4>2. Cardinality(dClosed) - 1 <= Cardinality(dClosed') - 1 /\ Cardinality(dClosed') - 1 \in Int
            /\ Cardinality(dClosed) - 1 \in Int
        BY <2>1
      <4> QED
        BY <1>7, <2>2, <3>2, <4>1, <4>2
    <3> QED
      BY <1>1, <3>1, <3>2
  <2>4. ASSUME NEW t \in dHeap' PROVE AttainedBy(t.objective, t.nodeId, Cardinality(dClosed))'
    <3>1. AttainedBy(t.objective, t.nodeId, Cardinality(dClosed))
      BY <1>1, <1>3, <2>4 DEF Attained
    <3>2. Cardinality(dClosed) <= Cardinality(dClosed') /\ Cardinality(dClosed') \in Int
          /\ Cardinality(dClosed) \in Int
      BY <2>1
    <3> QED
      BY <2>2, <3>1, <3>2
  <2> QED
    BY <2>3, <2>4 DEF Attained
<1> QED
  BY <1>9, <1>10, <1>11, <1>12 DEF LeastSoFar

LEMMA LeastExpanded ==
  ASSUME graph \in Graphs, DijkstraOK, LeastSoFar, D!Expanded
  PROVE  LeastSoFar'
<1>1. /\ dCurrent # NoState /\ dEdges = {} /\ dCurrent' = NoState
      /\ dResult' = [dResult EXCEPT ![dCurrent.nodeId] = dCurrent.objective]
      /\ graph' = graph /\ job' = job /\ dHeap' = dHeap /\ dSeen' = dSeen
      /\ dClosed' = dClosed /\ dEdges' = dEdges
  BY DEF D!Expanded
<1>2. AtOrigin /\ Ordered /\ Relaxed /\ Attained /\ D!TypeOK
  BY DEF LeastSoFar, DijkstraOK
<1>3. dResult \in [Nodes -> Nat] /\ dClosed \subseteq Nodes
  BY <1>2 DEF D!TypeOK
<1>4. \A n \in Nodes : Found(n)' = Found(n)
  BY <1>1, <1>3 DEF Found
<1>5. \A n \in Nodes \ dClosed : dResult'[n] = 0
  BY <1>1, <1>2, <1>3 DEF AtOrigin
<1>6. job.origin \in Nodes
  BY FoundFacts DEF Jobs
<1>7. AtOrigin'
  BY <1>1, <1>2, <1>4, <1>5, <1>6 DEF AtOrigin, D!State
<1>8. Ordered'
  BY <1>1, <1>2, <1>3, <1>4 DEF Ordered
<1>9. Relaxed'
  <2>1. /\ \A n : D!ExpandEdges(n)' = D!ExpandEdges(n)
        /\ \A e : D!SuccessorNode(e)' = D!SuccessorNode(e)
    BY <1>1 DEF D!ExpandEdges, D!SuccessorNode
  <2>2. \A n, e : ~Pending(n, e)
    BY <1>1 DEF Pending
  <2> QED
    BY <1>1, <1>2, <1>3, <1>4, <2>1, <2>2 DEF Relaxed
<1>10. Attained'
  <2>1. \A v, n, i : AttainedBy(v, n, i) => AttainedBy(v, n, i)'
    BY <1>1 DEF AttainedBy, OriginCosts
  <2> QED
    BY <1>1, <1>2, <1>3, <1>4, <2>1 DEF Attained
<1> QED
  BY <1>7, <1>8, <1>9, <1>10 DEF LeastSoFar
------------------------------------------------------------------------------
(* An edge leads to a closed node, which is no farther than the current    *)
(* one, or to an open one, of which the better way is kept.                *)
LEMMA LeastFollowEdge ==
  ASSUME graph \in Graphs, DijkstraOK, LeastSoFar, D!FollowEdge
  PROVE  LeastSoFar'
<1>1. PICK e \in dEdges :
        LET s == D!State(D!SuccessorNode(e), dCurrent.objective + e[job.objective]) IN
        /\ dEdges' = dEdges \ {e}
        /\ IF s.nodeId \in dClosed THEN UNCHANGED <<dHeap, dSeen>>
           ELSE IF dSeen[s.nodeId] = NoState THEN D!Encounter(s) ELSE D!EncounterAgain(s)
        /\ UNCHANGED <<graph, job, dClosed, dResult, dCurrent>>
  BY DEF D!FollowEdge
<1>2. /\ dEdges' = dEdges \ {e}
      /\ graph' = graph /\ job' = job /\ dClosed' = dClosed /\ dResult' = dResult
      /\ dCurrent' = dCurrent
  BY <1>1
<1>3. /\ AtOrigin /\ Ordered /\ Relaxed /\ Attained /\ D!SeenStatesInHeap /\ D!TypeOK
      /\ dCurrent # NoState /\ dClosed # {}
  BY <1>1 DEF LeastSoFar, DijkstraOK
<1>4. PICK n \in Nodes : n = dCurrent.nodeId
  BY <1>3, FoundFacts
<1>5. PICK m \in Nodes : m = D!SuccessorNode(e)
  <2>1. e \in D!ExpandEdges(n)
    BY <1>3, <1>4 DEF AtOrigin
  <2> QED
    BY <2>1, <1>4, FoundFacts, ExpandFacts
<1>6. PICK v \in Nat : v = dCurrent.objective + e[job.objective]
  <2>1. e \in D!ExpandEdges(n)
    BY <1>3, <1>4 DEF AtOrigin
  <2> QED
    BY <2>1, <1>3, <1>4, FoundFacts, ExpandFacts
<1>7. /\ n \in dClosed /\ Found(n) = dCurrent.objective /\ dCurrent.objective <= v
      /\ dCurrent.objective \in Nat /\ e \in D!ExpandEdges(n) /\ e[job.objective] \in Nat
      /\ \A q \in dClosed : Found(q) \in Nat /\ Found(q) <= v
  <2>1. n \in dClosed /\ e \in D!ExpandEdges(n)
    BY <1>3, <1>4 DEF AtOrigin
  <2>2. Found(n) = dCurrent.objective /\ dCurrent.objective \in Nat /\ e[job.objective] \in Nat
    BY <1>3, <1>4, <2>1, FoundFacts, ExpandFacts
  <2>3. dCurrent.objective <= v
    BY <1>6, <2>2
  <2>4. \A q \in dClosed : Found(q) \in Nat /\ Found(q) <= dCurrent.objective
    BY <1>3, FoundFacts DEF Ordered
  <2>5. \A q \in dClosed : Found(q) <= v
    BY <2>2, <2>3, <2>4
  <2> QED
    BY <2>1, <2>2, <2>3, <2>4, <2>5
<1>8. /\ \A q : Found(q)' = Found(q)
      /\ \A q : D!ExpandEdges(q)' = D!ExpandEdges(q)
      /\ \A d : D!SuccessorNode(d)' = D!SuccessorNode(d)
      /\ \A w, q, i : AttainedBy(w, q, i)' = AttainedBy(w, q, i)
  BY <1>2 DEF Found, D!ExpandEdges, D!SuccessorNode, OriginCosts, AttainedBy
<1> DEFINE s == D!State(m, v)
<1>9. s.nodeId = m /\ s.objective = v
  BY DEF D!State
<1>10. \/ /\ UNCHANGED <<dHeap, dSeen>>
          /\ m \in dClosed \/ (dSeen[m] # NoState /\ dSeen[m].objective <= v)
       \/ /\ m \notin dClosed /\ dSeen' = [dSeen EXCEPT ![m] = s]
          /\ dHeap' \subseteq dHeap \union {s}
          /\ dSeen[m] # NoState => v < dSeen[m].objective
  <2>1. IF s.nodeId \in dClosed THEN UNCHANGED <<dHeap, dSeen>>
        ELSE IF dSeen[s.nodeId] = NoState THEN D!Encounter(s) ELSE D!EncounterAgain(s)
    BY <1>1, <1>5, <1>6
  <2>2. CASE m \in dClosed
    BY <1>9, <2>1, <2>2
  <2>3. CASE m \notin dClosed /\ dSeen[m] = NoState
    BY <1>9, <2>1, <2>3 DEF D!Encounter
  <2>4. CASE m \notin dClosed /\ dSeen[m] # NoState
    <3>1. dSeen[m].objective \in Nat
      BY <2>4, FoundFacts
    <3> QED
      BY <1>9, <2>1, <2>4, <3>1 DEF D!EncounterAgain
  <2> QED
    BY <2>2, <2>3, <2>4
<1> HIDE DEF s
<1>11. AtOrigin'
  <2>1. dEdges' \subseteq D!ExpandEdges(dCurrent.nodeId)'
    BY <1>2, <1>3, <1>8 DEF AtOrigin
  <2> QED
    BY <1>2, <1>3, <1>8, <2>1 DEF AtOrigin
<1>12. Ordered'
  <2>1. ASSUME NEW t \in dHeap'
        PROVE  t.nodeId \notin dClosed /\ \A q \in dClosed : Found(q) <= t.objective
    BY <1>3, <1>7, <1>9, <1>10 DEF Ordered
  <2> QED
    BY <1>2, <1>3, <1>8, <2>1 DEF Ordered
<1>13. Relaxed'
  <2> SUFFICES ASSUME NEW q \in dClosed, NEW d \in D!ExpandEdges(q), ~Pending(q, d)'
               PROVE  \/ /\ D!SuccessorNode(d) \in dClosed
                         /\ Found(D!SuccessorNode(d)) <= Found(q) + d[job.objective]
                      \/ /\ D!SuccessorNode(d) \notin dClosed
                         /\ dSeen'[D!SuccessorNode(d)] # NoState
                         /\ dSeen'[D!SuccessorNode(d)].objective <= Found(q) + d[job.objective]
    BY <1>2, <1>8 DEF Relaxed
  <2>1. q \in Nodes /\ Found(q) \in Nat
    BY FoundFacts
  <2>2. PICK r \in Nodes : r = D!SuccessorNode(d)
    BY <2>1, FoundFacts, ExpandFacts
  <2>3. d[job.objective] \in Nat
    BY <2>1, FoundFacts, ExpandFacts
  <2>4. dSeen \in [Nodes -> D!SingleObjStates \union {NoState}]
    BY <1>3 DEF D!TypeOK
  <2>5. m \notin dClosed /\ dSeen' = [dSeen EXCEPT ![m] = s] =>
          dSeen'[m] # NoState /\ dSeen'[m].objective = v
    <3>1. s \in D!SingleObjStates
      BY <1>9 DEF D!State, D!SingleObjStates, s
    <3>2. s # NoState
      BY <3>1, NullAssumption
    <3> QED
      BY <1>9, <2>4, <3>2
  <2>6. CASE Pending(q, d)
    <3>1. q = n /\ d = e /\ r = m /\ v = Found(q) + d[job.objective]
      BY <1>2, <1>4, <1>5, <1>6, <1>7, <2>2, <2>6 DEF Pending
    <3> QED
      BY <1>7, <1>10, <2>2, <2>5, <3>1
  <2>7. CASE r \in dClosed /\ Found(r) <= Found(q) + d[job.objective]
    BY <2>2, <2>7
  <2>8. CASE r \notin dClosed /\ dSeen[r] # NoState /\ dSeen[r].objective <= Found(q) + d[job.objective]
    <3>1. dSeen[r].objective \in Nat
      BY <2>8, FoundFacts
    <3>2. CASE UNCHANGED <<dHeap, dSeen>>
      BY <2>2, <2>8, <3>2
    <3>3. CASE /\ m \notin dClosed /\ dSeen' = [dSeen EXCEPT ![m] = s]
               /\ dSeen[m] # NoState => v < dSeen[m].objective
      <4>1. CASE r = m
        BY <2>1, <2>2, <2>3, <2>5, <2>8, <3>1, <3>3, <4>1
      <4>2. CASE r # m
        BY <2>2, <2>4, <2>8, <3>3, <4>2
      <4> QED
        BY <4>1, <4>2
    <3> QED
      BY <1>10, <3>2, <3>3
  <2> QED
    BY <1>3, <2>2, <2>6, <2>7, <2>8 DEF Relaxed
<1>14. Attained'
  <2>1. m \notin dClosed => AttainedBy(v, m, Cardinality(dClosed))
    <3> SUFFICES ASSUME m \notin dClosed PROVE AttainedBy(v, m, Cardinality(dClosed))
      OBVIOUS
    <3>1. Cardinality(dClosed) \in Nat /\ Cardinality(dClosed) <= Longest /\ Longest \in Nat
      BY FoundFacts, ClosedNodes, LongestIsNat
    <3>2. PICK k \in 0 .. Cardinality(dClosed) - 1 : \E c \in OriginCosts(k, n) : c[job.objective] = Found(n)
      BY <1>3, <1>7 DEF Attained, AttainedBy
    <3>3. PICK c \in OriginCosts(k, n) : c[job.objective] = Found(n)
      BY <3>2
    <3>4. k \in 0 .. Longest - 1 /\ k \in 0 .. Longest /\ k + 1 \in 0 .. Cardinality(dClosed)
      BY <3>1
    <3>5. job \in Jobs
      BY FoundFacts
    <3>6. Plus(e, c) \in OriginCosts(k + 1, m) /\ c \in Costs
      BY <1>5, <1>7, <3>3, <3>4, <3>5, OriginCostsFacts
    <3>7. Plus(e, c)[job.objective] = v
      BY <1>6, <1>7, <3>3, <3>5, <3>6, ExpandFacts
    <3> QED
      BY <3>4, <3>6, <3>7 DEF AttainedBy
  <2>2. \A t \in dHeap' : AttainedBy(t.objective, t.nodeId, Cardinality(dClosed))
    BY <1>3, <1>9, <1>10, <2>1 DEF Attained
  <2> QED
    BY <1>2, <1>3, <1>8, <2>2 DEF Attained
<1> QED
  BY <1>11, <1>12, <1>13, <1>14 DEF LeastSoFar

LEMMA LeastNextStep ==
  ASSUME graph \in Graphs, DijkstraOK, LeastSoFar, D!Next
  PROVE  LeastSoFar'
BY LeastCloseMinimum, LeastFollowEdge, LeastExpanded DEF D!Next
------------------------------------------------------------------------------
(* What a search has found when it ends: no edge leads out of the closed   *)
(* nodes, nor to better costs.                                             *)
AllCosts(n) == UNION {OriginCosts(k, n) : k \in 0 .. Longest}

LEMMA NothingBetter ==
  ASSUME graph \in Graphs, DijkstraOK, LeastSoFar, D!Finished,
         NEW n \in dClosed, NEW e \in D!ExpandEdges(n)
  PROVE  /\ D!SuccessorNode(e) \in dClosed
         /\ dResult[D!SuccessorNode(e)] <= dResult[n] + e[job.objective]
<1>1. dHeap = {} /\ dCurrent = NoState /\ Relaxed /\ D!SeenStatesInHeap
  BY DEF D!Finished, LeastSoFar, DijkstraOK
<1>2. n \in Nodes /\ D!SuccessorNode(e) \in Nodes
  BY FoundFacts, ExpandFacts
<1>3. dSeen[D!SuccessorNode(e)] = NoState \/ D!SuccessorNode(e) \in dClosed
  BY <1>1, <1>2 DEF D!SeenStatesInHeap
<1>4. ~Pending(n, e) /\ \A m : Found(m) = dResult[m]
  BY <1>1 DEF Pending, Found
<1> QED
  BY <1>1, <1>3, <1>4 DEF Relaxed

LEMMA NothingMissed ==
  ASSUME graph \in Graphs, DijkstraOK, LeastSoFar, D!Finished,
         NEW n \in Nodes, NEW k \in 0 .. Longest, NEW c \in OriginCosts(k, n)
  PROVE  n \in dClosed /\ dResult[n] <= c[job.objective]
<1> DEFINE Good(i) == \A m \in Nodes : \A w \in OriginCosts(i, m) :
                        m \in dClosed /\ dResult[m] <= w[job.objective]
           S == {i \in 0 .. Longest : ~Good(i)}
<1>1. SUFFICES ASSUME S # {} PROVE FALSE
  OBVIOUS
<1>2. PICK i \in S : \A y \in S : i <= y
  <2>1. S \in SUBSET Nat
    BY LongestIsNat
  <2> HIDE DEF S
  <2> QED
    BY <1>1, <2>1, NatMinimum
<1>3. PICK m \in Nodes : \E w \in OriginCosts(i, m) : ~(m \in dClosed /\ dResult[m] <= w[job.objective])
  BY <1>2
<1>4. PICK w \in OriginCosts(i, m) : ~(m \in dClosed /\ dResult[m] <= w[job.objective])
  BY <1>3
<1>5. job \in Jobs /\ dResult \in [Nodes -> Nat] /\ i \in 0 .. Longest /\ dClosed \subseteq Nodes
  BY <1>2 DEF DijkstraOK, D!TypeOK
<1>6. CASE i = 0
  <2>1. m = job.origin /\ w = NoCost
    BY <1>4, <1>5, <1>6, OriginCostsFacts
  <2>2. w[job.objective] = 0
    BY <1>5, <2>1 DEF NoCost, Jobs, Objectives
  <2>3. dClosed # {} /\ \A q : Found(q) = dResult[q]
    BY DEF D!Finished, LeastSoFar, AtOrigin, Found
  <2>4. m \in dClosed /\ dResult[m] = 0
    BY <2>1, <2>3 DEF LeastSoFar, AtOrigin
  <2> QED
    BY <1>4, <2>2, <2>4
<1>7. CASE i # 0
  <2>1. i \in 1 .. Longest /\ i - 1 \in 0 .. Longest /\ i - 1 \notin S
    BY <1>2, <1>5, <1>7, LongestIsNat
  <2>2. PICK q \in Nodes : \E e \in D!ExpandEdges(q) :
          D!SuccessorNode(e) = m /\ \E d \in OriginCosts(i - 1, q) : w = Plus(e, d)
    BY <1>4, <1>5, <2>1, OriginCostsFacts
  <2>3. PICK e \in D!ExpandEdges(q) :
          D!SuccessorNode(e) = m /\ \E d \in OriginCosts(i - 1, q) : w = Plus(e, d)
    BY <2>2
  <2>4. PICK d \in OriginCosts(i - 1, q) : w = Plus(e, d)
    BY <2>3
  <2>5. q \in dClosed /\ dResult[q] <= d[job.objective]
    BY <2>1, <2>4
  <2>6. m \in dClosed /\ dResult[m] <= dResult[q] + e[job.objective]
    BY <2>3, <2>5, NothingBetter
  <2>7. d \in Costs
    BY <1>5, <2>1, <2>4, OriginCostsFacts
  <2>8. e[job.objective] \in Nat /\ d[job.objective] \in Nat
        /\ w[job.objective] = e[job.objective] + d[job.objective]
    BY <1>5, <2>4, <2>7, ExpandFacts
  <2>9. dResult[m] \in Nat /\ dResult[q] \in Nat
    BY <1>5
  <2>10. dResult[m] <= w[job.objective]
    BY <2>5, <2>6, <2>8, <2>9
  <2> QED
    BY <1>4, <2>6, <2>10
<1> QED
  BY <1>6, <1>7

LEMMA MinIs ==
  ASSUME NEW S \in SUBSET Nat, NEW x \in S, \A y \in S : x <= y
  PROVE  Min(S) = x
<1>1. \E m \in S : \A y \in S : m <= y
  OBVIOUS
<1> DEFINE m == CHOOSE m \in S : \A y \in S : m <= y
<1>2. m \in S /\ \A y \in S : m <= y
  BY <1>1
<1>3. Min(S) = m
  BY DEF Min
<1> HIDE DEF m
<1> QED
  BY <1>2, <1>3

LEMMA LeastFound ==
  ASSUME graph \in Graphs, DijkstraOK, LeastSoFar, D!Finished, NEW n \in Nodes
  PROVE  /\ n \in dClosed <=> AllCosts(n) # {}
         /\ dResult[n] = IF AllCosts(n) # {} THEN Min({c[job.objective] : c \in AllCosts(n)}) ELSE 0
<1>1. \A c \in AllCosts(n) : n \in dClosed /\ dResult[n] <= c[job.objective]
  BY NothingMissed DEF AllCosts
<1>2. ASSUME n \in dClosed
      PROVE  \E c \in AllCosts(n) : c[job.objective] = dResult[n]
  <2>1. AttainedBy(dResult[n], n, Cardinality(dClosed) - 1)
    BY <1>2 DEF LeastSoFar, Attained, D!Finished, Found
  <2>2. Cardinality(dClosed) <= Longest + 1 /\ Cardinality(dClosed) \in Nat /\ Longest \in Nat
    BY FoundFacts, ClosedNodes, LongestIsNat
  <2>3. \A k \in 0 .. Cardinality(dClosed) - 1 : k \in 0 .. Longest
    BY <2>2
  <2> QED
    BY <2>1, <2>3 DEF AttainedBy, AllCosts
<1>3. n \in dClosed <=> AllCosts(n) # {}
  BY <1>1, <1>2
<1>4. CASE n \in dClosed
  <2> DEFINE S == {c[job.objective] : c \in AllCosts(n)}
  <2>1. \A c \in AllCosts(n) : c[job.objective] \in Nat
    <3>1. \A c \in AllCosts(n) : c \in Costs
      BY OriginCostsFacts, FoundFacts DEF AllCosts
    <3> QED
      BY <3>1, FoundFacts DEF Costs, Jobs, Objectives
  <2>2. S \in SUBSET Nat /\ dResult[n] \in S /\ \A y \in S : dResult[n] <= y
    BY <1>1, <1>2, <1>4, <2>1
  <2>3. Min(S) = dResult[n]
    <3> HIDE DEF S
    <3> QED
      BY <2>2, MinIs
  <2> QED
    BY <1>3, <1>4, <2>3
<1>5. CASE n \notin dClosed
  BY <1>3, <1>5 DEF LeastSoFar, AtOrigin
<1> QED
  BY <1>3, <1>4, <1>5
------------------------------------------------------------------------------
LEMMA ForwardFound ==
  ASSUME graph \in Graphs, DijkstraOK, LeastSoFar, D!Finished,
         job = Job("forward", "distance"), NEW n \in Nodes
  PROVE  dResult[n] = LeastCost(graph, Start, n, "distance")
<1>1. PathCosts(graph, Start, n) = AllCosts(n) /\ job.objective = "distance"
  BY DEF PathCosts, AllCosts, OriginCosts, Job
<1> QED
  BY <1>1, LeastFound DEF LeastCost, Reaches

(* The costs to the goal that a search of one objective has found, and     *)
(* that they are consistent: no edge saves more than it costs.             *)
LeastEstimates(f, o) ==
  /\ \A n \in Nodes : f[n] = LeastCost(graph, n, Goal, o)
  /\ \A e \in graph : Reaches(graph, e.to, Goal) =>
       Reaches(graph, e.from, Goal) /\ f[e.from] <= e[o] + f[e.to]

LEMMA BackwardFound ==
  ASSUME graph \in Graphs, DijkstraOK, LeastSoFar, D!Finished,
         NEW o \in Objectives, job = Job("backward", o)
  PROVE  LeastEstimates(dResult, o)
<1>1. job.objective = o /\ job.origin = Goal /\ job.direction = "backward"
  BY DEF Job
<1>2. \A n \in Nodes : PathCosts(graph, n, Goal) = AllCosts(n)
  BY <1>1 DEF PathCosts, AllCosts, OriginCosts
<1>3. \A n \in Nodes : n \in dClosed <=> Reaches(graph, n, Goal)
  BY <1>2, LeastFound DEF Reaches
<1>4. \A n \in Nodes : dResult[n] = LeastCost(graph, n, Goal, o)
  BY <1>1, <1>2, LeastFound DEF LeastCost, Reaches
<1>5. ASSUME NEW e \in graph, Reaches(graph, e.to, Goal)
      PROVE  Reaches(graph, e.from, Goal) /\ dResult[e.from] <= e[o] + dResult[e.to]
  <2>1. e.to \in Nodes /\ e.from \in Nodes
    BY EdgeFacts
  <2>2. e.to \in dClosed
    BY <1>3, <1>5, <2>1
  <2>3. e \in D!ExpandEdges(e.to) /\ D!SuccessorNode(e) = e.from
    BY <1>1 DEF D!ExpandEdges, D!InEdges, D!SuccessorNode
  <2>4. e.from \in dClosed /\ dResult[e.from] <= dResult[e.to] + e[o]
    BY <1>1, <2>2, <2>3, NothingBetter
  <2>5. dResult[e.to] \in Nat /\ e[o] \in Nat
    BY <1>1, <2>1, <2>3, FoundFacts, ExpandFacts DEF DijkstraOK, D!TypeOK
  <2> QED
    BY <1>3, <2>1, <2>4, <2>5
<1> QED
  BY <1>4, <1>5 DEF LeastEstimates

(* Which search is going on, and what the searches before it have found.   *)
Phases ==
  /\ LeastSoFar
  /\ stage = "forward" => job = Job("forward", "distance")
  /\ stage = "time" => job = Job("backward", "time")
  /\ stage = "distance" => job = Job("backward", "distance")
  /\ stage \in {"distance", "search", "done"} => LeastEstimates(heuristic["time"], "time")
  /\ stage \in {"search", "done"} => LeastEstimates(heuristic["distance"], "distance")

LEMMA InitPhases == Init => Phases
<1> SUFFICES ASSUME Init PROVE Phases
  OBVIOUS
<1>1. Job("forward", "distance") \in Jobs
  BY JobsAreJobs DEF Objectives
<1>2. graph \in Graphs /\ stage = "forward" /\ D!Begin(Job("forward", "distance"))
  BY DEF Init
<1>3. job = Job("forward", "distance")
  BY <1>2 DEF D!Begin
<1> QED
  BY <1>1, <1>2, <1>3, LeastBegins DEF Phases

LEMMA PhasesStep ==
  ASSUME IInv, Phases, [Next]_vars
  PROVE  Phases'
<1>1. graph \in Graphs /\ DijkstraOK /\ LeastSoFar /\ heuristic \in [Objectives -> [Nodes -> Nat]]
  BY DEF IInv, Phases
<1>2. CASE DijkstraStep
  <2>1. LeastSoFar'
    BY <1>1, <1>2, LeastNextStep DEF DijkstraStep
  <2>2. /\ graph' = graph /\ job' = job /\ stage' = stage /\ heuristic' = heuristic
        /\ stage \in {"forward", "time", "distance"}
    BY <1>2 DEF DijkstraStep, D!Next, D!CloseMinimum, D!FollowEdge, D!Expanded
  <2>3. LeastEstimates(heuristic["time"], "time") => LeastEstimates(heuristic["time"], "time")'
    BY <2>2 DEF LeastEstimates
  <2> QED
    BY <2>1, <2>2, <2>3 DEF Phases, Job
<1>3. CASE StartTimeHeuristic
  <2>1. /\ graph' = graph /\ stage' = "time" /\ D!BeginNext(Job("backward", "time"))
        /\ Job("backward", "time") \in Jobs
    BY <1>3, JobsAreJobs DEF StartTimeHeuristic, Objectives
  <2>2. LeastSoFar' /\ job' = Job("backward", "time")
    BY <1>1, <2>1, LeastBeginsNext DEF D!BeginNext
  <2> QED
    BY <2>1, <2>2 DEF Phases, Job
<1>4. CASE StartDistanceHeuristic
  <2>1. /\ graph' = graph /\ stage' = "distance" /\ D!BeginNext(Job("backward", "distance"))
        /\ Job("backward", "distance") \in Jobs /\ stage = "time" /\ D!Finished
        /\ heuristic' = [heuristic EXCEPT !["time"] = dResult]
    BY <1>4, JobsAreJobs DEF StartDistanceHeuristic, Objectives
  <2>2. LeastSoFar' /\ job' = Job("backward", "distance")
    BY <1>1, <2>1, LeastBeginsNext DEF D!BeginNext
  <2>3. "time" \in Objectives
    BY DEF Objectives
  <2>4. LeastEstimates(dResult, "time")
    BY <1>1, <2>1, <2>3, BackwardFound DEF Phases
  <2>5. heuristic'["time"] = dResult
    BY <1>1, <2>1, <2>3
  <2>6. LeastEstimates(heuristic["time"], "time")'
    BY <2>1, <2>4, <2>5 DEF LeastEstimates
  <2> QED
    BY <2>1, <2>2, <2>6 DEF Phases, Job
<1>5. CASE StartSearch
  <2>1. /\ graph' = graph /\ stage' = "search" /\ stage = "distance" /\ D!Finished
        /\ heuristic' = [heuristic EXCEPT !["distance"] = dResult] /\ UNCHANGED dijkstra
    BY <1>5 DEF StartSearch
  <2>2. LeastSoFar'
    BY <1>1, <2>1, LeastUnchanged
  <2>3. "distance" \in Objectives /\ "time" # "distance"
    BY DEF Objectives
  <2>4. LeastEstimates(dResult, "distance") /\ LeastEstimates(heuristic["time"], "time")
    BY <1>1, <2>1, <2>3, BackwardFound DEF Phases
  <2>5. heuristic'["distance"] = dResult /\ heuristic'["time"] = heuristic["time"]
    BY <1>1, <2>1, <2>3
  <2>6. LeastEstimates(heuristic["time"], "time")' /\ LeastEstimates(heuristic["distance"], "distance")'
    BY <2>1, <2>4, <2>5 DEF LeastEstimates
  <2> QED
    BY <2>1, <2>2, <2>6 DEF Phases, Job
<1>6. CASE UNCHANGED vars
  <2>1. UNCHANGED <<graph, dijkstra, stage, heuristic, job>>
    BY <1>6 DEF vars, dijkstra
  <2>2. LeastSoFar'
    BY <1>1, <2>1, LeastUnchanged
  <2> QED
    BY <2>1, <2>2 DEF Phases, LeastEstimates, Job
<1>7. CASE DropDominated \/ ReachGoal \/ Close \/ FollowEdge \/ Expanded \/ NoMoreLabels
  <2>1. /\ UNCHANGED <<graph, dijkstra, heuristic>>
        /\ stage = "search" /\ stage' \in {"search", "done"}
    BY <1>7 DEF DropDominated, ReachGoal, Close, FollowEdge, Expanded, NoMoreLabels, TakeMinimum
  <2>2. LeastSoFar'
    BY <1>1, <2>1, LeastUnchanged
  <2> QED
    BY <2>1, <2>2 DEF Phases, LeastEstimates
<1> QED
  BY <1>2, <1>3, <1>4, <1>5, <1>6, <1>7 DEF Next

(* The three searches hold their invariant throughout.                     *)
THEOREM PhasesHold == Spec => []Phases
BY InitPhases, PhasesStep, Invariance, PTL DEF Spec

(* Dijkstra finds the least costs of all paths to or from every node, and  *)
(* what it remembers of its heap is up to date.                            *)
THEOREM HeuristicsAreLeastCostsHolds == Spec => []HeuristicsAreLeastCosts
<1>1. IInv /\ Phases => HeuristicsAreLeastCosts
  <2> SUFFICES ASSUME IInv, Phases PROVE HeuristicsAreLeastCosts
    OBVIOUS
  <2>1. ASSUME NEW o \in Objectives, stage \in {"search", "done"}, NEW n \in Nodes
        PROVE  heuristic[o][n] = LeastCost(graph, n, Goal, o)
    BY <2>1 DEF Phases, LeastEstimates, Objectives
  <2>2. ASSUME stage = "forward", D!Finished, NEW n \in Nodes
        PROVE  dResult[n] = LeastCost(graph, Start, n, "distance")
    BY <2>2, ForwardFound DEF IInv, Phases
  <2>3. D!SeenStatesInHeap
    BY DEF IInv, DijkstraOK
  <2> QED
    BY <2>1, <2>2, <2>3 DEF HeuristicsAreLeastCosts
<1> QED
  BY <1>1, Invariance, PhasesHold, PTL
------------------------------------------------------------------------------
(* The costs of the ways from a node to the goal, by the number of edges.  *)
Ways(k, n) == CostsTo(graph, Goal)[k][n]
Useful(n) == Reaches(graph, n, Goal)

LEMMA UsefulIs ==
  ASSUME NEW n \in Nodes
  PROVE  Useful(n) <=> \E k \in 0 .. Longest : Ways(k, n) # {}
BY DEF Useful, Reaches, PathCosts, Ways

(* What the estimates are good for: they are below every way to the goal,  *)
(* and consistent.                                                         *)
LEMMA EstimateFacts ==
  ASSUME IInv, Phases, stage \in {"search", "done"}
  PROVE  /\ \A n \in Nodes : heuristic["time"][n] \in Nat /\ heuristic["distance"][n] \in Nat
         /\ \A k \in 0 .. Longest : \A n \in Nodes : \A w \in Ways(k, n) :
              /\ w \in Costs /\ Useful(n)
              /\ heuristic["time"][n] <= w.time /\ heuristic["distance"][n] <= w.distance
         /\ Useful(Goal) /\ heuristic["time"][Goal] = 0 /\ heuristic["distance"][Goal] = 0
         /\ \A e \in graph : Useful(e.to) =>
              /\ Useful(e.from)
              /\ heuristic["time"][e.from] <= e.time + heuristic["time"][e.to]
<1>1. /\ graph \in Graphs /\ heuristic \in [Objectives -> [Nodes -> Nat]] /\ Goal \in Nodes
      /\ LeastEstimates(heuristic["time"], "time")
      /\ LeastEstimates(heuristic["distance"], "distance")
  BY SearchAssumption DEF IInv, Phases
<1>2. \A n \in Nodes : heuristic["time"][n] \in Nat /\ heuristic["distance"][n] \in Nat
  BY <1>1 DEF Objectives
<1>3. ASSUME NEW k \in 0 .. Longest, NEW n \in Nodes, NEW w \in Ways(k, n)
      PROVE  /\ w \in Costs /\ Useful(n)
             /\ heuristic["time"][n] <= w.time /\ heuristic["distance"][n] <= w.distance
  <2>1. w \in Costs
    BY <1>1, CostsAreCosts DEF Ways
  <2>2. w \in PathCosts(graph, n, Goal) /\ Useful(n)
    BY DEF PathCosts, Ways, Useful, Reaches
  <2>3. \A c \in PathCosts(graph, n, Goal) : c.time \in Nat /\ c.distance \in Nat
    <3>1. \A c \in PathCosts(graph, n, Goal) : c \in Costs
      BY <1>1, CostsAreCosts DEF PathCosts
    <3> QED
      BY <3>1 DEF Costs
  <2>4. ASSUME NEW S \in SUBSET Nat, NEW x \in S PROVE Min(S) <= x
    <3>1. PICK y \in S : \A z \in S : y <= z
      BY <2>4, NatMinimum
    <3>2. Min(S) = y
      BY <3>1, MinIs
    <3> QED
      BY <3>1, <3>2
  <2>5. heuristic["time"][n] <= w.time
    <3> DEFINE S == {c["time"] : c \in PathCosts(graph, n, Goal)}
    <3>1. heuristic["time"][n] = Min(S)
      BY <1>1, <2>2 DEF LeastEstimates, LeastCost, Useful
    <3>2. S \in SUBSET Nat /\ w.time \in S
      BY <2>2, <2>3
    <3> HIDE DEF S
    <3> QED
      BY <2>4, <3>1, <3>2
  <2>6. heuristic["distance"][n] <= w.distance
    <3> DEFINE S == {c["distance"] : c \in PathCosts(graph, n, Goal)}
    <3>1. heuristic["distance"][n] = Min(S)
      BY <1>1, <2>2 DEF LeastEstimates, LeastCost, Useful
    <3>2. S \in SUBSET Nat /\ w.distance \in S
      BY <2>2, <2>3
    <3> HIDE DEF S
    <3> QED
      BY <2>4, <3>1, <3>2
  <2> QED
    BY <2>1, <2>2, <2>5, <2>6
<1>4. Useful(Goal) /\ heuristic["time"][Goal] = 0 /\ heuristic["distance"][Goal] = 0
  <2>1. NoCost \in Ways(0, Goal) /\ 0 \in 0 .. Longest
    BY <1>1, LongestIsNat, CostsOfNoEdge DEF Ways
  <2>2. NoCost.time = 0 /\ NoCost.distance = 0
    BY DEF NoCost
  <2> QED
    BY <1>1, <1>2, <1>3, <2>1, <2>2
<1>5. \A e \in graph : Useful(e.to) =>
        Useful(e.from) /\ heuristic["time"][e.from] <= e.time + heuristic["time"][e.to]
  BY <1>1 DEF LeastEstimates, Useful
<1> QED
  BY <1>2, <1>3, <1>4, <1>5
------------------------------------------------------------------------------
(* The labels the current one is still to be moved to, and with them all   *)
(* labels that are not done with.                                          *)
Coming == {Move(current, e) : e \in edges}
Open == heap \union Coming

Estimated(s) ==
  \/ /\ s.timeHeuristic = heuristic["time"][s.nodeId]
     /\ s.distanceHeuristic = heuristic["distance"][s.nodeId]
  \/ /\ s.time = 0 /\ s.distance = 0
     /\ s.timeHeuristic = 0 /\ s.distanceHeuristic = 0

NotBegun ==
  /\ heap = {} /\ opened = [n \in Nodes |-> << >>] /\ closed = [n \in Nodes |-> NoState]
  /\ solution = NoState /\ results = << >> /\ current = NoState /\ edges = {}

Labels ==
  /\ \A s \in heap : Estimated(s)
  /\ \A n \in Nodes : closed[n] # NoState => Estimated(closed[n])
  /\ closed[Goal] = NoState
  /\ current # NoState =>
       closed[current.nodeId] = current /\ edges \subseteq OutEdges(graph, current.nodeId)
  /\ \A s \in heap : closed[s.nodeId] # NoState => s.distance < closed[s.nodeId].distance

(* Labels from which the goal can be reached are closed, and are found to  *)
(* be solutions, in the order of their estimated time.                     *)
Timely ==
  \A s \in Open : Useful(s.nodeId) =>
    /\ \A n \in Nodes : closed[n] # NoState /\ Useful(n) =>
         EstimatedGoalTime(closed[n]) <= EstimatedGoalTime(s)
    /\ solution # NoState => solution.time <= EstimatedGoalTime(s)

SearchOrder ==
  /\ stage \in {"forward", "time", "distance"} => NotBegun
  /\ stage \in {"search", "done"} => Labels /\ Timely

LEMMA LabelFacts ==
  ASSUME IInv
  PROVE  /\ \A s \in SearchStates :
              /\ s.nodeId \in Nodes /\ s.time \in Nat /\ s.distance \in Nat
              /\ s.timeHeuristic \in Nat /\ s.distanceHeuristic \in Nat /\ s # NoState
              /\ EstimatedGoalTime(s) \in Nat /\ EstimatedGoalDistance(s) \in Nat
              /\ EstimatedGoalTime(s) = s.time + s.timeHeuristic
              /\ EstimatedGoalDistance(s) = s.distance + s.distanceHeuristic
         /\ \A s \in heap : s \in SearchStates
         /\ \A n \in Nodes : closed[n] # NoState => closed[n] \in SearchStates /\ closed[n].nodeId = n
         /\ solution # NoState => solution \in SearchStates /\ solution.nodeId = Goal
         /\ current # NoState => current \in SearchStates
         /\ edges \subseteq graph /\ (edges # {} => current # NoState)
<1>1. LabelsOK /\ edges \subseteq graph /\ (edges # {} => current # NoState)
  BY DEF IInv
<1>2. ASSUME NEW s \in SearchStates
      PROVE  /\ s.nodeId \in Nodes /\ s.time \in Nat /\ s.distance \in Nat
             /\ s.timeHeuristic \in Nat /\ s.distanceHeuristic \in Nat /\ s # NoState
             /\ EstimatedGoalTime(s) \in Nat /\ EstimatedGoalDistance(s) \in Nat
             /\ EstimatedGoalTime(s) = s.time + s.timeHeuristic
             /\ EstimatedGoalDistance(s) = s.distance + s.distanceHeuristic
  <2>1. /\ s.nodeId \in Nodes /\ s.time \in Nat /\ s.distance \in Nat
        /\ s.timeHeuristic \in Nat /\ s.distanceHeuristic \in Nat
    BY DEF SearchStates
  <2> QED
    BY <2>1, NullAssumption DEF EstimatedGoalTime, EstimatedGoalDistance
<1> QED
  BY <1>1, <1>2 DEF LabelsOK

(* The label at the end of an edge.                                        *)
LEMMA MoveFacts ==
  ASSUME IInv, stage \in {"search", "done"}, NEW s \in SearchStates, NEW e \in graph
  PROVE  /\ Move(s, e) \in SearchStates
         /\ Move(s, e).nodeId = e.to /\ Move(s, e).previous = s.nodeId
         /\ Move(s, e).time = s.time + e.time
         /\ Move(s, e).distance = s.distance + e.distance
         /\ Move(s, e).timeHeuristic = heuristic["time"][e.to]
         /\ Move(s, e).distanceHeuristic = heuristic["distance"][e.to]
<1>1. graph \in Graphs /\ heuristic \in [Objectives -> [Nodes -> Nat]]
  BY DEF IInv
<1>2. e.to \in Nodes /\ e.time \in Nat /\ e.distance \in Nat
  BY <1>1, EdgeFacts
<1>3. heuristic["time"][e.to] \in Nat /\ heuristic["distance"][e.to] \in Nat
  BY <1>1, <1>2 DEF Objectives
<1>4. s.nodeId \in Nodes /\ s.time \in Nat /\ s.distance \in Nat
  BY LabelFacts
<1>5. s.time + e.time \in Nat /\ s.distance + e.distance \in Nat
  BY <1>2, <1>4
<1> QED
  BY <1>2, <1>3, <1>4, <1>5 DEF Move, SearchStates

LEMMA ComingFacts ==
  ASSUME IInv, stage \in {"search", "done"}
  PROVE  /\ \A s \in Open : s \in SearchStates
         /\ current = NoState => Coming = {} /\ Open = heap
<1>1. \A s \in Coming : s \in SearchStates
  <2> SUFFICES ASSUME NEW e \in edges PROVE Move(current, e) \in SearchStates
    BY DEF Coming
  <2>1. current \in SearchStates /\ e \in graph
    BY LabelFacts
  <2> QED
    BY <2>1, MoveFacts
<1>2. current = NoState => Coming = {}
  BY LabelFacts DEF Coming
<1> QED
  BY <1>1, <1>2, LabelFacts DEF Open

(* What an encounter with a label does to the heap.                        *)
LEMMA EncounterEffect ==
  ASSUME IInv, NEW s \in SearchStates, Encounter(s)
  PROVE  \/ /\ heap' = heap
            /\ \/ DominatedBySolution(s)
               \/ DominatedByClosed(s)
               \/ \E t \in heap : t.nodeId = s.nodeId /\ Dominated(s, t)
         \/ /\ ~DominatedBySolution(s) /\ ~DominatedByClosed(s)
            /\ s \in heap' /\ heap' \subseteq heap \union {s}
            /\ \A t \in heap \ heap' : t.nodeId = s.nodeId /\ Dominated(t, s)
<1>1. \A i \in DOMAIN opened[s.nodeId] :
        opened[s.nodeId][i] \in heap /\ opened[s.nodeId][i].nodeId = s.nodeId
  <2>1. s.nodeId \in Nodes
    BY LabelFacts
  <2> QED
    BY <2>1 DEF IInv, BagsOK
<1>2. CASE DominatedBySolution(s) \/ DominatedByClosed(s)
  BY <1>2 DEF Encounter
<1>3. CASE ~(DominatedBySolution(s) \/ DominatedByClosed(s))
  <2> DEFINE bag == opened[s.nodeId]
             worse == {i \in DOMAIN bag : Dominated(bag[i], s)}
             removed == {bag[i] : i \in worse}
  <2>1. AddIfNotDominated(s)
    BY <1>3 DEF Encounter
  <2>2. CASE \E i \in DOMAIN bag : Dominated(s, bag[i]) /\ \A j \in worse : i <= j
    <3>1. heap' = heap
      BY <2>1, <2>2 DEF AddIfNotDominated
    <3> QED
      BY <1>1, <2>2, <3>1
  <2>3. CASE ~\E i \in DOMAIN bag : Dominated(s, bag[i]) /\ \A j \in worse : i <= j
    <3>1. heap' = (heap \ removed) \union {s}
      BY <2>1, <2>3 DEF AddIfNotDominated
    <3>2. \A t \in removed : t.nodeId = s.nodeId /\ Dominated(t, s)
      BY <1>1
    <3> HIDE DEF removed
    <3> QED
      BY <1>3, <3>1, <3>2
  <2> QED
    BY <2>2, <2>3
<1> QED
  BY <1>2, <1>3

(* What leaves the heap is the first label in lexicographical order.       *)
LEMMA MinimumFacts ==
  ASSUME IInv, NEW s \in heap, TakeMinimum(s)
  PROVE  /\ stage = "search" /\ current = NoState /\ edges = {} /\ heap' = heap \ {s}
         /\ \A t \in heap :
              /\ EstimatedGoalTime(s) <= EstimatedGoalTime(t)
              /\ EstimatedGoalTime(s) = EstimatedGoalTime(t) =>
                   EstimatedGoalDistance(s) <= EstimatedGoalDistance(t)
<1>1. /\ stage = "search" /\ current = NoState /\ heap' = heap \ {s}
      /\ \A t \in heap : ~LexicographicalOrder(t, s)
  BY DEF TakeMinimum
<1>2. edges = {}
  BY <1>1, LabelFacts
<1>3. ASSUME NEW t \in heap
      PROVE  /\ EstimatedGoalTime(s) <= EstimatedGoalTime(t)
             /\ EstimatedGoalTime(s) = EstimatedGoalTime(t) =>
                  EstimatedGoalDistance(s) <= EstimatedGoalDistance(t)
  <2>1. /\ EstimatedGoalTime(s) \in Nat /\ EstimatedGoalTime(t) \in Nat
        /\ EstimatedGoalDistance(s) \in Nat /\ EstimatedGoalDistance(t) \in Nat
    BY LabelFacts
  <2> QED
    BY <1>1, <2>1 DEF LexicographicalOrder
<1> QED
  BY <1>1, <1>2, <1>3
------------------------------------------------------------------------------
(* The estimated time does not fall along an edge.                         *)
LEMMA EstimateGrows ==
  ASSUME IInv, Phases, stage \in {"search", "done"},
         NEW s \in SearchStates, Estimated(s), NEW e \in graph, e.from = s.nodeId, Useful(e.to)
  PROVE  Useful(s.nodeId) /\ EstimatedGoalTime(s) <= EstimatedGoalTime(Move(s, e))
<1>1. /\ e.to \in Nodes /\ e.from \in Nodes /\ e.time \in Nat
  BY EdgeFacts DEF IInv
<1>2. /\ Useful(e.from) /\ heuristic["time"][e.from] <= e.time + heuristic["time"][e.to]
      /\ heuristic["time"][e.from] \in Nat /\ heuristic["time"][e.to] \in Nat
  BY <1>1, EstimateFacts
<1>3. /\ EstimatedGoalTime(s) = s.time + s.timeHeuristic /\ s.time \in Nat /\ s.timeHeuristic \in Nat
  BY LabelFacts
<1>4. EstimatedGoalTime(Move(s, e)) = s.time + e.time + heuristic["time"][e.to]
  BY MoveFacts DEF EstimatedGoalTime
<1>5. s.timeHeuristic <= e.time + heuristic["time"][e.to]
  BY <1>1, <1>2, <1>3 DEF Estimated
<1> QED
  BY <1>1, <1>2, <1>3, <1>4, <1>5

LEMMA SameTimeOrder ==
  ASSUME IInv, Phases, stage \in {"search", "done"},
         NEW s \in SearchStates, NEW t \in SearchStates, Estimated(s), Estimated(t),
         s.nodeId = t.nodeId, EstimatedGoalTime(s) <= EstimatedGoalTime(t)
  PROVE  s.time <= t.time
<1>1. /\ EstimatedGoalTime(s) = s.time + s.timeHeuristic /\ s.time \in Nat /\ s.timeHeuristic \in Nat
      /\ EstimatedGoalTime(t) = t.time + t.timeHeuristic /\ t.time \in Nat /\ t.timeHeuristic \in Nat
  BY LabelFacts
<1>2. CASE s.timeHeuristic = t.timeHeuristic
  BY <1>1, <1>2
<1>3. CASE s.time = 0
  BY <1>1, <1>3
<1>4. CASE t.time = 0 /\ t.timeHeuristic = 0
  BY <1>1, <1>4
<1> QED
  BY <1>2, <1>3, <1>4 DEF Estimated

(* What does not touch the closed labels and the solution keeps the order, *)
(* as long as no label comes to the open ones.                             *)
LEMMA TimelyKept ==
  ASSUME Timely, UNCHANGED <<graph, closed, solution>>, Open' \subseteq Open
  PROVE  Timely'
<1>1. \A n : Useful(n)' = Useful(n)
  BY DEF Useful
<1>2. \A s : EstimatedGoalTime(s)' = EstimatedGoalTime(s)
  BY DEF EstimatedGoalTime
<1>3. ASSUME NEW s \in Open', Useful(s.nodeId)
      PROVE  /\ \A n \in Nodes : closed[n] # NoState /\ Useful(n) =>
                  EstimatedGoalTime(closed[n]) <= EstimatedGoalTime(s)
             /\ solution # NoState => solution.time <= EstimatedGoalTime(s)
  BY <1>3 DEF Timely
<1> QED
  BY <1>1, <1>2, <1>3 DEF Timely, EstimatedGoalTime

LEMMA ComingKept ==
  ASSUME current' = current, heuristic' = heuristic, edges' \subseteq edges
  PROVE  Coming' \subseteq Coming
BY DEF Coming, Move

LEMMA StartSearchOrder ==
  ASSUME IInv, Phases, SearchOrder, StartSearch
  PROVE  SearchOrder'
<1> DEFINE s == [nodeId |-> Start, time |-> 0, distance |-> 0, timeHeuristic |-> 0,
                 distanceHeuristic |-> 0, previous |-> NoState]
<1>1. /\ stage = "distance" /\ stage' = "search" /\ Encounter(s)
      /\ UNCHANGED <<graph, closed, solution, results, current, edges>>
  BY DEF StartSearch
<1>2. s \in SearchStates
  BY SearchAssumption DEF SearchStates
<1>3. Estimated(s)'
  BY DEF Estimated
<1> HIDE DEF s
<1>4. /\ heap = {} /\ closed = [n \in Nodes |-> NoState] /\ solution = NoState
      /\ current = NoState /\ edges = {}
  BY <1>1 DEF SearchOrder, NotBegun
<1>5. heap' \subseteq {s}
  BY <1>1, <1>2, <1>4, EncounterEffect
<1>6. s.nodeId \in Nodes /\ Goal \in Nodes
  BY <1>2, LabelFacts, SearchAssumption
<1>7. Labels'
  BY <1>1, <1>3, <1>4, <1>5, <1>6 DEF Labels
<1>8. Timely'
  BY <1>1, <1>4 DEF Timely
<1> QED
  BY <1>1, <1>7, <1>8 DEF SearchOrder

LEMMA ExtractOrder ==
  ASSUME IInv, Phases, SearchOrder, DropDominated \/ ReachGoal
  PROVE  SearchOrder'
<1>1. PICK s \in heap :
        /\ TakeMinimum(s)
        /\ \/ UNCHANGED <<solution, stage>>
           \/ s.nodeId = Goal /\ solution' = s /\ stage' \in {"search", "done"}
        /\ UNCHANGED <<graph, heuristic, closed, current, edges>>
  <2>1. stage = "search"
    BY DEF DropDominated, ReachGoal, TakeMinimum
  <2> QED
    BY <2>1 DEF DropDominated, ReachGoal, IsGoal
<1>2. /\ stage = "search" /\ current = NoState /\ edges = {} /\ heap' = heap \ {s}
      /\ \A t \in heap : EstimatedGoalTime(s) <= EstimatedGoalTime(t)
  BY <1>1, MinimumFacts
<1>3. Labels /\ Timely
  BY <1>2 DEF SearchOrder
<1>4. Labels'
  BY <1>1, <1>2, <1>3 DEF Labels, Estimated
<1>5. Open' = heap' /\ Open = heap
  BY <1>1, <1>2 DEF Open, Coming
<1>6. CASE solution' = solution
  <2>1. Timely'
    BY <1>1, <1>2, <1>3, <1>5, <1>6, TimelyKept
  <2> QED
    BY <1>1, <1>2, <1>4, <2>1 DEF SearchOrder
<1>7. CASE s.nodeId = Goal /\ solution' = s /\ stage' \in {"search", "done"}
  <2>1. s \in SearchStates /\ Estimated(s)
    BY <1>1, <1>3, LabelFacts DEF Labels
  <2>2. s.time = EstimatedGoalTime(s)
    <3>1. heuristic["time"][Goal] = 0
      BY <1>2, EstimateFacts
    <3>2. s.timeHeuristic = 0
      BY <1>7, <2>1, <3>1 DEF Estimated
    <3> QED
      BY <2>1, <3>2, LabelFacts
  <2>3. ASSUME NEW t \in heap', Useful(t.nodeId)
        PROVE  /\ \A n \in Nodes : closed[n] # NoState /\ Useful(n) =>
                    EstimatedGoalTime(closed[n]) <= EstimatedGoalTime(t)
               /\ s.time <= EstimatedGoalTime(t)
    BY <1>2, <1>3, <1>5, <2>2, <2>3 DEF Timely
  <2>4. \A n : Useful(n)' = Useful(n)
    BY <1>1 DEF Useful
  <2>5. Timely'
    BY <1>1, <1>5, <1>7, <2>3, <2>4 DEF Timely, EstimatedGoalTime
  <2> QED
    BY <1>4, <1>7, <2>5 DEF SearchOrder
<1> QED
  BY <1>1, <1>6, <1>7

LEMMA CloseOrder ==
  ASSUME IInv, Phases, SearchOrder, Close
  PROVE  SearchOrder'
<1>1. PICK s \in heap :
        /\ TakeMinimum(s) /\ s.nodeId # Goal
        /\ closed' = [closed EXCEPT ![s.nodeId] = s] /\ current' = s
        /\ edges' = OutEdges(graph, s.nodeId)
        /\ UNCHANGED <<graph, stage, heuristic, solution>>
  BY DEF Close, IsGoal
<1>2. /\ stage = "search" /\ current = NoState /\ edges = {} /\ heap' = heap \ {s}
      /\ \A t \in heap : EstimatedGoalTime(s) <= EstimatedGoalTime(t)
  BY <1>1, MinimumFacts
<1>3. Labels /\ Timely /\ BagsOK /\ LabelsOK
  BY <1>2 DEF SearchOrder, IInv
<1>4. s \in SearchStates /\ Estimated(s) /\ s.nodeId \in Nodes /\ s # NoState
  BY <1>1, <1>3, LabelFacts DEF Labels
<1>5. /\ closed'[s.nodeId] = s
      /\ \A n \in Nodes : n # s.nodeId => closed'[n] = closed[n]
  BY <1>1, <1>3, <1>4 DEF LabelsOK
<1>6. ASSUME NEW t \in heap, t # s, t.nodeId = s.nodeId
      PROVE  t.distance < s.distance
  <2>1. t \in SearchStates /\ Estimated(t)
    BY <1>3, LabelFacts DEF Labels
  <2>2. s.time <= t.time
    BY <1>2, <1>4, <1>6, <2>1, SameTimeOrder
  <2>3. ~Dominated(t, s)
    <3>1. PICK i \in DOMAIN opened[s.nodeId] : opened[s.nodeId][i] = s
      BY <1>1, <1>3 DEF BagsOK
    <3>2. PICK j \in DOMAIN opened[s.nodeId] : opened[s.nodeId][j] = t
      BY <1>3, <1>6 DEF BagsOK
    <3>3. i # j
      BY <1>6, <3>1, <3>2
    <3> QED
      BY <1>3, <1>4, <3>1, <3>2, <3>3 DEF BagsOK
  <2>4. s.time \in Nat /\ t.time \in Nat /\ s.distance \in Nat /\ t.distance \in Nat
    BY <1>4, <2>1, LabelFacts
  <2> QED
    BY <2>2, <2>3, <2>4 DEF Dominated
<1>7. Labels'
  <2>1. \A t : Estimated(t)' = Estimated(t)
    BY <1>1 DEF Estimated
  <2>2. \A t \in heap' : Estimated(t)
    BY <1>2, <1>3 DEF Labels
  <2>3. \A n \in Nodes : closed'[n] # NoState => Estimated(closed'[n])
    BY <1>3, <1>4, <1>5 DEF Labels
  <2>4. closed'[Goal] = NoState
    BY <1>1, <1>3, <1>5, SearchAssumption DEF Labels
  <2>5. closed'[current'.nodeId] = current' /\ edges' \subseteq OutEdges(graph, current'.nodeId)
    BY <1>1, <1>5
  <2>6. \A t \in heap' : closed'[t.nodeId] # NoState => t.distance < closed'[t.nodeId].distance
    <3> SUFFICES ASSUME NEW t \in heap', closed'[t.nodeId] # NoState
                 PROVE  t.distance < closed'[t.nodeId].distance
      OBVIOUS
    <3>1. t \in heap /\ t # s /\ t.nodeId \in Nodes
      BY <1>2, LabelFacts
    <3> QED
      BY <1>3, <1>5, <1>6, <3>1 DEF Labels
  <2>7. graph' = graph
    BY <1>1
  <2>8. \A n \in Nodes : closed'[n] # NoState => Estimated(closed[n])'
    BY <2>3, <1>1 DEF Estimated
  <2> QED
    BY <2>1, <2>2, <2>4, <2>5, <2>6, <2>7, <2>8 DEF Labels
<1>8. ASSUME NEW t \in Open', Useful(t.nodeId)
      PROVE  /\ \A n \in Nodes : closed'[n] # NoState /\ Useful(n) =>
                  EstimatedGoalTime(closed'[n]) <= EstimatedGoalTime(t)
             /\ solution # NoState => solution.time <= EstimatedGoalTime(t)
  <2>1. Open = heap
    BY <1>2 DEF Open, Coming
  <2>2. ASSUME NEW r \in heap, EstimatedGoalTime(r) <= EstimatedGoalTime(t),
               EstimatedGoalTime(s) <= EstimatedGoalTime(t), Useful(r.nodeId), t \in SearchStates
        PROVE  /\ \A n \in Nodes : closed'[n] # NoState /\ Useful(n) =>
                    EstimatedGoalTime(closed'[n]) <= EstimatedGoalTime(t)
               /\ solution # NoState => solution.time <= EstimatedGoalTime(t)
    <3>1. EstimatedGoalTime(r) \in Nat /\ EstimatedGoalTime(t) \in Nat
      BY <2>2, LabelFacts
    <3>2. ASSUME NEW n \in Nodes, closed'[n] # NoState, Useful(n)
          PROVE  EstimatedGoalTime(closed'[n]) <= EstimatedGoalTime(t)
      <4>1. CASE n = s.nodeId
        BY <1>5, <2>2, <4>1
      <4>2. CASE n # s.nodeId
        <5>1. closed'[n] = closed[n] /\ closed[n] \in SearchStates
          BY <1>5, <3>2, <4>2, LabelFacts
        <5>2. EstimatedGoalTime(closed[n]) <= EstimatedGoalTime(r) /\ EstimatedGoalTime(closed[n]) \in Nat
          BY <1>3, <2>1, <2>2, <3>2, <5>1, LabelFacts DEF Timely
        <5> QED
          BY <2>2, <3>1, <5>1, <5>2
      <4> QED
        BY <4>1, <4>2
    <3>3. ASSUME solution # NoState PROVE solution.time <= EstimatedGoalTime(t)
      <4>1. solution.time <= EstimatedGoalTime(r) /\ solution.time \in Nat
        BY <1>3, <2>1, <2>2, <3>3, LabelFacts DEF Timely
      <4> QED
        BY <2>2, <3>1, <4>1
    <3> QED
      BY <3>2, <3>3
  <2>3. CASE t \in heap'
    <3>1. t \in heap /\ t \in SearchStates /\ EstimatedGoalTime(t) <= EstimatedGoalTime(t)
          /\ EstimatedGoalTime(s) <= EstimatedGoalTime(t)
      <4>1. t \in heap /\ t \in SearchStates
        BY <1>2, <2>3, LabelFacts
      <4>2. EstimatedGoalTime(t) \in Nat
        BY <4>1, LabelFacts
      <4> QED
        BY <1>2, <4>1, <4>2
    <3> QED
      BY <1>8, <2>2, <3>1
  <2>4. CASE t \in Coming'
    <3>1. PICK e \in OutEdges(graph, s.nodeId) : t = Move(s, e)
      BY <1>1, <2>4 DEF Coming, Move
    <3>2. e \in graph /\ e.from = s.nodeId
      BY <3>1 DEF OutEdges
    <3>3. t \in SearchStates /\ t.nodeId = e.to
      BY <1>2, <1>4, <3>1, <3>2, MoveFacts
    <3>4. Useful(s.nodeId) /\ EstimatedGoalTime(s) <= EstimatedGoalTime(t)
      BY <1>2, <1>4, <1>8, <3>1, <3>2, <3>3, EstimateGrows
    <3> QED
      BY <2>2, <3>3, <3>4
  <2> QED
    BY <2>3, <2>4 DEF Open
<1>9. Timely'
  <2>1. \A n : Useful(n)' = Useful(n)
    BY <1>1 DEF Useful
  <2> QED
    BY <1>1, <1>8, <2>1 DEF Timely, EstimatedGoalTime
<1> QED
  BY <1>1, <1>2, <1>7, <1>9 DEF SearchOrder

LEMMA FollowEdgeOrder ==
  ASSUME IInv, Phases, SearchOrder, FollowEdge
  PROVE  SearchOrder'
<1>1. PICK e \in edges :
        /\ stage = "search" /\ edges' = edges \ {e}
        /\ IF e.to = current.previous THEN UNCHANGED <<heap, opened>>
           ELSE Encounter(Move(current, e))
        /\ UNCHANGED <<graph, stage, heuristic, closed, solution, current>>
  BY DEF FollowEdge
<1> DEFINE m == Move(current, e)
<1>2. Labels /\ Timely
  BY <1>1 DEF SearchOrder
<1>3. current \in SearchStates /\ current # NoState /\ e \in graph
  BY LabelFacts
<1>4. /\ m \in SearchStates /\ m.nodeId = e.to /\ m.timeHeuristic = heuristic["time"][e.to]
      /\ m.distanceHeuristic = heuristic["distance"][e.to] /\ m \in Coming
  BY <1>1, <1>3, MoveFacts DEF Coming
<1> HIDE DEF m
<1>5. \/ heap' \subseteq heap
      \/ heap' \subseteq heap \union {m} /\ ~DominatedByClosed(m)
  <2>1. CASE UNCHANGED <<heap, opened>>
    BY <2>1
  <2>2. CASE Encounter(m)
    BY <1>4, <2>2, EncounterEffect
  <2> QED
    BY <1>1, <2>1, <2>2 DEF m
<1>6. Open' \subseteq Open
  <2>1. Coming' \subseteq Coming
    BY <1>1, ComingKept
  <2> QED
    BY <1>4, <1>5, <2>1 DEF Open
<1>7. Timely'
  BY <1>1, <1>2, <1>6, TimelyKept
<1>8. Labels'
  <2>1. \A t : Estimated(t)' = Estimated(t)
    BY <1>1 DEF Estimated
  <2>2. \A n \in Nodes : closed[n] # NoState => closed[n] \in SearchStates
    BY LabelFacts
  <2>3. ASSUME NEW t \in heap'
        PROVE  /\ Estimated(t)
               /\ closed[t.nodeId] # NoState => t.distance < closed[t.nodeId].distance
    <3>1. CASE t \in heap
      BY <1>2, <3>1 DEF Labels
    <3>2. CASE t = m /\ ~DominatedByClosed(m)
      <4>1. Estimated(m)
        BY <1>4 DEF Estimated
      <4>2. m.distance \in Nat /\ (closed[m.nodeId] # NoState => closed[m.nodeId].distance \in Nat)
        BY <1>4, LabelFacts
      <4> QED
        BY <3>2, <4>1, <4>2 DEF DominatedByClosed
    <3> QED
      BY <1>5, <3>1, <3>2
  <2>4. \A n \in Nodes : closed[n] # NoState => Estimated(closed[n])'
    BY <1>1, <1>2 DEF Labels, Estimated
  <2>5. closed'[Goal] = NoState /\ closed' = closed
    BY <1>1, <1>2 DEF Labels
  <2>6. /\ closed'[current'.nodeId] = current'
        /\ edges' \subseteq OutEdges(graph', current'.nodeId)
    BY <1>1, <1>2, <1>3 DEF Labels
  <2> QED
    BY <2>1, <2>3, <2>4, <2>5, <2>6 DEF Labels, OutEdges
<1> QED
  BY <1>1, <1>7, <1>8 DEF SearchOrder

LEMMA SearchOrderStep ==
  ASSUME IInv, Phases, SearchOrder, [Next]_vars
  PROVE  SearchOrder'
<1>1. CASE DijkstraStep \/ StartTimeHeuristic \/ StartDistanceHeuristic
  <2>1. stage \in {"forward", "time", "distance"} /\ stage' \in {"forward", "time", "distance"}
        /\ UNCHANGED search
    BY <1>1 DEF DijkstraStep, StartTimeHeuristic, StartDistanceHeuristic
  <2> QED
    BY <2>1 DEF SearchOrder, NotBegun, search
<1>2. CASE StartSearch
  BY <1>2, StartSearchOrder
<1>3. CASE DropDominated \/ ReachGoal
  BY <1>3, ExtractOrder
<1>4. CASE Close
  BY <1>4, CloseOrder
<1>5. CASE FollowEdge
  BY <1>5, FollowEdgeOrder
<1>6. CASE Expanded \/ NoMoreLabels
  <2>1. /\ stage = "search" /\ stage' \in {"search", "done"} /\ edges = {}
        /\ UNCHANGED <<graph, heuristic, heap, closed, solution, edges>>
        /\ current' = current \/ current' = NoState
    BY <1>6, LabelFacts DEF Expanded, NoMoreLabels, search
  <2>2. Labels /\ Timely
    BY <2>1 DEF SearchOrder
  <2>3. Open' \subseteq Open
    BY <2>1 DEF Open, Coming
  <2>4. Timely'
    BY <2>1, <2>2, <2>3, TimelyKept
  <2>5. Labels'
    BY <2>1, <2>2 DEF Labels, Estimated, OutEdges
  <2> QED
    BY <2>1, <2>4, <2>5 DEF SearchOrder
<1>7. CASE UNCHANGED vars
  <2>1. UNCHANGED <<graph, stage, heuristic, heap, opened, closed, solution, results, current, edges>>
    BY <1>7 DEF vars, search
  <2> QED
    BY <2>1 DEF SearchOrder, NotBegun, Labels, Timely, Open, Coming, Move, Useful, Estimated,
                EstimatedGoalTime, OutEdges
<1> QED
  BY <1>1, <1>2, <1>3, <1>4, <1>5, <1>6, <1>7 DEF Next

LEMMA InitSearchOrder == Init => SearchOrder
BY DEF Init, SearchOrder, NotBegun

(* Labels are closed and solutions found in the order of their estimates.  *)
THEOREM SearchOrderHolds == Spec => []SearchOrder
BY InitSearchOrder, SearchOrderStep, Invariance, PhasesHold, PTL DEF Spec
------------------------------------------------------------------------------
LEMMA OrderedLabelsAreEnough ==
  IInv /\ Phases /\ SearchOrder => OneObjectiveIsEnough
<1> SUFFICES ASSUME IInv, Phases, SearchOrder PROVE OneObjectiveIsEnough
  OBVIOUS
<1>1. SUFFICES ASSUME NEW s \in Open, Reaches(graph, s.nodeId, Goal)
               PROVE  /\ DominatedByClosed(s) => s.time >= closed[s.nodeId].time
                      /\ DominatedBySolution(s) => EstimatedGoalTime(s) >= solution.time
  BY DEF OneObjectiveIsEnough, Open, Coming
<1>2. stage \in {"search", "done"}
  <2>1. Open # {}
    BY <1>1
  <2>2. heap # {} \/ edges # {}
    BY <2>1 DEF Open, Coming
  <2> QED
    BY <2>2 DEF SearchOrder, NotBegun, IInv
<1>3. Labels /\ Timely /\ s \in SearchStates /\ s.nodeId \in Nodes /\ Useful(s.nodeId)
  BY <1>1, <1>2, ComingFacts, LabelFacts DEF SearchOrder, Useful
<1>4. Estimated(s)
  <2>1. CASE s \in heap
    BY <1>3, <2>1 DEF Labels
  <2>2. CASE s \in Coming
    <3>1. PICK e \in edges : s = Move(current, e)
      BY <2>2 DEF Coming
    <3>2. current \in SearchStates /\ e \in graph
      BY LabelFacts
    <3> QED
      BY <1>2, <3>1, <3>2, MoveFacts DEF Estimated
  <2> QED
    BY <1>1, <2>1, <2>2 DEF Open
<1>5. ASSUME DominatedByClosed(s) PROVE s.time >= closed[s.nodeId].time
  <2> DEFINE c == closed[s.nodeId]
  <2>1. /\ closed[s.nodeId] # NoState /\ c \in SearchStates /\ c.nodeId = s.nodeId
        /\ Estimated(c) /\ EstimatedGoalTime(c) <= EstimatedGoalTime(s)
    BY <1>3, <1>5, <1>1, LabelFacts DEF DominatedByClosed, Labels, Timely
  <2> HIDE DEF c
  <2>2. c.time <= s.time
    BY <1>2, <1>3, <1>4, <2>1, SameTimeOrder
  <2>3. c.time \in Nat /\ s.time \in Nat
    BY <1>3, <2>1, LabelFacts
  <2> QED
    BY <2>2, <2>3 DEF c
<1>6. ASSUME DominatedBySolution(s) PROVE EstimatedGoalTime(s) >= solution.time
  <2>1. solution.time <= EstimatedGoalTime(s) /\ solution.time \in Nat /\ EstimatedGoalTime(s) \in Nat
    BY <1>1, <1>3, <1>6, LabelFacts DEF DominatedBySolution, Timely
  <2> QED
    BY <2>1
<1> QED
  BY <1>5, <1>6

(* One label and one objective are enough: what is refused for its         *)
(* distance, by a closed label or by a solution, is worse in time too.     *)
THEOREM OneObjectiveIsEnoughHolds == Spec => []OneObjectiveIsEnough
BY OrderedLabelsAreEnough, Invariance, PhasesHold, SearchOrderHolds, PTL
------------------------------------------------------------------------------
(* Every label has the cost of a path, and the nodes the path went through *)
(* before are closed by labels of no greater distance: a label that goes   *)
(* in a circle is refused, so that no path has more edges than Longest.    *)
Cost(s) == [time |-> s.time, distance |-> s.distance]

Walked(g, kept, s) ==
  \E A \in SUBSET (Nodes \ {s.nodeId}) :
    /\ \A m \in A : kept[m] # NoState /\ kept[m].distance <= s.distance
    /\ Cost(s) \in CostsTo(g, s.nodeId)[Cardinality(A)][Start]

Sound ==
  /\ \A s \in heap : Walked(graph, closed, s)
  /\ \A n \in Nodes : closed[n] # NoState => Walked(graph, closed, closed[n])

LEMMA WalkedToGoal ==
  ASSUME NEW s \in SearchStates, s.nodeId = Goal, Walked(graph, closed, s)
  PROVE  \E k \in 0 .. Longest : Cost(s) \in Ways(k, Start)
<1>1. PICK A \in SUBSET (Nodes \ {s.nodeId}) : Cost(s) \in CostsTo(graph, s.nodeId)[Cardinality(A)][Start]
  BY DEF Walked
<1>2. A \in SUBSET Nodes /\ Goal \in Nodes \ A
  BY <1>1, SearchAssumption
<1>3. Cardinality(A) \in Nat /\ Cardinality(A) <= Longest /\ Longest \in Nat
  <2>1. A \in SUBSET Nodes
    BY <1>2
  <2> QED
    BY <1>2, <2>1, ClosedNodes, LongestIsNat
<1>4. Cardinality(A) \in 0 .. Longest
  BY <1>3
<1> QED
  BY <1>1, <1>4 DEF Ways

LEMMA StartSearchSound ==
  ASSUME IInv, SearchOrder, StartSearch
  PROVE  Sound'
<1> DEFINE s == [nodeId |-> Start, time |-> 0, distance |-> 0, timeHeuristic |-> 0,
                 distanceHeuristic |-> 0, previous |-> NoState]
<1>1. stage = "distance" /\ Encounter(s) /\ UNCHANGED <<graph, closed>>
  BY DEF StartSearch
<1>2. s \in SearchStates /\ s.nodeId = Start /\ Cost(s) = NoCost
  BY SearchAssumption DEF SearchStates, Cost, NoCost
<1> HIDE DEF s
<1>3. heap = {} /\ closed = [n \in Nodes |-> NoState]
  BY <1>1 DEF SearchOrder, NotBegun
<1>4. heap' \subseteq {s}
  BY <1>1, <1>2, <1>3, EncounterEffect
<1>5. NoCost \in CostsTo(graph, Start)[0][Start]
  BY SearchAssumption, CostsOfNoEdge
<1>6. Walked(graph, closed, s)
  BY <1>2, <1>5, FS_EmptySet DEF Walked
<1> QED
  BY <1>1, <1>3, <1>4, <1>6 DEF Sound

LEMMA CloseSound ==
  ASSUME IInv, SearchOrder, Sound, Close
  PROVE  Sound'
<1>1. PICK s \in heap :
        /\ TakeMinimum(s) /\ closed' = [closed EXCEPT ![s.nodeId] = s] /\ graph' = graph
  BY DEF Close
<1>2. stage = "search" /\ heap' = heap \ {s}
  BY <1>1, MinimumFacts
<1>3. Labels /\ LabelsOK /\ s \in SearchStates /\ s.nodeId \in Nodes /\ s # NoState /\ s.distance \in Nat
  BY <1>1, <1>2, LabelFacts DEF SearchOrder, IInv
<1>4. /\ closed'[s.nodeId] = s
      /\ \A n \in Nodes : n # s.nodeId => closed'[n] = closed[n]
      /\ closed[s.nodeId] # NoState => s.distance < closed[s.nodeId].distance
  BY <1>1, <1>3 DEF LabelsOK, Labels
<1>5. ASSUME NEW t \in SearchStates, Walked(graph, closed, t)
      PROVE  Walked(graph, closed', t)
  <2>1. PICK A \in SUBSET (Nodes \ {t.nodeId}) :
          /\ \A m \in A : closed[m] # NoState /\ closed[m].distance <= t.distance
          /\ Cost(t) \in CostsTo(graph, t.nodeId)[Cardinality(A)][Start]
    BY <1>5 DEF Walked
  <2>2. ASSUME NEW m \in A PROVE closed'[m] # NoState /\ closed'[m].distance <= t.distance
    <3>1. closed[m] # NoState /\ closed[m].distance <= t.distance /\ m \in Nodes
      BY <2>1, <2>2
    <3>2. CASE m = s.nodeId
      <4>1. closed[m].distance \in Nat /\ t.distance \in Nat
        BY <1>5, <3>1, LabelFacts
      <4> QED
        BY <1>3, <1>4, <3>1, <3>2, <4>1
    <3>3. CASE m # s.nodeId
      BY <1>4, <3>1, <3>3
    <3> QED
      BY <3>2, <3>3
  <2> QED
    BY <2>1, <2>2 DEF Walked
<1>6. \A t \in heap : t \in SearchStates /\ Walked(graph, closed', t)
  BY <1>5, LabelFacts DEF Sound
<1>7. ASSUME NEW n \in Nodes, closed'[n] # NoState
      PROVE  Walked(graph, closed', closed'[n])
  <2>1. CASE n = s.nodeId
    BY <1>4, <1>6, <2>1
  <2>2. CASE n # s.nodeId
    <3>1. closed'[n] = closed[n] /\ closed[n] \in SearchStates
      BY <1>4, <1>7, <2>2, LabelFacts
    <3> QED
      BY <1>5, <1>7, <3>1 DEF Sound
  <2> QED
    BY <2>1, <2>2
<1> QED
  BY <1>1, <1>2, <1>6, <1>7 DEF Sound

LEMMA FollowEdgeSound ==
  ASSUME IInv, SearchOrder, Sound, FollowEdge
  PROVE  Sound'
<1>1. PICK e \in edges :
        /\ stage = "search"
        /\ IF e.to = current.previous THEN UNCHANGED <<heap, opened>>
           ELSE Encounter(Move(current, e))
        /\ UNCHANGED <<graph, closed>>
  BY DEF FollowEdge
<1> DEFINE m == Move(current, e)
           n == current.nodeId
<1>2. Labels /\ graph \in Graphs
  BY <1>1 DEF SearchOrder, IInv
<1>3. /\ current \in SearchStates /\ current # NoState /\ e \in graph /\ closed[n] = current
      /\ e.from = n
  BY <1>2, LabelFacts DEF Labels, OutEdges
<1>4. /\ n \in Nodes /\ e.to \in Nodes /\ e.time \in Nat /\ e.distance \in Nat
      /\ current.time \in Nat /\ current.distance \in Nat
  BY <1>2, <1>3, LabelFacts, EdgeFacts
<1>5. /\ m \in SearchStates /\ m.nodeId = e.to /\ m.time = current.time + e.time
      /\ m.distance = current.distance + e.distance
  BY <1>1, <1>3, MoveFacts
<1>6. heap' \subseteq heap \/ (heap' \subseteq heap \union {m} /\ ~DominatedByClosed(m))
  <2> HIDE DEF m
  <2>1. CASE UNCHANGED <<heap, opened>>
    BY <2>1
  <2>2. CASE Encounter(m)
    BY <1>5, <2>2, EncounterEffect
  <2> QED
    BY <1>1, <2>1, <2>2 DEF m
<1>7. ASSUME ~DominatedByClosed(m)
      PROVE  Walked(graph, closed, m)
  <2>1. PICK A \in SUBSET (Nodes \ {n}) :
          /\ \A q \in A : closed[q] # NoState /\ closed[q].distance <= current.distance
          /\ Cost(current) \in CostsTo(graph, n)[Cardinality(A)][Start]
    BY <1>3, <1>4 DEF Walked, Sound
  <2> DEFINE B == A \union {n}
  <2>2. ASSUME NEW q \in B
        PROVE  /\ closed[q] # NoState /\ closed[q].distance <= m.distance /\ q # e.to
    <3>1. closed[q] # NoState /\ closed[q].distance <= current.distance /\ q \in Nodes
      BY <1>3, <1>4, <2>1
    <3>2. closed[q].distance \in Nat
      BY <3>1, LabelFacts
    <3>3. closed[q].distance <= m.distance
      BY <1>4, <1>5, <3>1, <3>2
    <3>4. q # e.to
      BY <1>4, <1>5, <1>7, <3>1, <3>2, <3>3 DEF DominatedByClosed
    <3> QED
      BY <3>1, <3>3, <3>4
  <2>3. A \in SUBSET Nodes /\ B \in SUBSET Nodes /\ e.to \in Nodes \ B /\ n \in Nodes \ A
    BY <1>4, <2>1, <2>2
  <2> HIDE DEF B
  <2>4. /\ Cardinality(A) \in Nat /\ Cardinality(B) \in Nat /\ Cardinality(B) <= Longest
        /\ Cardinality(A \union {n}) = Cardinality(A) + 1
    BY <2>3, ClosedNodes
  <2>5. Cardinality(B) = Cardinality(A) + 1 /\ Cardinality(A) \in 0 .. Longest - 1
    BY <2>4, LongestIsNat DEF B
  <2>6. Plus(e, Cost(current)) \in CostsTo(graph, e.to)[Cardinality(B)][Start]
    BY <1>2, <1>3, <2>1, <2>5, SearchAssumption, CostsOfOneMoreAtTheEnd
  <2>7. Plus(e, Cost(current)) = Cost(m)
    BY <1>4, <1>5 DEF Plus, Cost
  <2>8. B \in SUBSET (Nodes \ {m.nodeId})
    BY <1>5, <2>3
  <2> HIDE DEF m
  <2> QED
    BY <1>5, <2>2, <2>6, <2>7, <2>8 DEF Walked
<1> HIDE DEF m
<1>8. \A t \in heap' : Walked(graph, closed, t)
  BY <1>6, <1>7 DEF Sound
<1> QED
  BY <1>1, <1>8 DEF Sound

LEMMA SoundStep ==
  ASSUME IInv, SearchOrder, Sound, [Next]_vars
  PROVE  Sound'
<1>1. CASE StartSearch
  BY <1>1, StartSearchSound
<1>2. CASE Close
  BY <1>2, CloseSound
<1>3. CASE FollowEdge
  BY <1>3, FollowEdgeSound
<1>4. CASE DropDominated \/ ReachGoal
  <2>1. heap' \subseteq heap /\ UNCHANGED <<graph, closed>>
    BY <1>4 DEF DropDominated, ReachGoal, TakeMinimum
  <2> QED
    BY <2>1 DEF Sound
<1>5. CASE \/ DijkstraStep \/ StartTimeHeuristic \/ StartDistanceHeuristic
           \/ Expanded \/ NoMoreLabels \/ UNCHANGED vars
  <2>1. UNCHANGED <<graph, heap, closed>>
    BY <1>5 DEF DijkstraStep, StartTimeHeuristic, StartDistanceHeuristic, Expanded, NoMoreLabels,
                vars, search, D!Next, D!CloseMinimum, D!FollowEdge, D!Expanded, D!BeginNext, D!Begin
  <2> QED
    BY <2>1 DEF Sound
<1> QED
  BY <1>1, <1>2, <1>3, <1>4, <1>5 DEF Next

(* The labels are the costs of paths in the graph.                         *)
THEOREM SoundHolds == Spec => []Sound
<1>1. Init => Sound
  BY DEF Init, Sound
<1> QED
  BY <1>1, SoundStep, Invariance, SearchOrderHolds, PTL DEF Spec
------------------------------------------------------------------------------
(* Every path to the goal is undercut by a solution, or by a label that is *)
(* not done with and can still be moved there.  What is refused is refused *)
(* for such a one: its way has fewer edges, or it stays when the other     *)
(* goes, so that nothing is refused for itself.                            *)
Solutions == {results[i] : i \in DOMAIN results}

Covered(found, labels, d, k) ==
  \/ \E r \in found : Dominated(d, r)
  \/ \E s \in labels : \E j \in 0 .. k - 1 : \E w \in Ways(j, s.nodeId) : Dominated(d, Plus(s, w))

AllCovered(found, labels, s, n) ==
  \A k \in 0 .. Longest : \A w \in Ways(k, n) : Covered(found, labels, Plus(s, w), k)

Complete ==
  /\ solution # NoState => solution \in Solutions
  /\ \A n \in Nodes : closed[n] # NoState => AllCovered(Solutions, Open, closed[n], n)
  /\ \A s \in heap : s.previous # NoState => AllCovered(Solutions, Open, s, s.previous)
  /\ current # NoState /\ current.previous # NoState =>
       AllCovered(Solutions, Open, current, current.previous)
  /\ \A k \in 0 .. Longest : \A d \in Ways(k, Start) : Covered(Solutions, Open, d, k + 1)

NothingLost == stage \in {"search", "done"} => Complete

LEMMA PlusIsCost ==
  ASSUME NEW s \in SearchStates, NEW w \in Costs
  PROVE  /\ Plus(s, w) \in Costs
         /\ Plus(s, w).time = s.time + w.time /\ Plus(s, w).distance = s.distance + w.distance
         /\ s.time \in Nat /\ s.distance \in Nat /\ w.time \in Nat /\ w.distance \in Nat
BY DEF SearchStates, Costs, Plus

LEMMA CoveredMore ==
  ASSUME graph \in Graphs, NEW found \in SUBSET SearchStates, NEW labels \in SUBSET SearchStates,
         NEW i \in Nat, NEW k \in Nat, i <= k, k <= Longest + 1,
         NEW c \in Costs, NEW d \in Costs, Dominated(d, c), Covered(found, labels, c, i)
  PROVE  Covered(found, labels, d, k)
<1>1. /\ c.time \in Nat /\ c.distance \in Nat /\ d.time \in Nat /\ d.distance \in Nat
      /\ d.time >= c.time /\ d.distance >= c.distance
  BY DEF Costs, Dominated
<1>2. CASE \E r \in found : Dominated(c, r)
  <2>1. PICK r \in found : Dominated(c, r)
    BY <1>2
  <2>2. r.time \in Nat /\ r.distance \in Nat
    BY DEF SearchStates
  <2>3. Dominated(d, r)
    BY <1>1, <2>1, <2>2 DEF Dominated
  <2> QED
    BY <2>3 DEF Covered
<1>3. CASE \E s \in labels : \E j \in 0 .. i - 1 : \E w \in Ways(j, s.nodeId) : Dominated(c, Plus(s, w))
  <2>1. PICK s \in labels : \E j \in 0 .. i - 1 : \E w \in Ways(j, s.nodeId) : Dominated(c, Plus(s, w))
    BY <1>3
  <2>2. PICK j \in 0 .. i - 1 : \E w \in Ways(j, s.nodeId) : Dominated(c, Plus(s, w))
    BY <2>1
  <2>3. PICK w \in Ways(j, s.nodeId) : Dominated(c, Plus(s, w))
    BY <2>2
  <2>4. j \in 0 .. k - 1 /\ j \in 0 .. Longest
    BY LongestIsNat
  <2>5. s \in SearchStates /\ s.nodeId \in Nodes /\ Goal \in Nodes
    BY SearchAssumption DEF SearchStates
  <2>6. w \in Costs
    BY <2>4, <2>5, CostsAreCosts DEF Ways
  <2>7. Plus(s, w).time \in Nat /\ Plus(s, w).distance \in Nat
    BY <2>5, <2>6, PlusIsCost DEF Costs
  <2>8. Dominated(d, Plus(s, w))
    BY <1>1, <2>3, <2>7 DEF Dominated
  <2> QED
    BY <2>4, <2>8 DEF Covered
<1> QED
  BY <1>2, <1>3 DEF Covered

LEMMA CoverKept ==
  ASSUME graph \in Graphs,
         NEW found \in SUBSET SearchStates, NEW labels \in SUBSET SearchStates,
         NEW more \in SUBSET SearchStates, NEW left \in SUBSET SearchStates,
         found \subseteq more,
         \A s \in labels \ left : \A j \in 0 .. Longest : \A w \in Ways(j, s.nodeId) :
            \/ Covered(found, labels, Plus(s, w), j)
            \/ Covered(more, left, Plus(s, w), j + 1),
         NEW k \in 0 .. Longest + 1, NEW d \in Costs, Covered(found, labels, d, k)
  PROVE  Covered(more, left, d, k)
<1> DEFINE Good(i) == \A c \in Costs : Covered(found, labels, c, i) => Covered(more, left, c, i)
           S == {i \in 0 .. Longest + 1 : ~Good(i)}
<1>1. SUFFICES ASSUME S # {} PROVE FALSE
  OBVIOUS
<1>2. PICK i \in S : \A y \in S : i <= y
  <2>1. S \in SUBSET Nat
    BY LongestIsNat
  <2> HIDE DEF S
  <2> QED
    BY <1>1, <2>1, NatMinimum
<1>3. PICK c \in Costs : Covered(found, labels, c, i) /\ ~Covered(more, left, c, i)
  BY <1>2
<1>4. i \in Nat /\ i <= Longest + 1 /\ Longest \in Nat
  BY <1>2, LongestIsNat
<1>5. PICK s \in labels : \E j \in 0 .. i - 1 : \E w \in Ways(j, s.nodeId) : Dominated(c, Plus(s, w))
  BY <1>3 DEF Covered
<1>6. PICK j \in 0 .. i - 1 : \E w \in Ways(j, s.nodeId) : Dominated(c, Plus(s, w))
  BY <1>5
<1>7. PICK w \in Ways(j, s.nodeId) : Dominated(c, Plus(s, w))
  BY <1>6
<1>8. s \notin left
  BY <1>3, <1>6, <1>7 DEF Covered
<1>9. j \in 0 .. Longest /\ j \in 0 .. Longest + 1 /\ j \in Nat /\ j + 1 \in Nat /\ j + 1 <= i /\ j <= i
      /\ j \notin S
  BY <1>2, <1>4
<1>10. s.nodeId \in Nodes /\ Goal \in Nodes
  BY SearchAssumption DEF SearchStates
<1>11. w \in Costs
  BY <1>9, <1>10, CostsAreCosts DEF Ways
<1>12. Plus(s, w) \in Costs
  BY <1>11, PlusIsCost
<1>13. CASE Covered(found, labels, Plus(s, w), j)
  <2>1. Covered(more, left, Plus(s, w), j)
    BY <1>9, <1>12, <1>13
  <2> QED
    BY <1>3, <1>4, <1>7, <1>9, <1>12, <2>1, CoveredMore
<1>14. CASE Covered(more, left, Plus(s, w), j + 1)
  BY <1>3, <1>4, <1>7, <1>9, <1>12, <1>14, CoveredMore
<1> QED
  BY <1>7, <1>8, <1>9, <1>13, <1>14

LEMMA WaysFacts ==
  ASSUME IInv
  PROVE  /\ graph \in Graphs /\ Start \in Nodes /\ Goal \in Nodes
         /\ \A k \in 0 .. Longest : \A n \in Nodes : \A w \in Ways(k, n) : w \in Costs
         /\ Solutions \in SUBSET SearchStates
<1>1. graph \in Graphs /\ Start \in Nodes /\ Goal \in Nodes /\ results \in Seq(SearchStates)
  BY SearchAssumption DEF IInv, LabelsOK
<1>2. \A k \in 0 .. Longest : \A n \in Nodes : \A w \in Ways(k, n) : w \in Costs
  BY <1>1, CostsAreCosts DEF Ways
<1>3. \A i \in DOMAIN results : results[i] \in SearchStates
  BY <1>1, ElementOfSeq
<1> QED
  BY <1>1, <1>2, <1>3 DEF Solutions

(* What was covered stays covered, when the labels that go are.            *)
LEMMA CompleteKept ==
  ASSUME IInv, Open \in SUBSET SearchStates, Complete,
         Solutions \subseteq Solutions',
         Solutions' \in SUBSET SearchStates, Open' \in SUBSET SearchStates,
         \A s \in Open \ Open' : \A j \in 0 .. Longest : \A w \in Ways(j, s.nodeId) :
            \/ Covered(Solutions, Open, Plus(s, w), j)
            \/ Covered(Solutions', Open', Plus(s, w), j + 1)
  PROVE  /\ \A s \in SearchStates : \A n \in Nodes :
              AllCovered(Solutions, Open, s, n) => AllCovered(Solutions', Open', s, n)
         /\ \A k \in 0 .. Longest : \A d \in Ways(k, Start) : Covered(Solutions', Open', d, k + 1)
<1>1. /\ graph \in Graphs /\ Start \in Nodes
      /\ \A k \in 0 .. Longest : \A n \in Nodes : \A w \in Ways(k, n) : w \in Costs
      /\ Solutions \in SUBSET SearchStates /\ Longest \in Nat
  BY WaysFacts, LongestIsNat
<1>2. ASSUME NEW k \in 0 .. Longest + 1, NEW d \in Costs, Covered(Solutions, Open, d, k)
      PROVE  Covered(Solutions', Open', d, k)
  <2> DEFINE F == Solutions
             L == Open
             G == Solutions'
             M == Open'
  <2>1. /\ F \in SUBSET SearchStates /\ L \in SUBSET SearchStates
        /\ G \in SUBSET SearchStates /\ M \in SUBSET SearchStates /\ F \subseteq G
        /\ Covered(F, L, d, k)
        /\ \A s \in L \ M : \A j \in 0 .. Longest : \A w \in Ways(j, s.nodeId) :
              Covered(F, L, Plus(s, w), j) \/ Covered(G, M, Plus(s, w), j + 1)
    BY <1>1, <1>2
  <2> HIDE DEF F, L, G, M
  <2>2. Covered(G, M, d, k)
    BY <1>1, <2>1, CoverKept
  <2> QED
    BY <2>2 DEF G, M
<1>3. ASSUME NEW s \in SearchStates, NEW n \in Nodes, AllCovered(Solutions, Open, s, n),
             NEW k \in 0 .. Longest, NEW w \in Ways(k, n)
      PROVE  Covered(Solutions', Open', Plus(s, w), k)
  <2>1. Covered(Solutions, Open, Plus(s, w), k)
    BY <1>3 DEF AllCovered
  <2>2. Plus(s, w) \in Costs /\ k \in 0 .. Longest + 1
    BY <1>1, PlusIsCost
  <2> QED
    BY <1>2, <2>1, <2>2
<1>4. ASSUME NEW k \in 0 .. Longest, NEW d \in Ways(k, Start)
      PROVE  Covered(Solutions', Open', d, k + 1)
  <2>1. Covered(Solutions, Open, d, k + 1)
    BY DEF Complete
  <2>2. d \in Costs /\ k + 1 \in 0 .. Longest + 1
    BY <1>1
  <2> QED
    BY <1>2, <2>1, <2>2
<1> QED
  BY <1>3, <1>4 DEF AllCovered

LEMMA CompleteNext ==
  ASSUME graph' = graph, solution' # NoState => solution' \in Solutions',
         \A n \in Nodes : closed'[n] # NoState => AllCovered(Solutions', Open', closed'[n], n),
         \A s \in heap' : s.previous # NoState => AllCovered(Solutions', Open', s, s.previous),
         current' # NoState /\ current'.previous # NoState =>
           AllCovered(Solutions', Open', current', current'.previous),
         \A k \in 0 .. Longest : \A d \in Ways(k, Start) : Covered(Solutions', Open', d, k + 1)
  PROVE  Complete'
<1>1. \A k, n : Ways(k, n)' = Ways(k, n)
  BY DEF Ways
<1> QED
  BY <1>1 DEF Complete, AllCovered, Covered

(* A solution that dominates a label undercuts all that can become of it.  *)
LEMMA UndercutBySolution ==
  ASSUME IInv, Phases, SearchOrder, stage \in {"search", "done"}, Complete,
         NEW s \in Open, Estimated(s), DominatedBySolution(s),
         NEW j \in 0 .. Longest, NEW w \in Ways(j, s.nodeId)
  PROVE  Covered(Solutions, Open, Plus(s, w), j)
<1>1. s \in SearchStates /\ s.nodeId \in Nodes
  BY ComingFacts, LabelFacts
<1>2. /\ w \in Costs /\ Useful(s.nodeId)
      /\ heuristic["time"][s.nodeId] <= w.time /\ heuristic["distance"][s.nodeId] <= w.distance
      /\ heuristic["time"][s.nodeId] \in Nat /\ heuristic["distance"][s.nodeId] \in Nat
  BY <1>1, EstimateFacts
<1>3. /\ Plus(s, w).time = s.time + w.time /\ Plus(s, w).distance = s.distance + w.distance
      /\ s.time \in Nat /\ s.distance \in Nat /\ w.time \in Nat /\ w.distance \in Nat
  BY <1>1, <1>2, PlusIsCost
<1>4. /\ EstimatedGoalTime(s) = s.time + s.timeHeuristic /\ s.timeHeuristic \in Nat
      /\ EstimatedGoalDistance(s) = s.distance + s.distanceHeuristic /\ s.distanceHeuristic \in Nat
  BY <1>1, LabelFacts
<1>5. s.timeHeuristic <= w.time /\ s.distanceHeuristic <= w.distance
  BY <1>2, <1>3 DEF Estimated
<1>6. /\ solution # NoState /\ solution \in SearchStates /\ solution \in Solutions
      /\ EstimatedGoalDistance(s) >= EstimatedGoalDistance(solution)
      /\ solution.time <= EstimatedGoalTime(s)
  BY <1>2, LabelFacts DEF DominatedBySolution, Complete, SearchOrder, Timely
<1>7. /\ EstimatedGoalDistance(solution) = solution.distance + solution.distanceHeuristic
      /\ solution.time \in Nat /\ solution.distance \in Nat /\ solution.distanceHeuristic \in Nat
  BY <1>6, LabelFacts
<1>8. Dominated(Plus(s, w), solution)
  BY <1>3, <1>4, <1>5, <1>6, <1>7 DEF Dominated
<1> QED
  BY <1>6, <1>8 DEF Covered
------------------------------------------------------------------------------
LEMMA DropComplete ==
  ASSUME IInv, Phases, SearchOrder, Complete, DropDominated
  PROVE  Complete'
<1>1. PICK s \in heap :
        /\ TakeMinimum(s) /\ DominatedBySolution(s)
        /\ UNCHANGED <<graph, closed, solution, results, current, edges>>
  BY DEF DropDominated
<1>2. stage = "search" /\ current = NoState /\ edges = {} /\ heap' = heap \ {s}
  BY <1>1, MinimumFacts
<1>3. /\ Open = heap /\ Open' = heap \ {s} /\ Open \in SUBSET SearchStates
      /\ Solutions' = Solutions /\ Solutions \in SUBSET SearchStates
  BY <1>1, <1>2, ComingFacts, WaysFacts DEF Open, Coming, Solutions
<1>4. Estimated(s)
  BY <1>2 DEF SearchOrder, Labels
<1>5. \A t \in Open \ Open' : \A j \in 0 .. Longest : \A w \in Ways(j, t.nodeId) :
         Covered(Solutions, Open, Plus(t, w), j) \/ Covered(Solutions', Open', Plus(t, w), j + 1)
  BY <1>1, <1>2, <1>3, <1>4, UndercutBySolution
<1>6. Open' \in SUBSET SearchStates
  BY <1>3
<1>7. /\ \A t \in SearchStates : \A n \in Nodes :
           AllCovered(Solutions, Open, t, n) => AllCovered(Solutions', Open', t, n)
      /\ \A k \in 0 .. Longest : \A d \in Ways(k, Start) : Covered(Solutions', Open', d, k + 1)
  BY <1>3, <1>5, <1>6, CompleteKept
<1>8. \A n \in Nodes : closed'[n] # NoState => AllCovered(Solutions', Open', closed'[n], n)
  BY <1>1, <1>7, LabelFacts DEF Complete
<1>9. \A t \in heap' : t.previous # NoState => AllCovered(Solutions', Open', t, t.previous)
  <2>1. \A t \in heap : t \in SearchStates /\ (t.previous # NoState => t.previous \in Nodes)
    BY LabelFacts DEF SearchStates
  <2> QED
    BY <1>2, <1>7, <2>1 DEF Complete
<1>10. current' = NoState /\ (solution' # NoState => solution' \in Solutions')
  BY <1>1, <1>2, <1>3 DEF Complete
<1> QED
  BY <1>1, <1>7, <1>8, <1>9, <1>10, CompleteNext

LEMMA SolutionsGrow ==
  ASSUME IInv, NEW s \in SearchStates, results' = Append(results, s)
  PROVE  Solutions' = Solutions \union {s}
<1>1. results \in Seq(SearchStates)
  BY DEF IInv, LabelsOK
<1>2. /\ Len(results) \in Nat /\ DOMAIN results = 1 .. Len(results)
      /\ DOMAIN results' = 1 .. Len(results) + 1 /\ results'[Len(results) + 1] = s
      /\ \A i \in 1 .. Len(results) : results'[i] = results[i]
  BY <1>1, AppendProperties, LenProperties
<1>3. \A i \in 1 .. Len(results) + 1 : i \in 1 .. Len(results) \/ i = Len(results) + 1
  BY <1>2
<1>4. \A i \in 1 .. Len(results) : i \in 1 .. Len(results) + 1
  BY <1>2
<1>5. Len(results) + 1 \in 1 .. Len(results) + 1
  BY <1>2
<1>6. \A r : r \in Solutions' <=> \E i \in 1 .. Len(results) + 1 : r = results'[i]
  BY <1>2 DEF Solutions
<1>7. \A r : r \in Solutions <=> \E i \in 1 .. Len(results) : r = results[i]
  BY <1>2 DEF Solutions
<1>8. \A r : r \in Solutions' <=> r \in Solutions \/ r = s
  BY <1>2, <1>3, <1>4, <1>5, <1>6, <1>7
<1> QED
  BY <1>8

LEMMA ReachGoalComplete ==
  ASSUME IInv, Phases, SearchOrder, Complete, ReachGoal
  PROVE  Complete'
<1>1. PICK s \in heap :
        /\ TakeMinimum(s) /\ s.nodeId = Goal
        /\ results' = Append(results, s) /\ solution' = s
        /\ UNCHANGED <<graph, closed, current, edges>>
  BY DEF ReachGoal, IsGoal
<1>2. stage = "search" /\ current = NoState /\ edges = {} /\ heap' = heap \ {s}
  BY <1>1, MinimumFacts
<1>3. /\ Open = heap /\ Open' = heap \ {s} /\ Open \in SUBSET SearchStates
      /\ Solutions' = Solutions \union {s} /\ Solutions \in SUBSET SearchStates
      /\ s \in SearchStates
  <2>1. s \in SearchStates
    BY <1>1, LabelFacts
  <2> QED
    BY <1>1, <1>2, <2>1, ComingFacts, WaysFacts, SolutionsGrow DEF Open, Coming
<1>4. \A t \in Open \ Open' : \A j \in 0 .. Longest : \A w \in Ways(j, t.nodeId) :
         Covered(Solutions, Open, Plus(t, w), j) \/ Covered(Solutions', Open', Plus(t, w), j + 1)
  <2> SUFFICES ASSUME NEW j \in 0 .. Longest, NEW w \in Ways(j, s.nodeId)
               PROVE  Covered(Solutions', Open', Plus(s, w), j + 1)
    BY <1>3
  <2>1. w \in Costs
    BY <1>1, WaysFacts
  <2>2. Dominated(Plus(s, w), s)
    BY <1>3, <2>1, PlusIsCost DEF Dominated
  <2> QED
    BY <1>3, <2>2 DEF Covered
<1>5. Open' \in SUBSET SearchStates /\ Solutions' \in SUBSET SearchStates /\ Solutions \subseteq Solutions'
  BY <1>3
<1>6. /\ \A t \in SearchStates : \A n \in Nodes :
           AllCovered(Solutions, Open, t, n) => AllCovered(Solutions', Open', t, n)
      /\ \A k \in 0 .. Longest : \A d \in Ways(k, Start) : Covered(Solutions', Open', d, k + 1)
  BY <1>3, <1>4, <1>5, CompleteKept
<1>7. \A n \in Nodes : closed'[n] # NoState => AllCovered(Solutions', Open', closed'[n], n)
  BY <1>1, <1>6, LabelFacts DEF Complete
<1>8. \A t \in heap' : t.previous # NoState => AllCovered(Solutions', Open', t, t.previous)
  <2>1. \A t \in heap : t \in SearchStates /\ (t.previous # NoState => t.previous \in Nodes)
    BY LabelFacts DEF SearchStates
  <2> QED
    BY <1>2, <1>6, <2>1 DEF Complete
<1>9. current' = NoState /\ (solution' # NoState => solution' \in Solutions')
  BY <1>1, <1>2, <1>3
<1> QED
  BY <1>1, <1>6, <1>7, <1>8, <1>9, CompleteNext

(* A closed label is covered by its children, whose ways are shorter.      *)
LEMMA CloseComplete ==
  ASSUME IInv, Phases, SearchOrder, Complete, Close
  PROVE  Complete'
<1>1. PICK s \in heap :
        /\ TakeMinimum(s) /\ s.nodeId # Goal
        /\ closed' = [closed EXCEPT ![s.nodeId] = s] /\ current' = s
        /\ edges' = OutEdges(graph, s.nodeId)
        /\ UNCHANGED <<graph, heuristic, solution, results>>
  BY DEF Close, IsGoal
<1>2. stage = "search" /\ current = NoState /\ edges = {} /\ heap' = heap \ {s}
  BY <1>1, MinimumFacts
<1>3. /\ s \in SearchStates /\ s.nodeId \in Nodes /\ graph \in Graphs /\ LabelsOK
      /\ Open = heap /\ Open \in SUBSET SearchStates
      /\ Solutions' = Solutions /\ Solutions \in SUBSET SearchStates
  BY <1>1, <1>2, LabelFacts, ComingFacts, WaysFacts DEF Solutions, IInv
<1>4. /\ Open' = (heap \ {s}) \union {Move(s, e) : e \in OutEdges(graph, s.nodeId)}
      /\ Open' \in SUBSET SearchStates
  <2>1. Coming' = {Move(s, e) : e \in OutEdges(graph, s.nodeId)}
    BY <1>1 DEF Coming, Move
  <2>2. \A e \in OutEdges(graph, s.nodeId) : Move(s, e) \in SearchStates
    BY <1>2, <1>3, MoveFacts DEF OutEdges
  <2> QED
    BY <1>2, <1>3, <2>1, <2>2 DEF Open
<1>5. AllCovered(Solutions', Open', s, s.nodeId)
  <2> SUFFICES ASSUME NEW k \in 0 .. Longest, NEW w \in Ways(k, s.nodeId)
               PROVE  Covered(Solutions', Open', Plus(s, w), k)
    BY DEF AllCovered
  <2>1. k # 0
    BY <1>1, <1>3, CostsOfNoEdge DEF Ways
  <2>2. k \in 1 .. Longest /\ k - 1 \in 0 .. k - 1 /\ k - 1 \in 0 .. Longest
    BY <2>1, LongestIsNat
  <2>3. PICK e \in graph : e.from = s.nodeId /\ \E c \in Ways(k - 1, e.to) : w = Plus(e, c)
    BY <1>3, <2>2, CostsOfOneMore DEF Ways
  <2>4. PICK c \in Ways(k - 1, e.to) : w = Plus(e, c)
    BY <2>3
  <2>5. e.to \in Nodes /\ e.time \in Nat /\ e.distance \in Nat
    BY <1>3, EdgeFacts
  <2>6. c \in Costs
    BY <2>2, <2>5, WaysFacts
  <2> DEFINE m == Move(s, e)
  <2>7. /\ m \in SearchStates /\ m.nodeId = e.to /\ m.time = s.time + e.time
        /\ m.distance = s.distance + e.distance /\ m \in Open'
    BY <1>2, <1>3, <1>4, <2>3, MoveFacts DEF OutEdges
  <2> HIDE DEF m
  <2>8. /\ s.time \in Nat /\ s.distance \in Nat /\ c.time \in Nat /\ c.distance \in Nat
        /\ Plus(m, c).time = s.time + e.time + c.time
        /\ Plus(m, c).distance = s.distance + e.distance + c.distance
    BY <1>3, <2>5, <2>6, <2>7, PlusIsCost
  <2>9. /\ Plus(s, w).time = s.time + (e.time + c.time)
        /\ Plus(s, w).distance = s.distance + (e.distance + c.distance)
    BY <2>4 DEF Plus
  <2>10. Dominated(Plus(s, w), Plus(m, c))
    BY <2>5, <2>8, <2>9 DEF Dominated
  <2> QED
    BY <2>2, <2>4, <2>7, <2>10 DEF Covered
<1>6. \A t \in Open \ Open' : \A j \in 0 .. Longest : \A w \in Ways(j, t.nodeId) :
         Covered(Solutions, Open, Plus(t, w), j) \/ Covered(Solutions', Open', Plus(t, w), j + 1)
  <2> SUFFICES ASSUME NEW j \in 0 .. Longest, NEW w \in Ways(j, s.nodeId)
               PROVE  Covered(Solutions', Open', Plus(s, w), j + 1)
    BY <1>3, <1>4
  <2>1. Covered(Solutions', Open', Plus(s, w), j)
    BY <1>5 DEF AllCovered
  <2>2. \A i \in 0 .. j - 1 : i \in 0 .. j + 1 - 1
    BY LongestIsNat
  <2> QED
    BY <2>1, <2>2 DEF Covered
<1>7. /\ \A t \in SearchStates : \A n \in Nodes :
           AllCovered(Solutions, Open, t, n) => AllCovered(Solutions', Open', t, n)
      /\ \A k \in 0 .. Longest : \A d \in Ways(k, Start) : Covered(Solutions', Open', d, k + 1)
  BY <1>3, <1>4, <1>6, CompleteKept
<1>8. \A n \in Nodes : closed'[n] # NoState => AllCovered(Solutions', Open', closed'[n], n)
  <2> SUFFICES ASSUME NEW n \in Nodes, closed'[n] # NoState
               PROVE  AllCovered(Solutions', Open', closed'[n], n)
    OBVIOUS
  <2>1. closed'[s.nodeId] = s /\ (n # s.nodeId => closed'[n] = closed[n])
    BY <1>1, <1>3 DEF LabelsOK
  <2>2. CASE n = s.nodeId
    BY <1>5, <2>1, <2>2
  <2>3. CASE n # s.nodeId
    BY <1>7, <2>1, <2>3, LabelFacts DEF Complete
  <2> QED
    BY <2>2, <2>3
<1>9. \A t \in heap : t.previous # NoState => AllCovered(Solutions', Open', t, t.previous)
  <2>1. \A t \in heap : t \in SearchStates /\ (t.previous # NoState => t.previous \in Nodes)
    BY LabelFacts DEF SearchStates
  <2> QED
    BY <1>7, <2>1 DEF Complete
<1>10. solution' # NoState => solution' \in Solutions'
  BY <1>1, <1>3 DEF Complete
<1> QED
  BY <1>1, <1>2, <1>7, <1>8, <1>9, <1>10, CompleteNext

(* What the ways of a label can be covered by, when it does no better than *)
(* another label with the same ways.                                       *)
LEMMA NoBetterThan ==
  ASSUME IInv, NEW found \in SUBSET SearchStates, NEW labels \in SUBSET SearchStates,
         NEW s \in SearchStates, NEW t \in SearchStates, Dominated(s, t),
         NEW n \in Nodes, AllCovered(found, labels, t, n)
  PROVE  AllCovered(found, labels, s, n)
<1> SUFFICES ASSUME NEW k \in 0 .. Longest, NEW w \in Ways(k, n)
             PROVE  Covered(found, labels, Plus(s, w), k)
  BY DEF AllCovered
<1>1. w \in Costs /\ graph \in Graphs
  BY WaysFacts
<1>2. Covered(found, labels, Plus(t, w), k)
  BY DEF AllCovered
<1>3. k \in Nat /\ k <= k /\ k <= Longest + 1
  BY LongestIsNat
<1>4. Plus(s, w) \in Costs /\ Plus(t, w) \in Costs /\ Dominated(Plus(s, w), Plus(t, w))
  BY <1>1, PlusIsCost DEF Dominated
<1> QED
  BY <1>1, <1>2, <1>3, <1>4, CoveredMore

LEMMA FollowEdgeComplete ==
  ASSUME IInv, Phases, SearchOrder, Complete, FollowEdge
  PROVE  Complete'
<1>1. PICK e \in edges :
        /\ stage = "search" /\ edges' = edges \ {e}
        /\ IF e.to = current.previous THEN UNCHANGED <<heap, opened>>
           ELSE Encounter(Move(current, e))
        /\ UNCHANGED <<graph, heuristic, closed, solution, results, current>>
  BY DEF FollowEdge
<1> DEFINE m == Move(current, e)
           F == Solutions
           L == Open
           M == Open'
<1>2. Labels /\ OneObjectiveIsEnough /\ graph \in Graphs
  BY <1>1, OrderedLabelsAreEnough DEF SearchOrder, IInv
<1>3. /\ current \in SearchStates /\ current # NoState /\ e \in graph
      /\ closed[current.nodeId] = current /\ current.nodeId \in Nodes /\ e.to \in Nodes
  BY <1>2, LabelFacts, EdgeFacts DEF Labels
<1>4. /\ m \in SearchStates /\ m.nodeId = e.to /\ m.previous = current.nodeId
      /\ m.time = current.time + e.time /\ m.distance = current.distance + e.distance
      /\ m.timeHeuristic = heuristic["time"][e.to]
      /\ m.distanceHeuristic = heuristic["distance"][e.to] /\ m \in Coming
  BY <1>1, <1>3, MoveFacts DEF Coming
<1>5. Dominated(m, current)
  BY <1>2, <1>3, <1>4, EdgeFacts, LabelFacts DEF Dominated
<1> HIDE DEF m
<1>6. \/ heap' = heap /\ e.to = current.previous
      \/ /\ heap' = heap
         /\ \/ DominatedBySolution(m)
            \/ DominatedByClosed(m)
            \/ \E t \in heap : t.nodeId = m.nodeId /\ Dominated(m, t)
      \/ /\ m \in heap' /\ heap' \subseteq heap \union {m}
         /\ \A t \in heap \ heap' : t.nodeId = m.nodeId /\ Dominated(t, m)
  <2>1. CASE e.to = current.previous
    BY <1>1, <2>1
  <2>2. CASE Encounter(m)
    BY <1>4, <2>2, EncounterEffect
  <2> QED
    BY <1>1, <2>1, <2>2 DEF m
<1>7. \A s \in Coming : s = m \/ s \in Coming'
  <2> SUFFICES ASSUME NEW d \in edges PROVE Move(current, d) = m \/ Move(current, d) \in Coming'
    BY DEF Coming
  <2>1. CASE d = e
    BY <2>1 DEF m
  <2>2. CASE d # e
    <3>1. d \in edges' /\ current' = current /\ heuristic' = heuristic
      BY <1>1, <2>2
    <3> QED
      BY <3>1 DEF Coming, Move
  <2> QED
    BY <2>1, <2>2
<1>8. Coming' \subseteq Coming
  BY <1>1, ComingKept
<1>9. /\ F \in SUBSET SearchStates /\ L \in SUBSET SearchStates /\ M \in SUBSET SearchStates
      /\ Solutions' = F
  <2>1. Open \in SUBSET SearchStates /\ Solutions \in SUBSET SearchStates
    BY <1>1, ComingFacts, WaysFacts
  <2>2. heap' \subseteq heap \union {m}
    BY <1>6
  <2>3. Open' \in SUBSET SearchStates
    BY <1>4, <1>8, <2>1, <2>2 DEF Open
  <2>4. Solutions' = Solutions
    BY <1>1 DEF Solutions
  <2> QED
    BY <2>1, <2>3, <2>4
<1>10. heap \subseteq L /\ heap' \subseteq M /\ m \in L
       /\ \A s \in L \ M : s = m \/ s \in heap \ heap'
  BY <1>4, <1>7 DEF Open
<1>11. /\ \A n \in Nodes : closed[n] # NoState => AllCovered(F, L, closed[n], n)
       /\ \A s \in heap : s.previous # NoState => AllCovered(F, L, s, s.previous)
       /\ current.previous # NoState => AllCovered(F, L, current, current.previous)
  BY <1>3 DEF Complete
<1>12. DominatedBySolution(m) =>
         \A j \in 0 .. Longest : \A w \in Ways(j, m.nodeId) : Covered(F, L, Plus(m, w), j)
  <2>1. Estimated(m)
    BY <1>4 DEF Estimated
  <2>2. m \in Open
    BY <1>10
  <2> QED
    BY <1>1, <2>1, <2>2, UndercutBySolution
<1>13. DominatedByClosed(m) =>
         \A j \in 0 .. Longest : \A w \in Ways(j, m.nodeId) : Covered(F, L, Plus(m, w), j)
  <2> SUFFICES ASSUME DominatedByClosed(m), NEW j \in 0 .. Longest, NEW w \in Ways(j, m.nodeId)
               PROVE  Covered(F, L, Plus(m, w), j)
    OBVIOUS
  <2> DEFINE c == closed[m.nodeId]
  <2>1. /\ closed[m.nodeId] # NoState /\ c \in SearchStates /\ m.distance >= c.distance
        /\ m.nodeId \in Nodes /\ Goal \in Nodes
    BY <1>3, <1>4, LabelFacts, SearchAssumption DEF DominatedByClosed
  <2>2. Reaches(graph, m.nodeId, Goal)
    BY <2>1, UsefulIs DEF Useful
  <2>3. m.time >= c.time
    BY <1>2, <1>4, <2>2 DEF OneObjectiveIsEnough, Coming
  <2>4. AllCovered(F, L, c, m.nodeId)
    BY <1>11, <2>1
  <2> HIDE DEF c, F, L
  <2>5. AllCovered(F, L, m, m.nodeId)
    BY <1>4, <1>9, <2>1, <2>3, <2>4, NoBetterThan DEF Dominated
  <2> QED
    BY <2>5 DEF AllCovered
<1>14. e.to = current.previous =>
         \A j \in 0 .. Longest : \A w \in Ways(j, m.nodeId) : Covered(F, L, Plus(m, w), j)
  <2> SUFFICES ASSUME e.to = current.previous PROVE AllCovered(F, L, m, m.nodeId)
    BY DEF AllCovered
  <2>1. AllCovered(F, L, current, m.nodeId) /\ m.nodeId \in Nodes
    BY <1>3, <1>4, <1>11, SearchAssumption
  <2> HIDE DEF F, L
  <2> QED
    BY <1>3, <1>4, <1>5, <1>9, <2>1, NoBetterThan
<1>15. ASSUME NEW s \in SearchStates, NEW t \in M, t \in SearchStates, t.nodeId = s.nodeId,
              Dominated(s, t), NEW j \in 0 .. Longest, NEW w \in Ways(j, s.nodeId)
       PROVE  Covered(F, M, Plus(s, w), j + 1)
  <2>1. w \in Costs
    <3>1. s.nodeId \in Nodes
      BY LabelFacts
    <3> QED
      BY <3>1, WaysFacts
  <2>2. Dominated(Plus(s, w), Plus(t, w))
    BY <1>15, <2>1, PlusIsCost DEF Dominated
  <2>3. j \in 0 .. j + 1 - 1
    BY LongestIsNat
  <2> HIDE DEF F, M
  <2> QED
    BY <1>15, <2>2, <2>3 DEF Covered
<1>16. ASSUME NEW s \in L \ M, NEW j \in 0 .. Longest, NEW w \in Ways(j, s.nodeId)
       PROVE  Covered(F, L, Plus(s, w), j) \/ Covered(F, M, Plus(s, w), j + 1)
  <2>1. CASE s = m
    <3>1. m \notin heap' /\ s \in SearchStates
      BY <1>4, <1>10, <2>1
    <3>2. CASE \E t \in heap : heap' = heap /\ t.nodeId = m.nodeId /\ Dominated(m, t)
      <4>1. PICK t \in heap : heap' = heap /\ t.nodeId = m.nodeId /\ Dominated(m, t)
        BY <3>2
      <4>2. t \in M /\ t \in SearchStates
        BY <1>10, <4>1, LabelFacts
      <4> HIDE DEF F, L, M
      <4> QED
        BY <1>15, <2>1, <3>1, <4>1, <4>2
    <3> HIDE DEF F, L, M
    <3> QED
      BY <1>6, <1>12, <1>13, <1>14, <2>1, <3>1, <3>2
  <2>2. CASE s \in heap \ heap'
    <3>1. m \in M /\ s.nodeId = m.nodeId /\ Dominated(s, m) /\ s \in SearchStates
      BY <1>6, <1>10, <2>2, LabelFacts
    <3> HIDE DEF F, L, M
    <3> QED
      BY <1>4, <1>15, <3>1
  <2> QED
    BY <1>10, <2>1, <2>2
<1>17. /\ \A t \in SearchStates : \A n \in Nodes : AllCovered(F, L, t, n) => AllCovered(F, M, t, n)
       /\ \A k \in 0 .. Longest : \A d \in Ways(k, Start) : Covered(F, M, d, k + 1)
  BY <1>9, <1>16, CompleteKept
<1>18. \A n \in Nodes : closed'[n] # NoState => AllCovered(Solutions', Open', closed'[n], n)
  <2> SUFFICES ASSUME NEW n \in Nodes, closed[n] # NoState PROVE AllCovered(F, M, closed[n], n)
    BY <1>1, <1>9
  <2> HIDE DEF F, L, M
  <2> QED
    BY <1>11, <1>17, LabelFacts
<1>19. \A s \in heap' : s.previous # NoState => AllCovered(Solutions', Open', s, s.previous)
  <2> SUFFICES ASSUME NEW s \in heap', s.previous # NoState PROVE AllCovered(F, M, s, s.previous)
    BY <1>9
  <2> HIDE DEF F, L, M
  <2>1. CASE s \in heap
    <3>1. s \in SearchStates /\ s.previous \in Nodes
      BY <2>1, LabelFacts DEF SearchStates
    <3> QED
      BY <1>11, <1>17, <2>1, <3>1
  <2>2. CASE s = m
    <3>1. AllCovered(F, L, m, current.nodeId)
      BY <1>3, <1>4, <1>5, <1>9, <1>11, NoBetterThan
    <3> QED
      BY <1>3, <1>4, <1>17, <2>2, <3>1
  <2> QED
    BY <1>6, <2>1, <2>2
<1>20. current' # NoState /\ current'.previous # NoState =>
         AllCovered(Solutions', Open', current', current'.previous)
  <2> SUFFICES ASSUME current.previous # NoState PROVE AllCovered(F, M, current, current.previous)
    BY <1>1, <1>9
  <2>1. current.previous \in Nodes
    BY <1>3 DEF SearchStates
  <2> HIDE DEF F, L, M
  <2> QED
    BY <1>3, <1>11, <1>17, <2>1
<1>21. solution' # NoState => solution' \in Solutions'
  BY <1>1, <1>9 DEF Complete
<1> QED
  BY <1>1, <1>9, <1>17, <1>18, <1>19, <1>20, <1>21, CompleteNext

LEMMA StartSearchComplete ==
  ASSUME IInv, SearchOrder, StartSearch
  PROVE  Complete'
<1> DEFINE s == [nodeId |-> Start, time |-> 0, distance |-> 0, timeHeuristic |-> 0,
                 distanceHeuristic |-> 0, previous |-> NoState]
<1>1. /\ stage = "distance" /\ Encounter(s)
      /\ UNCHANGED <<graph, closed, solution, results, current, edges>>
  BY DEF StartSearch
<1>2. /\ s \in SearchStates /\ s.nodeId = Start /\ s.time = 0 /\ s.distance = 0
      /\ s.previous = NoState
  BY SearchAssumption DEF SearchStates
<1> HIDE DEF s
<1>3. /\ heap = {} /\ closed = [n \in Nodes |-> NoState] /\ solution = NoState
      /\ current = NoState
  BY <1>1 DEF SearchOrder, NotBegun
<1>4. s.nodeId \in Nodes
  BY <1>2, SearchAssumption
<1>5. ~DominatedBySolution(s) /\ ~DominatedByClosed(s)
  BY <1>3, <1>4 DEF DominatedBySolution, DominatedByClosed
<1>6. s \in heap' /\ heap' \subseteq {s}
  BY <1>1, <1>2, <1>3, <1>5, EncounterEffect
<1>7. ASSUME NEW k \in 0 .. Longest, NEW d \in Ways(k, Start)
      PROVE  Covered(Solutions', Open', d, k + 1)
  <2>1. d \in Costs
    BY WaysFacts
  <2>2. Dominated(d, Plus(s, d))
    BY <1>2, <2>1, PlusIsCost DEF Dominated
  <2>3. s \in Open' /\ k \in 0 .. k + 1 - 1
    BY <1>6, LongestIsNat DEF Open
  <2> QED
    BY <1>2, <2>2, <2>3 DEF Covered
<1> QED
  BY <1>1, <1>2, <1>3, <1>6, <1>7, CompleteNext

LEMMA NothingLostStep ==
  ASSUME IInv, Phases, SearchOrder, NothingLost, [Next]_vars
  PROVE  NothingLost'
<1>1. CASE DijkstraStep \/ StartTimeHeuristic \/ StartDistanceHeuristic
  BY <1>1 DEF DijkstraStep, StartTimeHeuristic, StartDistanceHeuristic, NothingLost
<1>2. CASE StartSearch
  BY <1>2, StartSearchComplete DEF NothingLost
<1>3. CASE DropDominated
  BY <1>3, DropComplete DEF NothingLost, DropDominated, TakeMinimum
<1>4. CASE ReachGoal
  BY <1>4, ReachGoalComplete DEF NothingLost, ReachGoal, TakeMinimum
<1>5. CASE Close
  BY <1>5, CloseComplete DEF NothingLost, Close, TakeMinimum
<1>6. CASE FollowEdge
  BY <1>6, FollowEdgeComplete DEF NothingLost, FollowEdge
<1>7. CASE Expanded \/ NoMoreLabels
  <2>1. /\ stage = "search" /\ edges = {}
        /\ UNCHANGED <<graph, heap, closed, solution, results, edges>>
        /\ current' = current \/ current' = NoState
    BY <1>7, LabelFacts DEF Expanded, NoMoreLabels, search
  <2>2. Complete /\ Open' = Open /\ Solutions' = Solutions
    BY <2>1 DEF NothingLost, Open, Coming, Solutions
  <2>3. Complete'
    BY <2>1, <2>2, CompleteNext DEF Complete
  <2> QED
    BY <2>3 DEF NothingLost
<1>8. CASE UNCHANGED vars
  <2>1. UNCHANGED <<graph, stage, heuristic, heap, closed, solution, results, current, edges>>
    BY <1>8 DEF vars, search
  <2>2. Open' = Open /\ Solutions' = Solutions
    BY <2>1 DEF Open, Coming, Move, Solutions
  <2>3. Complete => Complete'
    BY <2>1, <2>2, CompleteNext DEF Complete
  <2> QED
    BY <2>1, <2>3 DEF NothingLost
<1> QED
  BY <1>1, <1>2, <1>3, <1>4, <1>5, <1>6, <1>7, <1>8 DEF Next

(* No path is lost: a solution undercuts it, or a label that is not done   *)
(* with.                                                                   *)
THEOREM NothingLostHolds == Spec => []NothingLost
<1>1. Init => NothingLost
  BY DEF Init, NothingLost
<1> QED
  BY <1>1, NothingLostStep, Invariance, PhasesHold, SearchOrderHolds, PTL DEF Spec
------------------------------------------------------------------------------
(* The results are costs that no path undercuts, each faster and longer    *)
(* than the next, the last of them the solution; and the search ends with  *)
(* as many as asked, or with nothing left to do.                           *)
Front == ParetoFront(PathCosts(graph, Start, Goal))

Ranked ==
  \A i, j \in DOMAIN results : i < j =>
    results[i].time < results[j].time /\ results[i].distance > results[j].distance

LastIsSolution ==
  /\ results = << >> => solution = NoState
  /\ results # << >> =>
       /\ solution # NoState /\ results[Len(results)] = solution
       /\ EstimatedGoalDistance(solution) = solution.distance

EndsWell ==
  /\ Len(results) <= numberOfResults
  /\ stage # "done" => Len(results) < numberOfResults
  /\ stage = "done" => Len(results) = numberOfResults \/ Open = {}

Results ==
  /\ \A i \in DOMAIN results : Cost(results[i]) \in Front
  /\ Ranked /\ LastIsSolution /\ EndsWell

LEMMA FrontFacts ==
  ASSUME IInv
  PROVE  /\ \A c : c \in PathCosts(graph, Start, Goal) <=>
                     \E k \in 0 .. Longest : c \in Ways(k, Start)
         /\ \A c \in PathCosts(graph, Start, Goal) :
              c \in Costs /\ c.time \in Nat /\ c.distance \in Nat
         /\ \A c : c \in Front <=> /\ c \in PathCosts(graph, Start, Goal)
                                   /\ \A d \in PathCosts(graph, Start, Goal) : Dominated(c, d) => d = c
<1>1. \A c : c \in PathCosts(graph, Start, Goal) <=> \E k \in 0 .. Longest : c \in Ways(k, Start)
  BY DEF PathCosts, Ways
<1>2. \A c \in PathCosts(graph, Start, Goal) : c \in Costs
  BY <1>1, WaysFacts
<1>3. \A c \in PathCosts(graph, Start, Goal) : c.time \in Nat /\ c.distance \in Nat
  BY <1>2 DEF Costs
<1> QED
  BY <1>1, <1>2, <1>3 DEF Front, ParetoFront

LEMMA ReachGoalResults ==
  ASSUME IInv, Phases, SearchOrder, Sound, NothingLost, Results, ReachGoal
  PROVE  Results'
<1>1. PICK s \in heap :
        /\ TakeMinimum(s) /\ ~DominatedBySolution(s) /\ s.nodeId = Goal
        /\ results' = Append(results, s) /\ solution' = s
        /\ stage' = IF Len(results') >= numberOfResults THEN "done" ELSE stage
        /\ UNCHANGED <<graph, numberOfResults, closed, current, edges>>
  BY DEF ReachGoal, IsGoal
<1>2. /\ stage = "search" /\ current = NoState /\ edges = {} /\ heap' = heap \ {s}
      /\ \A t \in heap :
           /\ EstimatedGoalTime(s) <= EstimatedGoalTime(t)
           /\ EstimatedGoalTime(s) = EstimatedGoalTime(t) =>
                EstimatedGoalDistance(s) <= EstimatedGoalDistance(t)
  BY <1>1, MinimumFacts
<1> DEFINE n == Len(results)
<1>3. /\ results \in Seq(SearchStates) /\ n \in Nat /\ DOMAIN results = 1 .. n
      /\ DOMAIN results' = 1 .. n + 1 /\ Len(results') = n + 1 /\ results'[n + 1] = s
      /\ \A i \in 1 .. n : results'[i] = results[i] /\ results[i] \in SearchStates
      /\ \A i \in 1 .. n + 1 : i = n + 1 \/ i \in 1 .. n
  <2>1. results \in Seq(SearchStates) /\ s \in SearchStates
    BY <1>1, LabelFacts DEF IInv, LabelsOK
  <2> QED
    BY <1>1, <2>1, AppendProperties, LenProperties, ElementOfSeq
<1>4. /\ s \in SearchStates /\ s.time \in Nat /\ s.distance \in Nat /\ Estimated(s)
      /\ Labels /\ Timely /\ Complete /\ Walked(graph, closed, s)
  BY <1>1, <1>2, LabelFacts DEF SearchOrder, Labels, NothingLost, Sound
<1>5. EstimatedGoalTime(s) = s.time /\ EstimatedGoalDistance(s) = s.distance /\ Useful(s.nodeId)
  <2>1. heuristic["time"][Goal] = 0 /\ heuristic["distance"][Goal] = 0 /\ Useful(Goal)
    BY <1>2, EstimateFacts
  <2>2. s.timeHeuristic = 0 /\ s.distanceHeuristic = 0
    BY <1>1, <1>4, <2>1 DEF Estimated
  <2> QED
    BY <1>1, <1>4, <2>1, <2>2, LabelFacts
<1>6. Cost(s) \in PathCosts(graph, Start, Goal)
  BY <1>1, <1>4, WalkedToGoal, FrontFacts
<1>7. \A i \in 1 .. n : /\ results[i].time \in Nat /\ results[i].distance \in Nat
                        /\ results[i].time <= s.time /\ s.distance < results[i].distance
  <2> SUFFICES ASSUME NEW i \in 1 .. n
               PROVE  /\ results[i].time \in Nat /\ results[i].distance \in Nat
                      /\ results[i].time <= s.time /\ s.distance < results[i].distance
    OBVIOUS
  <2>1. n \in 1 .. n /\ i <= n /\ results # << >>
    BY <1>3
  <2>2. /\ solution # NoState /\ results[n] = solution
        /\ EstimatedGoalDistance(solution) = solution.distance
    BY <2>1 DEF Results, LastIsSolution
  <2>3. /\ results[i].time \in Nat /\ results[i].distance \in Nat
        /\ solution.time \in Nat /\ solution.distance \in Nat
    BY <1>3, <2>1, <2>2, LabelFacts
  <2>4. solution.time <= s.time
    BY <1>1, <1>4, <1>5, <2>2 DEF Timely, Open
  <2>5. s.distance < solution.distance
    BY <1>1, <1>4, <1>5, <2>2, <2>3 DEF DominatedBySolution
  <2>6. i = n \/ (results[i].time < results[n].time /\ results[i].distance > results[n].distance)
    BY <1>3, <2>1 DEF Results, Ranked
  <2> QED
    BY <1>4, <2>2, <2>3, <2>4, <2>5, <2>6
<1>8. \A i \in 1 .. n : results[i].time < s.time
  <2> SUFFICES ASSUME NEW i \in 1 .. n, results[i].time = s.time PROVE FALSE
    BY <1>4, <1>7
  <2>1. Cost(results[i]) \in Front
    BY <1>3 DEF Results
  <2>2. Dominated(Cost(results[i]), Cost(s))
    BY <1>4, <1>7 DEF Dominated, Cost
  <2>3. Cost(s) = Cost(results[i])
    BY <1>6, <2>1, <2>2, FrontFacts
  <2>4. s.distance = results[i].distance
    BY <2>3 DEF Cost
  <2> QED
    BY <1>4, <1>7, <2>4
<1>9. ASSUME NEW d \in PathCosts(graph, Start, Goal), Dominated(Cost(s), d)
      PROVE  d = Cost(s)
  <2>1. d \in Costs /\ d.time \in Nat /\ d.distance \in Nat /\ d.time <= s.time /\ d.distance <= s.distance
    <3>1. s.time >= d.time /\ s.distance >= d.distance
      BY <1>9 DEF Dominated, Cost
    <3> QED
      BY <1>4, <3>1, FrontFacts
  <2>2. PICK k \in 0 .. Longest : d \in Ways(k, Start)
    BY FrontFacts
  <2>3. Covered(Solutions, Open, d, k + 1)
    BY <1>4, <2>2 DEF Complete
  <2>4. ASSUME NEW r \in Solutions, Dominated(d, r) PROVE FALSE
    <3>1. PICK i \in 1 .. n : r = results[i]
      BY <1>3 DEF Solutions
    <3> QED
      BY <1>4, <1>7, <2>1, <2>4, <3>1 DEF Dominated
  <2>5. PICK t \in Open : \E j \in 0 .. k + 1 - 1 : \E w \in Ways(j, t.nodeId) : Dominated(d, Plus(t, w))
    BY <2>3, <2>4 DEF Covered
  <2>6. PICK j \in 0 .. k + 1 - 1 : \E w \in Ways(j, t.nodeId) : Dominated(d, Plus(t, w))
    BY <2>5
  <2>7. PICK w \in Ways(j, t.nodeId) : Dominated(d, Plus(t, w))
    BY <2>6
  <2>8. t \in heap /\ t \in SearchStates /\ t.nodeId \in Nodes /\ Estimated(t) /\ j \in 0 .. Longest
    BY <1>2, <1>4, ComingFacts, LabelFacts, LongestIsNat DEF Labels
  <2>9. /\ w \in Costs
        /\ heuristic["time"][t.nodeId] <= w.time /\ heuristic["distance"][t.nodeId] <= w.distance
        /\ heuristic["time"][t.nodeId] \in Nat /\ heuristic["distance"][t.nodeId] \in Nat
    BY <1>2, <2>8, EstimateFacts
  <2>10. /\ Plus(t, w).time = t.time + w.time /\ Plus(t, w).distance = t.distance + w.distance
         /\ t.time \in Nat /\ t.distance \in Nat /\ w.time \in Nat /\ w.distance \in Nat
    BY <2>8, <2>9, PlusIsCost
  <2>11. /\ EstimatedGoalTime(t) = t.time + t.timeHeuristic /\ t.timeHeuristic \in Nat
         /\ EstimatedGoalDistance(t) = t.distance + t.distanceHeuristic /\ t.distanceHeuristic \in Nat
    BY <2>8, LabelFacts
  <2>12. t.timeHeuristic <= w.time /\ t.distanceHeuristic <= w.distance
    BY <2>8, <2>9, <2>10 DEF Estimated
  <2>13. d.time >= t.time + w.time /\ d.distance >= t.distance + w.distance
    BY <2>7, <2>10 DEF Dominated
  <2>14. EstimatedGoalTime(t) <= d.time /\ EstimatedGoalDistance(t) <= d.distance
    BY <2>1, <2>10, <2>11, <2>12, <2>13
  <2>15. s.time <= EstimatedGoalTime(t) /\ (s.time = EstimatedGoalTime(t) => s.distance <= EstimatedGoalDistance(t))
    BY <1>2, <1>5, <2>8
  <2>16. EstimatedGoalTime(t) \in Nat /\ EstimatedGoalDistance(t) \in Nat
    BY <2>8, LabelFacts
  <2>17. d.time = s.time /\ d.distance = s.distance
    BY <1>4, <2>1, <2>14, <2>15, <2>16
  <2> QED
    BY <2>1, <2>17 DEF Costs, Cost
<1>10. Cost(s) \in Front
  BY <1>6, <1>9, FrontFacts
<1>11. \A i \in DOMAIN results' : Cost(results'[i]) \in Front'
  <2>1. Front' = Front
    BY <1>1 DEF Front
  <2>2. \A i \in 1 .. n : Cost(results[i]) \in Front
    BY <1>3 DEF Results
  <2>3. \A i \in 1 .. n + 1 : Cost(results'[i]) \in Front
    BY <1>3, <1>10, <2>2
  <2> QED
    BY <1>3, <2>1, <2>3
<1>12. Ranked'
  <2> SUFFICES ASSUME NEW i \in 1 .. n + 1, NEW j \in 1 .. n + 1, i < j
               PROVE  results'[i].time < results'[j].time /\ results'[i].distance > results'[j].distance
    BY <1>3 DEF Ranked
  <2>1. i \in 1 .. n
    BY <1>3
  <2>2. CASE j = n + 1
    BY <1>3, <1>4, <1>7, <1>8, <2>1, <2>2
  <2>3. CASE j \in 1 .. n
    BY <1>3, <2>1, <2>3 DEF Results, Ranked
  <2> QED
    BY <1>3, <2>2, <2>3
<1>13. LastIsSolution'
  <2>1. results' # << >> /\ s # NoState
    BY <1>3, <1>4, LabelFacts
  <2>2. EstimatedGoalDistance(solution)' = s.distance
    BY <1>1, <1>5 DEF EstimatedGoalDistance
  <2> QED
    BY <1>1, <1>3, <2>1, <2>2 DEF LastIsSolution
<1>14. EndsWell'
  <2>1. n < numberOfResults /\ numberOfResults \in Nat
    BY <1>2, SearchAssumption DEF Results, EndsWell, IInv
  <2> QED
    BY <1>1, <1>2, <1>3, <2>1 DEF EndsWell
<1> QED
  BY <1>11, <1>12, <1>13, <1>14 DEF Results

LEMMA StartSearchResults ==
  ASSUME IInv, SearchOrder, Results, StartSearch
  PROVE  Results'
<1>1. stage = "distance" /\ stage' = "search" /\ UNCHANGED <<graph, numberOfResults, solution, results>>
  BY DEF StartSearch
<1>2. results = << >> /\ solution = NoState /\ Len(results) = 0
  BY <1>1 DEF SearchOrder, NotBegun
<1> QED
  BY <1>1, <1>2 DEF Results, Ranked, LastIsSolution, EndsWell, Front

LEMMA ResultsStep ==
  ASSUME IInv, Phases, SearchOrder, Sound, NothingLost, Results, [Next]_vars
  PROVE  Results'
<1>1. CASE ReachGoal
  BY <1>1, ReachGoalResults
<1>2. CASE NoMoreLabels
  <2>1. /\ stage = "search" /\ stage' = "done" /\ current = NoState /\ heap = {}
        /\ UNCHANGED <<graph, numberOfResults, heap, solution, results, current, edges>>
    BY <1>2 DEF NoMoreLabels, search
  <2>2. edges = {} /\ Open' = {}
    BY <2>1, LabelFacts DEF Open, Coming
  <2>3. EstimatedGoalDistance(solution)' = EstimatedGoalDistance(solution)
    BY <2>1 DEF EstimatedGoalDistance
  <2> QED
    BY <2>1, <2>2, <2>3 DEF Results, Ranked, LastIsSolution, EndsWell, Front
<1>3. CASE \/ DijkstraStep \/ StartTimeHeuristic \/ StartDistanceHeuristic \/ StartSearch
           \/ DropDominated \/ Close \/ FollowEdge \/ Expanded
  <2>1. /\ stage # "done" /\ stage' # "done"
        /\ UNCHANGED <<graph, numberOfResults, solution, results>>
    BY <1>3 DEF DijkstraStep, StartTimeHeuristic, StartDistanceHeuristic, StartSearch, DropDominated,
                Close, FollowEdge, Expanded, TakeMinimum, search,
                D!Next, D!CloseMinimum, D!FollowEdge, D!Expanded, D!BeginNext, D!Begin
  <2>2. EstimatedGoalDistance(solution)' = EstimatedGoalDistance(solution)
    BY <2>1 DEF EstimatedGoalDistance
  <2> QED
    BY <2>1, <2>2 DEF Results, Ranked, LastIsSolution, EndsWell, Front
<1>4. CASE UNCHANGED vars
  <2>1. UNCHANGED <<graph, numberOfResults, stage, heuristic, heap, solution, results, current, edges>>
    BY <1>4 DEF vars, search
  <2>2. EstimatedGoalDistance(solution)' = EstimatedGoalDistance(solution) /\ Open' = Open
    BY <2>1 DEF EstimatedGoalDistance, Open, Coming, Move
  <2> QED
    BY <2>1, <2>2 DEF Results, Ranked, LastIsSolution, EndsWell, Front
<1> QED
  BY <1>1, <1>2, <1>3, <1>4 DEF Next

LEMMA InitResults == Init => Results
<1> SUFFICES ASSUME Init PROVE Results
  OBVIOUS
<1>1. results = << >> /\ solution = NoState /\ stage = "forward" /\ Len(results) = 0
      /\ DOMAIN results = {}
  BY DEF Init
<1>2. numberOfResults \in Nat \ {0}
  BY SearchAssumption DEF Init
<1> QED
  BY <1>1, <1>2 DEF Results, Ranked, LastIsSolution, EndsWell

(* The results are on the Pareto front from the moment they are found.     *)
THEOREM ResultsHold == Spec => []Results
BY InitResults, ResultsStep, Invariance, PhasesHold, SearchOrderHolds, SoundHolds, NothingLostHolds,
   PTL DEF Spec
------------------------------------------------------------------------------
(* There are finitely many costs that no other undercuts, even if there    *)
(* were infinitely many costs: beside one of them, each of the others is   *)
(* smaller in one objective, and no two are equal in one.                  *)
LEMMA FrontIsFinite ==
  ASSUME NEW P \in SUBSET Costs
  PROVE  IsFiniteSet(ParetoFront(P))
<1> DEFINE S == ParetoFront(P)
<1>1. /\ \A c \in S : c \in Costs /\ c.time \in Nat /\ c.distance \in Nat
      /\ \A c, d \in S : Dominated(c, d) => d = c
  <2>1. \A c \in P : c.time \in Nat /\ c.distance \in Nat
    BY DEF Costs
  <2> QED
    BY <2>1 DEF ParetoFront
<1> HIDE DEF S
<1>2. CASE S = {}
  BY <1>2, FS_EmptySet DEF S
<1>3. ASSUME NEW c \in S PROVE IsFiniteSet(S)
  <2> DEFINE M == {d \in S : d.time <= c.time}
             N == {d \in S : d.distance <= c.distance}
  <2>1. \A d \in S : d \in M \/ d \in N
    BY <1>1, <1>3 DEF Dominated
  <2>2. IsFiniteSet(M)
    <3> DEFINE f == [d \in M |-> d.time]
    <3>1. f \in [M -> 0 .. c.time]
      BY <1>1, <1>3
    <3>2. \A a, b \in M : f[a] = f[b] => a = b
      BY <1>1 DEF Dominated
    <3>3. f \in Injection(M, 0 .. c.time)
      BY <3>1, <3>2 DEF Injection, IsInjective
    <3>4. IsFiniteSet(0 .. c.time)
      BY <1>1, <1>3, FS_Interval
    <3> HIDE DEF f, M
    <3> QED
      BY <3>3, <3>4, FS_Injection
  <2>3. IsFiniteSet(N)
    <3> DEFINE f == [d \in N |-> d.distance]
    <3>1. f \in [N -> 0 .. c.distance]
      BY <1>1, <1>3
    <3>2. \A a, b \in N : f[a] = f[b] => a = b
      BY <1>1 DEF Dominated
    <3>3. f \in Injection(N, 0 .. c.distance)
      BY <3>1, <3>2 DEF Injection, IsInjective
    <3>4. IsFiniteSet(0 .. c.distance)
      BY <1>1, <1>3, FS_Interval
    <3> HIDE DEF f, N
    <3> QED
      BY <3>3, <3>4, FS_Injection
  <2>4. S = M \union N
    BY <2>1
  <2> HIDE DEF M, N
  <2> QED
    BY <2>2, <2>3, <2>4, FS_Union
<1> QED
  BY <1>2, <1>3 DEF S

LEMMA OpenIsEstimated ==
  ASSUME IInv, SearchOrder, stage \in {"search", "done"}, NEW s \in Open
  PROVE  Estimated(s)
<1>1. CASE s \in heap
  BY <1>1 DEF SearchOrder, Labels
<1>2. CASE s \in Coming
  <2>1. PICK e \in edges : s = Move(current, e)
    BY <1>2 DEF Coming
  <2>2. current \in SearchStates /\ e \in graph
    BY LabelFacts
  <2> QED
    BY <2>1, <2>2, MoveFacts DEF Estimated
<1> QED
  BY <1>1, <1>2 DEF Open

LEMMA ResultsAreTheFront ==
  IInv /\ Phases /\ SearchOrder /\ NothingLost /\ Results => ResultsAreParetoFront
<1> SUFFICES ASSUME IInv, Phases, SearchOrder, NothingLost, Results PROVE ResultsAreParetoFront
  OBVIOUS
<1> DEFINE P == PathCosts(graph, Start, Goal)
           found == {[time |-> results[i].time, distance |-> results[i].distance] :
                       i \in DOMAIN results}
           n == Len(results)
<1>1. /\ results \in Seq(SearchStates) /\ n \in Nat /\ DOMAIN results = 1 .. n
      /\ \A i \in 1 .. n : /\ results[i] \in SearchStates
                           /\ results[i].time \in Nat /\ results[i].distance \in Nat
  <2>1. results \in Seq(SearchStates)
    BY DEF IInv, LabelsOK
  <2> QED
    BY <2>1, LenProperties, ElementOfSeq, LabelFacts
<1>2. \A c : c \in found <=> \E i \in 1 .. n : c = Cost(results[i])
  BY <1>1 DEF Cost
<1>3. \A i, j \in DOMAIN results : i < j => results[i].time < results[j].time
  BY DEF Results, Ranked
<1>4. found \subseteq Front
  BY <1>1, <1>2 DEF Results
<1> HIDE DEF found
<1>5. ASSUME NEW d \in Front \ found, stage \in {"search", "done"}
      PROVE  Open # {} /\ \A c \in found : c.time < d.time
  <2>1. d \in P /\ d \in Costs /\ d.time \in Nat /\ d.distance \in Nat
    BY FrontFacts
  <2>2. PICK k \in 0 .. Longest : d \in Ways(k, Start)
    BY <2>1, FrontFacts
  <2>3. Covered(Solutions, Open, d, k + 1)
    BY <1>5, <2>2 DEF NothingLost, Complete
  <2>4. ASSUME NEW r \in Solutions, Dominated(d, r) PROVE FALSE
    <3>1. PICK i \in 1 .. n : r = results[i]
      BY <1>1 DEF Solutions
    <3>2. Cost(r) \in found /\ Cost(r) \in P
      BY <1>2, <1>4, <3>1, FrontFacts
    <3>3. Dominated(d, Cost(r))
      BY <2>4 DEF Dominated, Cost
    <3>4. Cost(r) = d
      BY <1>5, <3>2, <3>3, FrontFacts
    <3> QED
      BY <1>5, <3>2, <3>4
  <2>5. PICK t \in Open : \E j \in 0 .. k + 1 - 1 : \E w \in Ways(j, t.nodeId) : Dominated(d, Plus(t, w))
    BY <2>3, <2>4 DEF Covered
  <2>6. PICK j \in 0 .. k + 1 - 1 : \E w \in Ways(j, t.nodeId) : Dominated(d, Plus(t, w))
    BY <2>5
  <2>7. PICK w \in Ways(j, t.nodeId) : Dominated(d, Plus(t, w))
    BY <2>6
  <2>8. t \in SearchStates /\ t.nodeId \in Nodes /\ j \in 0 .. Longest /\ Estimated(t)
    <3>1. t \in SearchStates /\ t.nodeId \in Nodes /\ j \in 0 .. Longest
      BY <1>5, ComingFacts, LabelFacts, LongestIsNat
    <3> QED
      BY <1>5, <3>1, OpenIsEstimated
  <2>9. /\ w \in Costs /\ heuristic["time"][t.nodeId] <= w.time /\ Useful(t.nodeId)
        /\ heuristic["time"][t.nodeId] \in Nat
    BY <1>5, <2>8, EstimateFacts
  <2>10. /\ Plus(t, w).time = t.time + w.time /\ t.time \in Nat /\ w.time \in Nat
         /\ EstimatedGoalTime(t) = t.time + t.timeHeuristic /\ t.timeHeuristic \in Nat
    BY <2>8, <2>9, PlusIsCost, LabelFacts
  <2>11. t.timeHeuristic <= w.time
    BY <2>8, <2>9, <2>10 DEF Estimated
  <2>12. EstimatedGoalTime(t) <= d.time /\ EstimatedGoalTime(t) \in Nat
    BY <2>1, <2>7, <2>10, <2>11 DEF Dominated
  <2>13. ASSUME NEW c \in found PROVE c.time < d.time
    <3>1. PICK i \in 1 .. n : c = Cost(results[i])
      BY <1>2
    <3>2. c.time = results[i].time /\ c.distance = results[i].distance
          /\ c.time \in Nat /\ c.distance \in Nat
      BY <1>1, <3>1 DEF Cost
    <3>3. n \in 1 .. n /\ results # << >>
      BY <1>1
    <3>4. solution # NoState /\ results[n] = solution
      BY <3>3 DEF Results, LastIsSolution
    <3>5. solution.time <= EstimatedGoalTime(t) /\ solution.time \in Nat
      BY <1>5, <2>9, <3>4, LabelFacts DEF SearchOrder, Timely
    <3>6. i = n \/ results[i].time < results[n].time
      <4>1. i = n \/ i < n
        <5> HIDE DEF n
        <5> QED
          BY <1>1
      <4>2. i \in DOMAIN results /\ n \in DOMAIN results
        BY <1>1, <3>3
      <4> QED
        BY <1>3, <4>1, <4>2
    <3>7. c.time <= d.time
      BY <2>1, <2>12, <3>2, <3>4, <3>5, <3>6
    <3>8. c.time # d.time
      <4> SUFFICES ASSUME c.time = d.time PROVE FALSE
        OBVIOUS
      <4>1. Dominated(c, d) \/ Dominated(d, c)
        BY <2>1, <3>2 DEF Dominated
      <4>2. c = d
        BY <1>4, <1>5, <2>1, <4>1, FrontFacts
      <4> QED
        BY <1>5, <4>2
    <3> QED
      BY <2>1, <3>2, <3>7, <3>8
  <2> QED
    BY <2>5, <2>13
<1>6. \A c \in found, d \in Front \ found : c.time < d.time
  <2>1. CASE stage \in {"search", "done"}
    BY <1>5, <2>1
  <2>2. CASE stage \in {"forward", "time", "distance"}
    <3>1. n = 0
      BY <2>2 DEF SearchOrder, NotBegun
    <3> QED
      BY <1>2, <3>1
  <2> QED
    BY <2>1, <2>2 DEF IInv
<1>7. IsFiniteSet(Front) /\ IsFiniteSet(found) /\ Cardinality(Front) \in Nat
      /\ Cardinality(found) <= Cardinality(Front)
  <2>1. P \in SUBSET Costs
    BY FrontFacts
  <2>2. IsFiniteSet(Front)
    BY <2>1, FrontIsFinite DEF Front
  <2> QED
    BY <1>4, <2>2, FS_Subset, FS_CardinalityType
<1>8. Cardinality(found) = n
  <2> DEFINE f == [i \in 1 .. n |-> Cost(results[i])]
  <2>1. f \in [1 .. n -> found] /\ \A c \in found : \E i \in 1 .. n : f[i] = c
    BY <1>2
  <2>2. \A i, j \in 1 .. n : f[i] = f[j] => i = j
    <3> SUFFICES ASSUME NEW i \in 1 .. n, NEW j \in 1 .. n, Cost(results[i]) = Cost(results[j])
                 PROVE  i = j
      OBVIOUS
    <3>1. results[i].time = results[j].time
      BY DEF Cost
    <3>2. ~(results[i].time < results[j].time) /\ ~(results[j].time < results[i].time)
      BY <1>1, <3>1
    <3>3. ~(i < j) /\ ~(j < i)
      BY <1>1, <1>3, <3>2
    <3> QED
      BY <3>3
  <2>3. f \in Bijection(1 .. n, found)
    BY <2>1, <2>2 DEF Bijection, Injection, Surjection, IsInjective
  <2>4. ExistsBijection(1 .. n, found)
    BY <2>3 DEF ExistsBijection
  <2>5. IsFiniteSet(1 .. n) /\ Cardinality(1 .. n) = n
    BY <1>1, FS_Interval
  <2> QED
    BY <2>4, <2>5, FS_Bijection
<1>9. stage = "done" => n = Min({Cardinality(Front), numberOfResults})
  <2> SUFFICES ASSUME stage = "done" PROVE n = Min({Cardinality(Front), numberOfResults})
    OBVIOUS
  <2>1. n <= numberOfResults /\ numberOfResults \in Nat
    BY SearchAssumption DEF Results, EndsWell, IInv
  <2>2. n = numberOfResults \/ n = Cardinality(Front)
    <3>1. CASE Front \ found = {}
      <4>1. Front = found
        BY <1>4, <3>1
      <4> QED
        BY <1>8, <4>1
    <3>2. CASE Front \ found # {}
      <4>1. Open # {}
        BY <1>5, <3>2
      <4> QED
        BY <4>1 DEF Results, EndsWell
    <3> QED
      BY <3>1, <3>2
  <2> DEFINE S == {Cardinality(Front), numberOfResults}
  <2>3. S \in SUBSET Nat /\ n \in S /\ \A y \in S : n <= y
    BY <1>7, <1>8, <2>1, <2>2
  <2> HIDE DEF S, n
  <2>4. Min(S) = n
    BY <2>3, MinIs
  <2> QED
    BY <2>4 DEF S
<1> QED
  BY <1>3, <1>4, <1>6, <1>9 DEF ResultsAreParetoFront, Front, found

(* What the program is for: the results are the costs that no other path   *)
(* undercuts, each once and the fastest first, as many as were asked for.  *)
THEOREM ResultsAreParetoFrontHolds == Spec => []ResultsAreParetoFront
BY ResultsAreTheFront, Invariance, PhasesHold, SearchOrderHolds, NothingLostHolds, ResultsHold, PTL
==============================================================================
