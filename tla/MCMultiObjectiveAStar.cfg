CONSTANTS
  Nodes = {1, 2, 3, 4, 5}
  Graphs <- MCGraphs
  Start = 1
  Goal = 5
  ResultLimits = {1, 9}
  NoState = NoState
SPECIFICATION Spec
INVARIANTS TypeOK HeuristicsAreLeastCosts BagsMatchHeap OneObjectiveIsEnough ResultsAreParetoFront
PROPERTIES SearchEnds
CHECK_DEADLOCK FALSE
