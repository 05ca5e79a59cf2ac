SPECIFICATION Spec
CONSTANTS
  Node <- MCNodes
  Root = 1
  Graphs <- MCGraphs
INVARIANTS TypeOK DependsFollow SortedOnce SortsReachable
CHECK_DEADLOCK FALSE
