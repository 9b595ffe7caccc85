SPECIFICATION Spec
CONSTANTS
  NoNode = 0
  Node <- MCNode
  Graph <- AllGraphs
  root = 4
  MaxOutputs = 2
INVARIANTS
  DependenciesAreEdges
  ExecInfoIsReachability
  PlanIsExecutable

