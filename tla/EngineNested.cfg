SPECIFICATION FairSpec
CONSTANTS
  r = r  a = a  b = b  l = l  s = s  p = p  q = q
  g1 = g1  g2 = g2  g3 = g3  g4 = g4  g5 = g5  u1 = u1  u2 = u2  d1 = d1
  NoNode = NoNode  NoTask = NoTask  CPU_DEVICE = CPU_DEVICE
  Node <- NestedNodes
  GraphTask = {g1, g2, g3, g4, g5}
  User = {u1}
  Device = {d1}
  max_recursion_depth = 1
  next_edges <- NestedEdges
  topological_nr <- NestedTopo
  sequence_nr <- NestedSeq
  device <- NestedDevice
  root <- NestedRoot
  outputs <- NestedOutputs
  accumulate_grad <- NestedAccumulate
  caller <- NestedCaller
  throws = {s, q}
  queues_callback = {b}
INVARIANTS
  DependencyIsFound
  NothingLeftWaiting
  SuccessMeansDone
  NestedErrorFailsOuter
  EnoughWorkers
PROPERTIES
  BackwardReturns
