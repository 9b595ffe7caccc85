SPECIFICATION FairSpec
CONSTANTS
  r = r  a = a  b = b  l = l  s = s  p = p  q = q
  g1 = g1  g2 = g2  g3 = g3  g4 = g4  g5 = g5  u1 = u1  u2 = u2  d1 = d1
  NoNode = NoNode  NoTask = NoTask  CPU_DEVICE = CPU_DEVICE
  Node <- DiamondNodes
  GraphTask = {g1, g2}
  User = {u1, u2}
  Device = {d1}
  max_recursion_depth = 60
  next_edges <- DiamondEdges
  topological_nr <- DiamondTopo
  sequence_nr <- DiamondSeq
  device <- DiamondDevice
  root <- TwoUsersRoot
  outputs <- TwoUsersOutputs
  accumulate_grad <- TwoUsersAccumulate
  caller <- TwoUsersCaller
  throws = {a, b}
  queues_callback = {a}
INVARIANTS
  OutstandingIsExact
  GradientsAreComplete
PROPERTIES
  CalledOnce
  ResultIsFinal
  BackwardReturns
