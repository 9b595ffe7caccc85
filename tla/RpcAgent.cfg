SPECIFICATION FairSpec
CONSTANTS
  a = a  b = b  c1 = c1  c2 = c2  x1 = x1
  Worker = {a, b}
  Call = {c1, c2}
  Rpc = {x1}  NoRpc = NoRpc
  Scenarios <- AgentScenarios
  maxRetries = 1
  MaxSync = 6
INVARIANTS CompletedOnce RetriedInOnePlace JoinIsABarrier
PROPERTIES EveryCallEnds RetriesEnd JoinEnds
CHECK_DEADLOCK FALSE
