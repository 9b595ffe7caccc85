SPECIFICATION FairSpec
CONSTANTS
  a = a  b = b  c1 = c1  c2 = c2  x1 = x1
  Worker = {a, b}
  Call = {c1, c2}
  Rpc = {x1}  NoRpc = NoRpc
  Scenarios <- NoFaults
  maxRetries = 1
  MaxSync = 6
PROPERTY ShutdownReturns
CHECK_DEADLOCK FALSE
