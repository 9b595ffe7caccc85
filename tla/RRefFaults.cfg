SPECIFICATION Spec
CONSTANTS
  b = b  c = c  o = o  f1 = f1  f2 = f2
  Worker = {o, b, c}  Owner = o
  ForkId = {f1, f2}
  Self = Self  NoFork = NoFork  NoWorker = NoWorker
  Creations = {"remote", "self", "local"}
  Callees = {o, b, c}
  EarlyFork = TRUE
  Lossy <- NoType
  MaxLosses = 0  MaxEarly = 1  MaxRetries = 1
  Slow <- AllSlow  Leavers = {b, c}
SYMMETRY Symmetry
INVARIANTS AssertsHold ParentOutlivesPending
PROPERTY OwnerKeepsValue
