SPECIFICATION FairSpec
CONSTANTS
  b = b  c = c  o = o  f1 = f1  f2 = f2
  Worker = {o, b, c}  Owner = o
  ForkId = {f1, f2}
  Self = Self  NoFork = NoFork  NoWorker = NoWorker
  Creations = {"remote", "self", "local"}
  Callees = {o, b, c}
  EarlyFork = FALSE
  Lossy <- Control
  MaxLosses = 1  MaxEarly = 0  MaxRetries = 1
  Slow = {}  Leavers = {o}
INVARIANT NothingLeaks
PROPERTIES FetchIsAnswered OwnerForgets
