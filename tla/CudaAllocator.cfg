CONSTANTS
  s0 = s0
  s1 = s1
  s2 = s2
  t1 = t1
  t2 = t2
  g1 = g1
  g2 = g2
  Null = Null
  kMinBlockSize = 1
  kSmallSize = 4
  kSmallBuffer = 8
  kLargeBuffer = 80
  kMinLargeAlloc = 40
  kRoundLarge = 8
  max_split_size = 84
  Capacity = 180
  Stream = {s0, s1, s2}
  DefaultStream = s0
  Thread = {t1, t2}
  Graph = {g1, g2}
  Scenarios <- Programs
SPECIFICATION Spec
INVARIANTS HeapIsWellFormed StatsAreExact NoReuseWhileUsed LookupIsRight GraphMemoryStays
PROPERTY ReleaseIsComplete
CHECK_DEADLOCK FALSE
