SPECIFICATION FairSpec
CONSTANTS
  r1 = r1  r2 = r2  r3 = r3  w1 = w1  w2 = w2
  Reader = {r1, r2, r3}
  Writer = {w1, w2}
  Value <- Values
  InitValue = 1
  NoValue = NoValue  Torn = Torn  NoWriter = NoWriter
  writeFunc <- WriteFuncs
INVARIANT InstancesAgree
PROPERTIES ReadsAreAtomic WriteReturns
