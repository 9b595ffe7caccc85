SPECIFICATION Spec
CONSTANTS
  Rank = {a, b}
  Root = a
  Param <- MCParam
  Bytes <- MCBytes
  Limits <- MCLimits
  Gradient <- MCGradient
  Undef = Undef
  Scenarios <- AfterNoSync
INVARIANT NoSyncIsMadeUp
CHECK_DEADLOCK FALSE
