SPECIFICATION Spec
CONSTANTS
  Rank = {a, b}
  Root = a
  Param <- MCParam
  Bytes <- MCBytes
  Limits <- MCLimits
  Gradient <- MCGradient
  Undef = Undef
  Scenarios <- MCScenarios
INVARIANTS SameCollectives GradIsAverage ChecksHold NobodyIsStuck
PROPERTIES NoSyncStaysLocal
CHECK_DEADLOCK FALSE
