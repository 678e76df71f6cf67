\* finish() waits behind a write that failed, for ever.
CONSTANTS
  s1 = s1
  s2 = s2
  None = None
  Streams = {s1}
  MaxWindow = 1
  ConnInit = 1
  StreamInits = {1}
  Lengths = {}
  MaxBytes = 2
  MaxCredit = 2
SPECIFICATION LoopFairSpec
PROPERTY FinishSettles
CHECK_DEADLOCK FALSE
