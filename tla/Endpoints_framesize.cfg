\* The reading end applies MAX_FRAME_SIZE, the writing end only its windows.
CONSTANTS
  None = None
  Roles = {TRUE}
  Streams = {1}
  MaxWindow = 2
  ConnInit = 2
  StreamInits = {2}
  Lengths = {}
  MaxFrame = 1
  MaxBytes = 2
SPECIFICATION Spec
INVARIANT NoAccusation
CHECK_DEADLOCK FALSE
