\* A StreamError does not stop the stream's writer.
CONSTANTS
  s1 = s1
  s2 = s2
  None = None
  Streams = {s1}
  MaxWindow = 1
  ConnInit = 1
  StreamInits = {0}
  Lengths = {}
  MaxBytes = 2
  MaxCredit = 2
SPECIFICATION Spec
PROPERTY StreamErrorTerminates
CHECK_DEADLOCK FALSE
