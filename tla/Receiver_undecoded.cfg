CONSTANTS
  None = None
  Roles = {FALSE}
  Ids = {1}
  Lengths = {}
  Pads = {None, 0, 1}
  MaxBody = 1
SPECIFICATION Spec
INVARIANT EveryBlockIsDecoded
CHECK_DEADLOCK FALSE
