\* One stream in depth, to a client or a server, until somebody hangs up; or two of a
\* server that share the connection's window.  As in the code a window may be larger
\* than MAX_FRAME_SIZE: whoever writes as much at once ends the connection.
CONSTANTS
  None = None
  Roles = {TRUE, FALSE}
  Streams = {1, 3}
  MaxWindow = 2
  ConnInit = 2
  StreamInits = {2}
  Lengths = {2}
  MaxFrame = 1
  MaxBytes = 3
SPECIFICATION Spec
CONSTRAINT Bound
INVARIANT MessageArrives
INVARIANT CreditCirculates
 
PROPERTY EveryByteArrives
PROPERTY FinishArrives
CHECK_DEADLOCK FALSE
