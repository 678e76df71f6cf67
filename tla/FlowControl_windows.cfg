\* Two streams compete for the connection's window, in every interleaving of
\* callbacks, calls and frames; or one in depth, with three chunks,
\* Content-Length and windows that overflow.
CONSTANTS
  s1 = s1
  s2 = s2
  None = None
  Streams <- MCStreams
  MaxWindow = 2
  ConnInit = 1
  StreamInits = {1}
  Lengths = {0, 2, 3}
  MaxBytes = 3
  MaxCredit = 4
SPECIFICATION Spec
CONSTRAINT Bound
SYMMETRY MCSymmetry
INVARIANT TypeOK
INVARIANT NoLostWakeup
INVARIANT StreamCreditConserved
INVARIANT ConnCreditConserved
INVARIANT EndIsComplete
PROPERTY InOrder
PROPERTY ImplementsCreditPipe
CHECK_DEADLOCK FALSE
