\* An encoder and a decoder of this program, up to two blocks apart; or a decoder
\* and whatever a foreign peer sends.
CONSTANTS
  status = status
  ok = ok
  other = other
  None = None
  Names = {status, cookie}
  Values = {ok, other}
  ForeignNames = {status}
  Static <- MCStatic
  Size <- MCSize
  Limit = 3
  MaxHeaders = 2
  MaxUnderway = 2
SPECIFICATION Spec
INVARIANT TypeOK
INVARIANT TableFits
INVARIANT TablesAgree
PROPERTY ImplementsHeaderPipe
CHECK_DEADLOCK FALSE
