\* A server with two of the peer's streams and an identifier of its own, frames of
\* all of them in every order; or one stream in depth, of a server or a client,
\* with messages whole and broken.
CONSTANTS
  None = None
  Roles = {TRUE, FALSE}
  Ids = {1, 2, 3}
  Lengths = {0, 1, 2}
  Pads = {None, 1}
  MaxBody = 2
SPECIFICATION Spec
CONSTRAINT Bound
INVARIANT TypeOK
INVARIANT HeaderBlockIsContiguous
INVARIANT IdsAreBounded
INVARIANT CreditIsReturned
INVARIANT BodyIsDelivered
PROPERTY ImplementsMessage
CHECK_DEADLOCK FALSE
