\* A connection by every way to its protocol, and an application that makes up to
\* four calls at any moments.
CONSTANT MaxCalls = 4
SPECIFICATION Spec
INVARIANT TypeOK
INVARIANT ConnectionsAreTracked
PROPERTY ImplementsCallPipe
PROPERTY UpgradeCompletes
CHECK_DEADLOCK FALSE
