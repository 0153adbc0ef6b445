\* One object more than connections: one lingers, stopped, for its last handlers.
CONSTANTS
  Objects = {c1, c2, c3}
  Requests <- MCRequests
  MaximumConnections = 2
SPECIFICATION FairSpec
INVARIANT
  ConnectionsAccounted
PROPERTY
  SessionsReleased
CHECK_DEADLOCK FALSE
