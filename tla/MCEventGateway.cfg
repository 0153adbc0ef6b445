\* Outbound capacity is the least allowed; two results fill it in some cases and not in others.
CONSTANTS
  Handles = {h1, h2, h3}
  Clients = {a, b}
  MaximumConnections = 2
  MaxEventsPerCommand = 2
  PrivateCapacity = 4
  PublicCapacity = 2
  EnvelopeBytes = 1
  CorrelationBytes = 1
  PrivateTradeBytes = 1
  OwnedEventBytes = 3
  PublicTradeBytes = 2
  SpareBytes = 0
  Samples <- MCSamples
  MaxRuns = 2
  MaxCommands = 2
SPECIFICATION Spec
SYMMETRY IdentitySymmetry
INVARIANTS
  NothingMissed
PROPERTY
  OnlyBackloggedEvicted
CHECK_DEADLOCK FALSE
