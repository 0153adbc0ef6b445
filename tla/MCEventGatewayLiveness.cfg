\* Liveness, so no symmetry: one connection at a time, replaced or evicted.
CONSTANTS
  Handles = {h1, h2}
  Clients = {a, b}
  MaximumConnections = 1
  MaxEventsPerCommand = 2
  PrivateCapacity = 4
  PublicCapacity = 2
  EnvelopeBytes = 1
  CorrelationBytes = 1
  PrivateTradeBytes = 1
  OwnedEventBytes = 3
  PublicTradeBytes = 2
  SpareBytes = 0
  Samples <- MCSamples
  MaxRuns = 1
  MaxCommands = 2
SPECIFICATION FairSpec
PROPERTY
  ResultsAreRouted
CHECK_DEADLOCK FALSE
