CONSTANTS
  plain = plain
  trade = trade
  poison = poison
  Keys = {k1, k2, k3, k4, k5}
  Bodies = {plain, trade, poison}
  PoisonBodies = {poison}
  TradingBodies = {trade}
  FrameBytes <- MCFrameBytes
  MaxRunCommands = 5
  MaxRunJournalBytes = 6
  IngressCapacity = 2
  MatchingCapacity = 1
  ResultCapacity = 1
  PrivateCapacity = 1
  PublicCapacity = 1
  PowerLoss = TRUE
  MaxFaults = 2
SPECIFICATION Spec
SYMMETRY KeySymmetry
CHECK_DEADLOCK FALSE
INVARIANTS
  NoInvariantException
  IndexMatchesJournal
  PipelineIsFifo
  DurableBeforeMatching
  PauseDeliversAll
  GateMatchesState
  CapacityReserved
PROPERTY
  ImplementsCommandLog
