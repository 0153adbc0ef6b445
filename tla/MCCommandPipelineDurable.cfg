CONSTANTS
  plain = plain
  trade = trade
  poison = poison
  Keys = {k1, k2}
  Bodies = {plain, trade, poison}
  PoisonBodies = {poison}
  TradingBodies = {trade}
  FrameBytes <- MCFrameBytes
  MaxRunCommands = 2
  MaxRunJournalBytes = 4
  IngressCapacity = 2
  MatchingCapacity = 1
  ResultCapacity = 1
  PrivateCapacity = 1
  PublicCapacity = 1
  PowerLoss = FALSE
  MaxFaults = 1
SPECIFICATION Spec
CHECK_DEADLOCK FALSE
INVARIANT
  CompletedIsDurable
