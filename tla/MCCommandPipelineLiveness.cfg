CONSTANTS
  plain = plain
  trade = trade
  poison = poison
  Keys = {k1, k2, k3}
  Bodies = {plain, trade}
  PoisonBodies = {}
  TradingBodies = {trade}
  FrameBytes <- MCFrameBytes
  MaxRunCommands = 3
  MaxRunJournalBytes = 5
  IngressCapacity = 2
  MatchingCapacity = 1
  ResultCapacity = 1
  PrivateCapacity = 1
  PublicCapacity = 1
  PowerLoss = TRUE
  MaxFaults = 1
SPECIFICATION FairSpec
CHECK_DEADLOCK FALSE
PROPERTY
  ReadyWorkEnds
