CONSTANTS
  NewOrders = {"order"}
  Cancels = {"cancel"}
  Unencodable = {"zero price"}
  NewOrderPayload = 2
  CancelPayload = 1
  HeaderLength = 2
  MaxRunCommands = 3
  MaxRunJournalBytes = 12
  MaxDamage = 1
SPECIFICATION Spec
INVARIANTS
  OnlyDamageIsCorrupt
  WriterKnowsFile
PROPERTY
  ImplementsCommandLog
