\* The ring wraps more than twice; cursors may be registered at any time.
CONSTANTS
  Readers = {r1, r2, r3}
  Size = 2
  RegistrationLimit = 5
  MaxWrites = 5
SPECIFICATION FairSpec
INVARIANTS
  TypeOK
  NoDataRace
  ReadsInOrder
PROPERTY
  EveryMessageRead
CHECK_DEADLOCK FALSE
