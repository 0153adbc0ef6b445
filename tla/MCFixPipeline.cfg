\* Every queue has one place; the index fills up before the sequences do.
CONSTANTS
  MaxUint = 255
  Configurations <- MCConfigurations
  Alphabet = {0, 1, 2, 5, 9, 10, 11}
  MaxTextLength = 4
  Sessions = {"s1", "s2", "s3", "s4"}
  ClientOf <- MCClientOf
  Messages <- MCMessages
  AdmissionCapacity = 3
  MaxSequence = 3
  StagingCapacity = 1
  IngressCapacity = 1
  MatchingCapacity = 1
  ResultCapacity = 1
  BusSize = 2
SPECIFICATION FairSpec
INVARIANTS
  ConversionsAreExact
  NoThreadThrows
  PathIsAdmitted
PROPERTY
  AdmittedCompletes
CHECK_DEADLOCK FALSE
