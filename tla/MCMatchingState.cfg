CONSTANTS
  Clients = {c1, c2}
  MaxPrice = 2
  MaxOrderQuantity = 3
  MaxPriceLevelAggregate = 3
  MaxEventsPerCommand = 2
  MaxCommands = 4
SPECIFICATION Spec
SYMMETRY ClientSymmetry
INVARIANTS
  NoLogicError
  IndexMatchesBook
  TimePriority
  BookUncrossed
  AggregateIsExact
  AggregateBounded
  QuantityConserved
  PlanIsExact
PROPERTY
  PriceTimePriority
