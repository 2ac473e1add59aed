SPECIFICATION Spec
CONSTANTS
  MaxConsecutiveForwards = 1
  CounterLimit = 2
  TickModulus = 4
  TableSizes = {0, 2, 3}
INVARIANTS
  DeadlinesAreExact
  PassOffersEachOnce
  NobodyPassedTwice
PROPERTIES
  BurstIsBounded
