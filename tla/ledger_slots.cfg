SPECIFICATION Spec
CONSTANTS
  MaxFragmentIndex = 1
  LedgerCapacity = 2
  Deliveries = {"Tracked", "Rejected"}
  Works <- MCWorks
  Requests <- MCRequests
  Sessions <- MCSessions
INVARIANTS
  SizeCountsWorks
  AnswersFromArray
PROPERTIES
  ImplementsLedger
