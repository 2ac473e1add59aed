SPECIFICATION Spec
CONSTANTS
  readA = readA
  readB = readB
  badRead = badRead
  noRead = noRead
  MaxFragmentIndex = 2
  LedgerCapacity = 2
  QueueCapacity = 2
  MaxConsecutiveForwards = 1
  CounterLimit = 2
  TickModulus = 4
  SequenceModulus = 3
  FragmentCounts = {0, 1, 2}
  Deliveries = {"Tracked", "SilentOrdered", "Rejected"}
  Ticks = {0}
  Works <- MCTwoTokens
  Sessions <- MCSessions
  InitialSession <- MCFirstSession
  PollTables <- MCNoPolls
  PollRequests <- MCReads
  ValidPollRequests <- MCValidReads
  NoRead <- noRead
INVARIANTS
  TypeOK
  LockStep
  InFlightIsFront
  WireOrder
  DefensiveBranchesUnreachable
PROPERTIES
  ExactNotice
  StaleHasNoEffect
  RetirementIsExact
  ImplementsService
