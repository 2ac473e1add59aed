SPECIFICATION Spec
CONSTANTS
  readA = readA
  readB = readB
  badRead = badRead
  noRead = noRead
  MaxFragmentIndex = 2
  LedgerCapacity = 2
  QueueCapacity = 1
  MaxConsecutiveForwards = 1
  CounterLimit = 2
  TickModulus = 4
  SequenceModulus = 3
  FragmentCounts = {2}
  Deliveries = {"Tracked"}
  Ticks = {0, 2}
  Works <- MCOneToken
  Sessions <- MCTwoSessions
  InitialSession <- MCFirstSession
  PollTables <- MCPollTables
  PollRequests <- MCReads
  ValidPollRequests <- MCValidReads
  NoRead <- noRead
INVARIANTS
  DefensiveBranchesUnreachable
