SPECIFICATION FairSpec
CONSTANTS
  readA = readA
  readB = readB
  badRead = badRead
  noRead = noRead
  MaxFragmentIndex = 2
  LedgerCapacity = 2
  QueueCapacity = 2
  MaxConsecutiveForwards = 1
  CounterLimit = 2
  TickModulus = 4
  SequenceModulus = 3
  FragmentCounts = {1, 2}
  Deliveries = {"Tracked"}
  Ticks = {0}
  Works <- MCOneToken
  Sessions <- MCSessions
  InitialSession <- MCFirstSession
  PollTables <- MCAlwaysDue
  PollRequests <- MCReads
  ValidPollRequests <- MCValidReads
  NoRead <- noRead
PROPERTIES
  EveryWorkRetires
  PollsKeepRunning
