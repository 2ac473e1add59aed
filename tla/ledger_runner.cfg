SPECIFICATION Spec
CONSTANTS
  MaxFragmentIndex = 1
  LedgerCapacity = 2
  SequenceModulus = 4
  MaxSent = 2
  Extents = {1, 2}
  Deliveries = {"Tracked"}
  Works <- MCWorks
  Sessions <- MCSessions
  InitialSession <- MCFirstSession
INVARIANTS
  ResultsCountOnce
  OpenRequestsHaveSlots
  NoWorkIsWedged
  SummaryTellsHistory
  NoticeOnce
