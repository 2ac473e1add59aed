SPECIFICATION Spec
CONSTANTS
  MaxFragmentIndex = 2
  QueueCapacity = 3
  AddressModulus = 4
  Registers = 2
  Values = {0, 1}
  InitialValue = 0
  Starts = {0, 1, 3}
  Extents = {0, 1, 2}
  Deliveries = {"Tracked"}
  Works <- MCWorks
  Sessions <- MCSessions
  InitialSession <- MCFirstSession
INVARIANTS
  AppliedIsReal
  VisibleIsNewest
PROPERTIES
  SuccessIsOnDevice
