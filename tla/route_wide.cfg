SPECIFICATION Spec
CONSTANTS
  AddressSpace = 4
  HalfIndex = 2
  TableCount = 1
  RouteCounts = {0, 1, 2, 3}
  Mappings <- MCMappings
INVARIANTS
  LocateIsExact
CHECK_DEADLOCK FALSE
