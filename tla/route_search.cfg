SPECIFICATION Spec
CONSTANTS
  AddressSpace = 4
  HalfIndex = 5
  TableCount = 2
  RouteCounts = {0, 1, 2, 3, 4}
  Mappings <- MCMappings
INVARIANTS
  ValidationIsExact
  SearchStaysInside
  LocateIsExact
  LogarithmicSearch
CHECK_DEADLOCK FALSE
