SPECIFICATION ExecutionSpec
CONSTANTS
  AddressSpace = 5
  MaxRoutes = 3
  ExceptionCode = 4
  RouteTables <- MCRouteTables
  Works <- MCWorks
  PlanOptions <- MCPlanOptions
  Widths <- MCWidths
  OtherRequests <- MCOtherRequests
INVARIANTS
  ReadyIsExact
  ReadyNeverFails
  FragmentsTile
  DevicesMirrorSnapshot
PROPERTIES
  FragmentIsLocal
