SPECIFICATION Spec
CONSTANTS
  AddressSpace = 5
  MaxRoutes = 3
  RouteTables <- MCRouteTables
INVARIANTS
  InspectionIsExact
  SegmentsTile
PROPERTIES
  SegmentIsLocal
