SPECIFICATION Spec
CONSTANTS
  Catalog = {1, 2, 3, 4}
  Unknown = {9}
  Slots = 3
  Prefetching = TRUE
  Routes <- SmallRoutes
  Plans <- SmallPlans
  Hot <- SmallHot
  MayFail = TRUE
INVARIANTS
  TypeOK
  RecencyExact
  LeaseScoped
  DemandServed
PROPERTIES
  KeepHotStays
