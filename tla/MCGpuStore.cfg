SPECIFICATION Spec
CONSTANTS
  Catalog = {1, 2, 3, 4}
  Unknown = {9}
  Slots = 2
  Prefetching = TRUE
  Routes <- SmallRoutes
  Plans <- SmallPlans
  Hot <- SmallHot
  ComputeStreams = {"prefill", "decode"}
  Kernels = 1
  MayEvict = TRUE
  MaxQueue = 1
INVARIANTS
  TypeOK
  DeviceNeverFaults
  ResidentHasPage
  HbmAccounted
PROPERTIES
  HeldPageStays
