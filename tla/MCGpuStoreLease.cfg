SPECIFICATION Spec
CONSTANTS
  Catalog = {1, 2, 3, 4}
  Unknown = {9}
  Slots = 2
  Prefetching = TRUE
  Routes <- SmallRoutes
  Plans <- SmallPlans
  Hot <- SmallHot
  ComputeStreams = {"prefill"}
  Kernels = 1
  MayEvict = FALSE
  MaxQueue = 1
INVARIANTS
  LeaseFollowsAcquire
