----------------------------- MODULE MCGpuStore -----------------------------
(* Small instances of GpuStore for TLC. *)
EXTENDS GpuStore

(* A batch of two sequences, two new experts at once, and a choice larger than
   the cache, which is computed without being prefetched. *)
SmallRoutes == {<<<<1>>, <<3>>>>, <<<<3, 4>>>>, <<<<1, 2, 3>>>>}

SmallPlans == {<<<<9, 1>>>>}

SmallHot == {<<9, 2>>}
=============================================================================
