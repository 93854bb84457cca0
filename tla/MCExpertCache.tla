--------------------------- MODULE MCExpertCache ----------------------------
(* Small instances of ExpertCache for TLC. *)
EXTENDS ExpertCache

(* One or two sequences in the batch, up to three experts routed. *)
SmallRoutes ==
  {<<<<1>>>>, <<<<1, 2>>>>, <<<<2>>, <<1, 3>>>>, <<<<3, 4>>>>, <<<<4>>, <<2>>>>}

(* Predictions that include an expert of a layer the model does not have. *)
SmallPlans == {<<>>, <<<<3>>>>, <<<<9, 4>>, <<1>>>>}

SmallHot == {<<>>, <<1>>, <<2, 9, 3>>, <<4, 1, 2>>}
=============================================================================
