--------------------------- MODULE MCEvaluatePage ---------------------------
(* The evaluate page for TLC: two evaluations and two requests in flight.   *)
(* The slots are not taken as symmetric: the run checks liveness.           *)
EXTENDS EvaluatePage
=============================================================================
