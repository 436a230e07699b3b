--------------------------- MODULE MCFFNWorkerLoop ---------------------------
(***************************************************************************)
(* Instances of FFNWorkerLoop for TLC: both workers, by npu in Init.       *)
(***************************************************************************)
EXTENDS FFNWorkerLoop
=============================================================================
