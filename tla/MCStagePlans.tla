----------------------------- MODULE MCStagePlans -----------------------------
(***************************************************************************)
(* Batches of up to three requests of one to three tokens, and of four     *)
(* requests of one or two.                                                 *)
(***************************************************************************)
EXTENDS StagePlans

SmallBatches == UNION {[1 .. n -> 1 .. 3] : n \in 1 .. 3} \cup [1 .. 4 -> 1 .. 2]
=============================================================================
