-------------------------- MODULE MCAttentionRunner --------------------------
(***************************************************************************)
(* One or two replicas with graphs of two sizes, one of them split.        *)
(***************************************************************************)
EXTENDS AttentionRunner

TwoSizes == <<4, 2>>
=============================================================================
