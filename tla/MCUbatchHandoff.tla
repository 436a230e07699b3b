--------------------------- MODULE MCUbatchHandoff ---------------------------
(***************************************************************************)
(* Instances of UbatchHandoff for TLC; the bounds are in the cfg files.    *)
(***************************************************************************)
EXTENDS UbatchHandoff
=============================================================================
