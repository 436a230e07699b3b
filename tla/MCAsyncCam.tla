----------------------------- MODULE MCAsyncCam -----------------------------
(***************************************************************************)
(* A small deployment of AsyncCam for TLC: the passes a replica may run.   *)
(***************************************************************************)
EXTENDS AsyncCam

PassSets == {<<2>>, <<2, 1>>}
=============================================================================
