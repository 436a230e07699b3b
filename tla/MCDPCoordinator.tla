-------------------------- MODULE MCDPCoordinator --------------------------
(***************************************************************************)
(* A small deployment of DPCoordinator for TLC.  Counts do not influence   *)
(* waves: the longest behaviours have one of them, a short one has both.   *)
(***************************************************************************)
EXTENDS DPCoordinator

CONSTANTS c1, c2

FrontEnds == {c1, c2}

Mode(w, r, n) == [waves |-> w, reports |-> r, requests |-> n]

ModeSet ==
    {Mode(TRUE, FALSE, 2), Mode(TRUE, TRUE, 1), Mode(FALSE, TRUE, 2)}
=============================================================================
