---------------------------- MODULE MCWorkItemPool ----------------------------
(***************************************************************************)
(* Instance of WorkItemPool for TLC.                                       *)
(***************************************************************************)
EXTENDS WorkItemPool

CONSTANTS r1, r2, w1, i1

TwoRequests == {r1, r2}
OneWorker   == {w1}
OneItem     == {i1}
=============================================================================
