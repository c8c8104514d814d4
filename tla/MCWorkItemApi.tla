---------------------------- MODULE MCWorkItemApi ----------------------------
(***************************************************************************)
(* Instance of WorkItemApi for TLC.                                        *)
(***************************************************************************)
EXTENDS WorkItemApi

CONSTANTS r1, r2, i1

TwoRequests == {r1, r2}
OneItem     == {i1}
=============================================================================
