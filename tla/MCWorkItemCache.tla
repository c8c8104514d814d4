--------------------------- MODULE MCWorkItemCache ---------------------------
(***************************************************************************)
(* Instances of WorkItemCache for TLC.                                     *)
(***************************************************************************)
EXTENDS WorkItemCache

CONSTANTS r1, i1, q1

OneRequest == {r1}
OneItem    == {i1}
OneReader  == {q1}
=============================================================================
