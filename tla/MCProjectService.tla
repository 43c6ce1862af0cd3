-------------------------- MODULE MCProjectService --------------------------
(***************************************************************************)
(* Instances of ProjectService for TLC.  Two files are as many as a link   *)
(* needs; two values besides the empty one can conflict.                   *)
(***************************************************************************)
EXTENDS ProjectService, TLC

CONSTANTS p1, p2, f1, f2, k1, v1, v2, none, empty

TwoFiles == <<f1, f2>>
=============================================================================
