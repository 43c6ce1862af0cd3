----------------------------- MODULE MCPrograms -----------------------------
(***************************************************************************)
(* An instance of Programs for TLC.  Two processes for values from stdin,  *)
(* one of which may take the other's plan, and two files that may be       *)
(* linked.  Two verifiers and one request, whose time runs far enough for  *)
(* a marker to be removed.                                                 *)
(***************************************************************************)
EXTENDS Programs, TLC

CONSTANTS f1, f2

TwoFiles == <<f1, f2>>

Symmetry == Permutations(Process) \cup Permutations(Plan) \cup Permutations(Verifier)
=============================================================================
