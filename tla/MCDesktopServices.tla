-------------------------- MODULE MCDesktopServices --------------------------
(***************************************************************************)
(* An instance of DesktopServices for TLC: two writers (the desktop app    *)
(* and one broker) and two files, which are what the two passes and a      *)
(* rollback need; two keys and every provider; a broker beside an older    *)
(* one, whose events the app moves when it starts.                         *)
(***************************************************************************)
EXTENDS DesktopServices, TLC

CONSTANTS w1, w2, k1, k2

OneLegacy == [b \in Broker |-> IF b = "older" THEN "legacy" ELSE "app"]

\* No part has both writers and keys: their names are exchanged together.
Symmetry ==
  Permutations(Bytes) \cup {w1 :> w2 @@ w2 :> w1 @@ k1 :> k2 @@ k2 :> k1}
=============================================================================
