--------------------------- MODULE MCTeamSharing ---------------------------
(***************************************************************************)
(* An instance of TeamSharing for TLC: a publisher and a receiver, two     *)
(* folders, two files, one key, two values.                                *)
(***************************************************************************)
EXTENDS TeamSharing

CONSTANTS s, r, f1, f2, k, v, w, d1, d2, c1, c2, q1

TwoFiles == <<f1, f2>>

\* The publisher's files disagree, agree or one is missing; where they agree they may be linked.
Origins ==
  LET one(x) == [y \in {k} |-> x]
      both == [key |-> k, members |-> {f1, f2}]
  IN  { [files |-> f1 :> one(x) @@ f2 :> one(y), links |-> {}] : x, y \in {v, w} }
        \cup { [files |-> f1 :> one(x) @@ f2 :> NoFile, links |-> {}] : x \in {v, w} }
        \cup { [files |-> f1 :> one(x) @@ f2 :> one(x), links |-> {both}] : x \in {v, w} }

\* A folder may hold a package with the first file, from before.
FirstFiles == { f1 :> (k :> x) : x \in {v, w} }

Symmetry == Permutations({v, w}) \cup Permutations({c1, c2}) \cup Permutations({d1, d2})
=============================================================================
