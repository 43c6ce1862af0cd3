---------------------------- MODULE TeamPackage ----------------------------
(***************************************************************************)
(* What a sender and a receiver of env files share: the files of the       *)
(* project by their relative path, what Document reads from a file, the    *)
(* links of the manifest, and the package that export.rs writes and        *)
(* team_import/package.rs reads.  Encryption and the ZIP container carry   *)
(* the contents unchanged or fail, and are left out.                       *)
(***************************************************************************)
EXTENDS Naturals, Sequences, FiniteSets, Functions, SequencesExt

CONSTANTS
  FileOrder,   \* the managed env files in path order
  Key,
  Value,       \* values a variable can have
  Absent,      \* what a file that does not assign a key has for it
  NoFile       \* what is at the path of a file that does not exist

ASSUME TeamFilesAssumption == FileOrder \in Seq(ToSet(FileOrder)) /\ IsInjective(FileOrder)
ASSUME TeamValuesAssumption == Absent \notin Value

File == ToSet(FileOrder)
Bytes == [Key -> Value \cup {Absent}]
Content == Bytes \cup {NoFile}

ASSUME NoFileAssumption == NoFile \notin Bytes

\* A loop over files takes them in path order: what it comes to next when it has S left.
Before(f, g) == \E i, j \in DOMAIN FileOrder : i < j /\ FileOrder[i] = f /\ FileOrder[j] = g
Earliest(S) == { f \in S : \A g \in S : ~Before(g, f) }

\* Maps: one without entries, and one with an entry that is new or replaces another.
Nothing == [f \in {} |-> NoFile]
With(map, x, y) == [z \in DOMAIN map \cup {x} |-> IF z = x THEN y ELSE map[z]]

Assigned(content) == IF content = NoFile THEN {} ELSE { k \in Key : content[k] # Absent }

Link == [key : Key, members : { S \in SUBSET File : Cardinality(S) >= 2 }]
=============================================================================
