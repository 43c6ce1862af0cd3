---------------------------- MODULE LinkedStore ----------------------------
(***************************************************************************)
(* What ProjectService promises of values and links: every operation takes *)
(* effect on all of its files and on the links in one step, or fails and   *)
(* changes nothing.  The members of a link always have one value.          *)
(***************************************************************************)
EXTENDS Naturals, FiniteSets

CONSTANTS File, Key, Value, Absent

VARIABLES
  files,   \* files[f][k]: the value f assigns to k, or Absent
  links,   \* the links, each with its id, key and members
  warned,  \* the last caller was told that files and links may not fit
  linking  \* the operation under way creates a link

vars == <<files, links, warned, linking>>

Assigns(f, k) == files[f][k] # Absent
Linked(f, k) == \E link \in links : link.key = k /\ f \in link.members

\* All files of S assign v to k.
Put(S, k, v) == files' = [f \in File |-> IF f \in S THEN [files[f] EXCEPT ![k] = v] ELSE files[f]]

Init == files \in [File -> [Key -> Value \cup {Absent}]] /\ links = {} /\ ~warned /\ ~linking

Add(f, k, v) == ~Assigns(f, k) /\ Put({f}, k, v) /\ UNCHANGED <<links, warned>>

Delete(f, k) == Assigns(f, k) /\ ~Linked(f, k) /\ Put({f}, k, Absent) /\ UNCHANGED <<links, warned>>

\* Saving one member saves them all.
Save(f, k, v) ==
  /\ Assigns(f, k)
  /\ LET linked == { link \in links : link.key = k /\ f \in link.members }
     IN  Put({f} \cup UNION { link.members : link \in linked }, k, v)
  /\ UNCHANGED <<links, warned>>

\* A link brings its members to one of the values they have.
CanUnify(S, k, v) ==
  /\ Cardinality(S) >= 2
  /\ \A f \in S : Assigns(f, k) /\ ~Linked(f, k)
  /\ \E f \in S : files[f][k] = v

Link(S, k, v) ==
  /\ CanUnify(S, k, v)
  /\ Put(S, k, v)
  /\ links' = links \cup {[id |-> S, key |-> k, members |-> S]}
  /\ UNCHANGED warned

\* The one failure with an effect, and the caller is told: the members have the value, the link is
\* not recorded.
LinkIncomplete(S, k, v) == CanUnify(S, k, v) /\ Put(S, k, v) /\ warned' /\ UNCHANGED links

\* An operation begins, or ends having changed nothing more.
Forget == ~warned' /\ UNCHANGED <<files, links>>

Detach(link, f) ==
  /\ LET rest == [link EXCEPT !.members = @ \ {f}]
     IN  links' = (links \ {link}) \cup IF Cardinality(rest.members) >= 2 THEN {rest} ELSE {}
  /\ UNCHANGED <<files, warned>>

Next ==
  /\ linking' \in BOOLEAN
  /\ \/ ~linking /\ \E f \in File, k \in Key :
                     \/ Delete(f, k)
                     \/ \E v \in Value : Add(f, k, v) \/ Save(f, k, v)
     \/ linking /\ \E S \in SUBSET File, k \in Key, v \in Value :
                     Link(S, k, v) \/ LinkIncomplete(S, k, v)
     \/ ~linking /\ \E link \in links, f \in File : Detach(link, f)
     \/ Forget

Spec == Init /\ [][Next]_vars
============================================================================
