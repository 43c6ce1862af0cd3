--------------------------- MODULE DocumentEdits ---------------------------
(***************************************************************************)
(* The edits the project service makes to one env file (service/values.rs, *)
(* service/structure.rs, migration.rs): each loads the file, finds spans   *)
(* in its Document, and commits the text with these spans replaced.  The   *)
(* file is written by nobody else meanwhile (Transaction and               *)
(* ProjectService say what happens then), and has no linked occurrence.    *)
(***************************************************************************)
EXTENDS Document, FiniteSets

CONSTANTS
  Key, Value, Name,   \* what edits ask for: keys, values, names of groups
  Remarks,            \* descriptions: sequences of lines
  Texts,              \* what the file may hold at first
  Edits,              \* the operations that are called
  MaxEdits            \* bound: how many

\* "기타": above the first group; a request may leave the name empty instead.
Other == <<"Other">>
Marker == "==="    \* as are "---", "**", and brackets

AllEdits == {"save_value", "add_variable", "delete_variable", "move_variable", "create_group",
             "rename_group", "save_description", "migrate"}
EditsAssumption == Edits \subseteq AllEdits /\ MaxEdits \in Nat

VARIABLES
  file,    \* the file, as a Document
  edit,    \* the last edit
  count    \* how many there were

vars == <<file, edit, count>>

NoEdit == [op |-> "none", key |-> << >>, value |-> << >>, group |-> << >>, lines |-> << >>]

Init == file \in { Parse(s) : s \in Texts } /\ edit = NoEdit /\ count = 0

\* commit_one
Commits(e, new) == file' = Parse(new) /\ edit' = e /\ count' = count + 1

----------------------------------------------------------------------------
Groups(d) == Where(d, LAMBDA n : n.kind = "group")
NameOf(d, i) == Text(d.source, d.nodes[i].part)

\* find_unique_group_index; with two of a name the edit fails.
Named(d, name) == { i \in Groups(d) : NameOf(d, i) = name }

\* first_group_start and next_group_start, or the end of the text.
GroupStart(d, after) ==
  LET groups == { i \in Groups(d) : i > after }
  IN  IF groups = {} THEN Len(d.source) + 1 ELSE d.nodes[Min(groups)].from

\* Where the variables of a group end.
GroupEnd(d, name) == GroupStart(d, Min(Named(d, name)))

Directive(d, n) ==
  LET content == TrimmedText(d.source, n.part) IN content # << >> /\ content[1] = Group

\* attached_comment_start: the comments directly above node i.
BlockStart(d, i) ==
  LET other == { j \in 1..(i - 1) : d.nodes[j].kind # "comment" \/ Directive(d, d.nodes[j]) }
  IN  d.nodes[LastOr(other, 0) + 1].from

\* group_at
GroupAt(d, i) ==
  LET above == { j \in Groups(d) : j < i }
  IN  IF above = {} THEN Other ELSE NameOf(d, Max(above))

Comment(line, newline) == <<Hash, Space>> \o line \o newline
Comments(lines, newline) == FlattenSeq([i \in DOMAIN lines |-> Comment(lines[i], newline)])
GroupLine(name, newline) == <<Hash, Space, Group, Space>> \o name \o newline

\* What separates a new block from the text above it: its line is ended, and a blank one follows.
Separation(s, at) ==
  LET newline == NewlineOf(s)
      above == SubSeq(s, 1, at - 1)
  IN  IF at <= ContentStart(s) THEN << >>
      ELSE (IF Last(above) # LF THEN newline ELSE << >>)
             \o (IF IsSuffix(newline \o newline, above) THEN << >> ELSE newline)

Insert(s, at, block) == ReplaceSpan(s, Span(at, at - 1), block)

Ungrouped(group) == group \in {<< >>, Other}

----------------------------------------------------------------------------
SaveValue(key, v) ==
  /\ Once(file, key)
  /\ Commits([NoEdit EXCEPT !.op = "save_value", !.key = key, !.value = v],
             ReplaceValue(file, key, v))

\* encode_new_value
EncodeNew(v) == IF Bare(v) THEN v ELSE DoubleQuote(v)

\* Mutant: a variable goes to the end of the file whatever its group.
AddAtEnd(d, group) == Len(d.source) + 1

\* Where add_variable puts a new variable: above the first group, at the end of its group, or, for
\* a new group, at the end.
AddPosition(d, group) ==
  IF Ungrouped(group) THEN GroupStart(d, 0)
  ELSE IF Named(d, group) = {} THEN Len(d.source) + 1
  ELSE GroupEnd(d, group)

AddVariable(key, v, group, lines) ==
  /\ Assigning(file, key) = {} /\ (Ungrouped(group) \/ Cardinality(Named(file, group)) <= 1)
  /\ LET at == AddPosition(file, group)
         newline == NewlineOf(file.source)
         heading == IF Ungrouped(group) \/ Named(file, group) # {} THEN << >>
                      ELSE GroupLine(group, newline) \o newline
     IN  Commits([op |-> "add_variable", key |-> key, value |-> v, group |-> group,
                  lines |-> lines],
           Insert(file.source, at,
             Separation(file.source, at) \o heading \o Comments(lines, newline)
               \o key \o <<Equals>> \o EncodeNew(v) \o newline))

DeleteVariable(key) ==
  /\ Once(file, key)
  /\ LET i == IndexOf(file, key)
     IN  Commits([NoEdit EXCEPT !.op = "delete_variable", !.key = key],
           ReplaceSpan(file.source, Span(BlockStart(file, i), file.nodes[i].to), << >>))

\* Mutant: the position is not moved up by what was taken out above it.
MoveWithoutShift(target, block) == target

\* Where the block goes once it has been taken out.
MovePosition(target, block) ==
  IF target > block.to + 1 THEN target - (block.to - block.from + 1) ELSE target

\* A position behind the end makes the splice panic, and nothing is written.
MoveVariable(key, group) ==
  /\ Once(file, key)
  /\ Ungrouped(group) \/ Cardinality(Named(file, group)) = 1
  /\ LET i == IndexOf(file, key)
         block == Span(BlockStart(file, i), file.nodes[i].to)
         taken == ReplaceSpan(file.source, block, << >>)
         target == IF Ungrouped(group) THEN GroupStart(file, 0) ELSE GroupEnd(file, group)
         at == MovePosition(target, block)
     IN  /\ GroupAt(file, i) # group
         /\ at <= Len(taken) + 1
         /\ Commits([NoEdit EXCEPT !.op = "move_variable", !.key = key, !.group = group],
                    Insert(taken, at, Text(file.source, block)))

\* A name that is empty or the one of no group is refused.
CreateGroup(name) ==
  /\ ~Ungrouped(name) /\ Named(file, name) = {}
  /\ LET s == file.source
     IN  Commits([NoEdit EXCEPT !.op = "create_group", !.group = name],
           s \o Separation(s, Len(s) + 1) \o GroupLine(name, NewlineOf(s)))

RenameGroup(name, new) ==
  /\ Cardinality(Named(file, name)) = 1
  /\ ~Ungrouped(new) /\ new # name /\ Named(file, new) = {}
  /\ Commits([NoEdit EXCEPT !.op = "rename_group", !.group = new],
       ReplaceSpan(file.source, file.nodes[Min(Named(file, name))].part, new))

SaveDescription(key, lines) ==
  /\ Once(file, key)
  /\ LET i == IndexOf(file, key)
     IN  Commits([NoEdit EXCEPT !.op = "save_description", !.key = key, !.lines = lines],
           ReplaceSpan(file.source, Span(BlockStart(file, i), file.nodes[i].from - 1),
                       Comments(lines, NewlineOf(file.source))))

\* parse_visual_group: the name between two markers, empty for any other node.
Visual(d, n) ==
  LET content == TrimmedText(d.source, n.part)
      between == TrimmedText(content, Span(2, Len(content) - 1))
  IN  IF /\ n.kind = "comment" /\ Len(content) >= 2
         /\ content[1] = Marker /\ Last(content) = Marker
         /\ between # << >> /\ between[1] # Group
         /\ \A i \in DOMAIN between : between[i] \notin {Equals, Marker, CR, LF}
        THEN between ELSE << >>

\* A comment that marks a group becomes a directive with the line's own ending.
LineMigrated(d, n) ==
  IF Visual(d, n) = << >> THEN Text(d.source, Span(n.from, n.to))
  ELSE GroupLine(Visual(d, n), SubSeq(d.source, BodyEnd(d.source, n.from) + 1, n.to))

\* MigrationPlan: the spans are replaced from the last to the first.
Migrate ==
  /\ \E i \in DOMAIN file.nodes : Visual(file, file.nodes[i]) # << >>
  /\ Commits([NoEdit EXCEPT !.op = "migrate"],
       SubSeq(file.source, 1, ContentStart(file.source) - 1)
         \o FlattenSeq([i \in DOMAIN file.nodes |-> LineMigrated(file, file.nodes[i])]))

Next ==
  /\ count < MaxEdits
  /\ \/ /\ "save_value" \in Edits
        /\ \E key \in Key, v \in Value : SaveValue(key, v)
     \/ /\ "add_variable" \in Edits
        /\ \E key \in Key, v \in Value, group \in Name, lines \in Remarks :
             AddVariable(key, v, group, lines)
     \/ /\ "delete_variable" \in Edits
        /\ \E key \in Key : DeleteVariable(key)
     \/ /\ "move_variable" \in Edits
        /\ \E key \in Key, group \in Name : MoveVariable(key, group)
     \/ /\ "create_group" \in Edits
        /\ \E name \in Name : CreateGroup(name)
     \/ /\ "rename_group" \in Edits
        /\ \E name, new \in Name : RenameGroup(name, new)
     \/ /\ "save_description" \in Edits
        /\ \E key \in Key, lines \in Remarks : SaveDescription(key, lines)
     \/ "migrate" \in Edits /\ Migrate

Spec == Init /\ [][Next]_vars

----------------------------------------------------------------------------
\* What a program that loads the file sees in its text: as Nodes, but a value that is quoted over
\* several lines is one entry with all of its lines.  Only KeepsTheRest uses it, for what an edit does
\* to the text; what env-core itself reads and shows is in the nodes of the Document.
RECURSIVE EntriesFrom(_, _)
EntriesFrom(s, from) ==
  IF from > Len(s) THEN << >>
  ELSE LET n == NodeAt(s, from)
           end == IF n.kind = "assignment" /\ n.part.to > n.to THEN LineEnd(s, n.part.to) ELSE n.to
           tail == TrimmedText(s, Span(n.part.to + 1, end))
       IN  <<[kind |-> n.kind, key |-> n.key,
              content |-> CASE n.kind = "assignment" -> Decode(Text(s, n.part))
                            [] n.kind = "opaque" -> TrimmedText(s, Span(from, end))
                            [] OTHER -> TrimmedText(s, n.part),
              tail |-> IF n.kind = "assignment" THEN tail ELSE << >>]>>
             \o EntriesFrom(s, end + 1)

Entries(s) == EntriesFrom(s, ContentStart(s))
Of(entries, kind) == SelectSeq(entries, LAMBDA e : e.kind = kind)
Others(entries, key) == SelectSeq(entries, LAMBDA e : e.key # key)
Bag(seq) == [e \in ToSet(seq) |-> Cardinality({ i \in DOMAIN seq : seq[i] = e })]

\* project_file: what the app shows of the assignment i, its group and its description, the comments
\* directly above it, each without the blanks it begins with.
Shown(d, i) ==
  LET top == LastOr({ j \in 1..(i - 1) : d.nodes[j].kind # "comment" \/ Directive(d, d.nodes[j]) }, 0)
      Said(n) == SubSeq(d.source, Skip(d.source, n.part.from, n.part.to, White), n.part.to)
  IN  [key |-> d.nodes[i].key, group |-> GroupAt(d, i),
       description |-> [j \in 1..(i - 1 - top) |-> Said(d.nodes[top + j])]]
Variables(d) == { Shown(d, i) : i \in Where(d, LAMBDA n : n.kind = "assignment") }

\* The rest of the file is as it was: the other variables in their order with their values and what
\* follows these, lines that are no variables, the value an edit is not about, and the comments.
KeepsTheRest(s, t, e) ==
  LET old == Entries(s)
      new == Entries(t)
      oldVars == Of(old, "assignment")
      newVars == Of(new, "assignment")
  IN  /\ Others(oldVars, e.key) = Others(newVars, e.key)
      /\ Of(old, "opaque") = Of(new, "opaque")
      /\ e.op = "save_value" =>
           [i \in DOMAIN oldVars |-> oldVars[i].tail] = [i \in DOMAIN newVars |-> newVars[i].tail]
      /\ e.op \in {"move_variable", "save_description"} => Bag(oldVars) = Bag(newVars)
      /\ e.op \in {"save_value", "move_variable", "create_group", "rename_group"} =>
           Bag(Of(old, "comment")) = Bag(Of(new, "comment"))

\* A file in which the edits find all they look for: its last line is ended, values are on one line
\* and all quotes closed, and no comment follows where a value would begin.
Plain(d) ==
  /\ d.source # << >> => Last(d.source) = LF
  /\ \A i \in DOMAIN d.nodes :
       LET n == d.nodes[i]
       IN  /\ n.part.to <= n.to
           /\ n.kind = "opaque" => \A j \in n.from..n.to : d.source[j] \notin Quotes
           /\ n.kind = "assignment" /\ n.part.to < n.part.from => d.source[n.part.from] # Hash

\* The edit of a plain file, where a variable is moved to a group by its name.
PlainEdit == Plain(file) /\ (edit'.op = "move_variable" => edit'.group # << >>)

\* "Kavranta preserves paths, comments, ordering, and unrelated formatting" (README.md:36).
EditsKeepTheRest == [][ KeepsTheRest(file.source, file'.source, edit') ]_vars

\* The same of plain files.
PlainEditsKeepTheRest ==
  [][ PlainEdit => KeepsTheRest(file.source, file'.source, edit') ]_vars

\* The value that is saved has several lines and replaces one in single quotes: encode_value puts it
\* between these as it is, and parse takes its later lines for lines of the file.
RawLines ==
  /\ edit'.op = "save_value" /\ LF \in ToSet(edit'.value)
  /\ LET old == Text(file.source, file.nodes[IndexOf(file, edit'.key)].part)
     IN  Quoted(old, "'") /\ ~Contains(edit'.value, "'")

\* A value that was saved or added in a plain file is what decoded_value reads from it, however it
\* had to be quoted, and assignment finds it the only one of its key; only a value of several lines
\* that was put between single quotes can hold a line that is read as another of the key.
SavedValueReadsBack ==
  [][ PlainEdit /\ edit'.op \in {"save_value", "add_variable"} =>
        LET own == Assigning(file', edit'.key)
            at == file'.nodes[Min(own)].part
        IN  /\ own # {} /\ Decode(Text(file'.source, at)) = edit'.value
            /\ \A i \in own \ {Min(own)} : RawLines /\ file'.nodes[i].from \in at.from..at.to ]_vars

\* What project_file shows after an edit of a plain file: a variable is in the group it was added or
\* moved to, a description is the one that was asked for, and the other variables keep both; a value
\* of several lines that was put between single quotes is left out, its lines are shown as variables.
ShownAsAsked ==
  [][ PlainEdit /\ edit'.op \notin {"migrate", "rename_group"} /\ ~RawLines =>
        \A before \in {Variables(file)}, after \in {Variables(file')} :
          /\ { v \in before : v.key # edit'.key } = { v \in after : v.key # edit'.key }
          /\ \A v \in after : v.key = edit'.key =>
               /\ edit'.op \in {"add_variable", "move_variable"} =>
                    v.group = IF edit'.group = << >> THEN Other ELSE edit'.group
               /\ edit'.op \in {"add_variable", "save_description"} =>
                    v.description = edit'.lines ]_vars
=============================================================================
