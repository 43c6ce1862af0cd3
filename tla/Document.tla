------------------------------ MODULE Document ------------------------------
(***************************************************************************)
(* How env-core reads an env file (crates/env-core/src/parser.rs): a       *)
(* Document is the bytes of the file and a list of nodes over spans of     *)
(* them, so that an edit replaces a span and leaves every other byte.      *)
(*                                                                         *)
(* A text is a sequence of tokens: a word stands for a run of letters, the *)
(* characters that mean something to the parser stand for themselves.      *)
(* Spaces and tabs are one token.  NUL and bytes that are not UTF-8, which *)
(* make parse fail, and the zeroizing of memory are left out.              *)
(***************************************************************************)
EXTENDS Integers, Sequences, SequencesExt, FiniteSetsExt

CONSTANT Word    \* tokens that a key may be made of

Space == " "
Hash == "#"
Equals == "="
LF == "\n"
CR == "\r"
Quotes == {"'", "\""}
Backslash == "\\"
Export == "export"
Group == "@group"
Bom == "BOM"

White == {Space, LF, CR}

WordAssumption ==
  Word \cap (White \cup Quotes \cup {Hash, Equals, Backslash, Export, Group, Bom}) = {}

----------------------------------------------------------------------------
\* Spans hold their last position; an empty one ends before it starts.
Span(from, to) == [from |-> from, to |-> to]
Text(s, span) == SubSeq(s, span.from, span.to)
ReplaceSpan(s, span, new) == SubSeq(s, 1, span.from - 1) \o new \o SubSeq(s, span.to + 1, Len(s))

FirstOr(S, otherwise) == IF S = {} THEN otherwise ELSE Min(S)
LastOr(S, otherwise) == IF S = {} THEN otherwise ELSE Max(S)
Skip(s, from, to, tokens) == FirstOr({ i \in from..to : s[i] \notin tokens }, to + 1)

\* trim_ascii
Trimmed(s, from, to) ==
  LET ink == { i \in from..to : s[i] \notin White }
  IN  IF ink = {} THEN Span(from, from - 1) ELSE Span(Min(ink), Max(ink))
TrimmedText(s, span) == Text(s, Trimmed(s, span.from, span.to))

ContentStart(s) == IF s # << >> /\ s[1] = Bom THEN 2 ELSE 1
NewlineOf(s) == IF \E i \in 2..Len(s) : s[i - 1] = CR /\ s[i] = LF THEN <<CR, LF>> ELSE <<LF>>

\* line_spans and line_body_end
LineEnd(s, i) == FirstOr({ j \in i..Len(s) : s[j] = LF }, Len(s))
BodyEnd(s, i) ==
  LET end == LineEnd(s, i)
      cut == IF s[end] = LF THEN end - 1 ELSE end
  IN  IF cut >= i /\ s[cut] = CR THEN cut - 1 ELSE cut

----------------------------------------------------------------------------
Node(kind, from, to) == [kind |-> kind, from |-> from, to |-> to, key |-> << >>, part |-> Span(1, 0)]

\* parse_group_directive: the span of the name, empty if the line is a comment.
GroupName(s, hash, end) ==
  LET at == Skip(s, hash + 1, end, White)
  IN  IF at < end /\ s[at] = Group /\ s[at + 1] \in White THEN Trimmed(s, at + 1, end)
                                                          ELSE Span(1, 0)

Remark(s, from, hash, end) ==
  LET name == GroupName(s, hash, end)
  IN  IF name.to < name.from
        THEN [Node("comment", from, LineEnd(s, from)) EXCEPT !.part = Span(hash + 1, end)]
        ELSE [Node("group", from, LineEnd(s, from)) EXCEPT !.part = name]

\* unquoted_value_end: a comment begins with a hash at the start or after a blank.
UnquotedEnd(s, v, end) ==
  LET hash == FirstOr({ i \in v..end : s[i] = Hash /\ (i = v \/ s[i - 1] \in White) }, end + 1)
  IN  LastOr({ i \in v..(hash - 1) : s[i] \notin White }, v - 1)

\* An odd number of backslashes before i, from the opening quote on.
Escaped(s, quote, i) ==
  (i - LastOr({ j \in quote..(i - 1) : s[j] # Backslash }, quote)) % 2 = 0

\* The closing quote, 0 if there is none in the rest of the text; it may be on a later line.  That
\* the code scans again from each later line, which matters only to a text that ends in an odd
\* number of backslashes, is left out.
Closing(s, quote) ==
  FirstOr({ i \in (quote + 1)..Len(s) :
              s[i] = s[quote] /\ (s[quote] = "\"" => ~Escaped(s, quote, i)) }, 0)

\* parse_assignment_start: where key and value are, or no key.
Head1(s, from, end) ==
  LET first == Skip(s, from, end, {Space})
      key == IF first < end /\ s[first] = Export /\ s[first + 1] \in White
               THEN Skip(s, first + 1, end, {Space}) ELSE first
      after == Skip(s, key, end, Word \cup {Export})
      equals == Skip(s, after, end, {Space})
  IN  IF after > key /\ equals <= end /\ s[equals] = Equals
        THEN [key |-> SubSeq(s, key, after - 1), value |-> Skip(s, equals + 1, end, {Space})]
        ELSE [key |-> << >>, value |-> 0]

\* parse, one assignment: its span ends with the line it begins on, also when its value does not;
\* a quote that is never closed makes the rest of the text opaque.
Assignment(s, from, head, end) ==
  LET v == head.value
      quoted == v <= end /\ s[v] \in Quotes
      close == Closing(s, v)
  IN  IF quoted /\ close = 0
        THEN Node("opaque", from, Len(s))
        ELSE [Node("assignment", from, LineEnd(s, from)) EXCEPT
                !.key = head.key,
                !.part = Span(v, IF quoted THEN close ELSE UnquotedEnd(s, v, end))]

NodeAt(s, from) ==
  LET end == BodyEnd(s, from)
      first == Skip(s, from, end, White)
      head == Head1(s, from, end)
  IN  IF first > end THEN Node("blank", from, LineEnd(s, from))
      ELSE IF s[first] = Hash THEN Remark(s, from, first, end)
      ELSE IF head.key # << >> THEN Assignment(s, from, head, end)
      ELSE Node("opaque", from, LineEnd(s, from))

RECURSIVE NodesFrom(_, _)
NodesFrom(s, from) ==
  IF from > Len(s) THEN << >> ELSE LET n == NodeAt(s, from) IN <<n>> \o NodesFrom(s, n.to + 1)

Parse(s) == [source |-> s, nodes |-> NodesFrom(s, ContentStart(s))]

Where(d, Test(_)) == { i \in DOMAIN d.nodes : Test(d.nodes[i]) }

\* assignment: it fails unless the key is there once.
Assigning(d, key) == Where(d, LAMBDA n : n.kind = "assignment" /\ n.key = key)
Once(d, key) == Cardinality(Assigning(d, key)) = 1
IndexOf(d, key) == Min(Assigning(d, key))

----------------------------------------------------------------------------
\* double_quote
Escape(c) ==
  CASE c = Backslash -> <<Backslash, Backslash>>
    [] c = "\"" -> <<Backslash, "\"">>
    [] c = LF -> <<Backslash, "n">>
    [] c = CR -> <<Backslash, "r">>
    [] OTHER -> <<c>>
DoubleQuote(v) == <<"\"">> \o FlattenSeq([i \in DOMAIN v |-> Escape(v[i])]) \o <<"\"">>

Bare(v) == \A i \in DOMAIN v : v[i] \notin White \cup Quotes \cup {Hash}

\* Mutant: blanks are the only reason to quote.
EncodeOnlyBlanks(v, old) ==
  IF \A i \in DOMAIN v : v[i] \notin White THEN v ELSE DoubleQuote(v)

Quoted(v, quote) == v # << >> /\ v[1] = quote /\ Last(v) = quote

\* encode_value: in the manner of the value that is replaced.
Encode(v, old) ==
  IF Quoted(old, "'") /\ ~Contains(v, "'") THEN <<"'">> \o v \o <<"'">>
  ELSE IF Quoted(old, "\"") THEN DoubleQuote(v)
  ELSE IF Bare(v) THEN v
  ELSE DoubleQuote(v)

RECURSIVE Unescaped(_)
Unescaped(v) ==
  IF v = << >> THEN << >>
  ELSE IF v[1] # Backslash \/ Len(v) = 1 THEN <<v[1]>> \o Unescaped(Tail(v))
  ELSE LET rest == Unescaped(SubSeq(v, 3, Len(v)))
       IN  CASE v[2] = "n" -> <<LF>> \o rest
             [] v[2] = "r" -> <<CR>> \o rest
             [] v[2] \in {"\"", Backslash} -> <<v[2]>> \o rest
             [] OTHER -> SubSeq(v, 1, 2) \o rest

\* decode_value
Decode(v) ==
  IF Len(v) >= 2 /\ Quoted(v, "'") THEN SubSeq(v, 2, Len(v) - 1)
  ELSE IF Len(v) >= 2 /\ Quoted(v, "\"") THEN Unescaped(SubSeq(v, 2, Len(v) - 1))
  ELSE v

\* replace_value
ReplaceValue(d, key, v) ==
  LET span == d.nodes[IndexOf(d, key)].part
  IN  ReplaceSpan(d.source, span, Encode(v, Text(d.source, span)))
=============================================================================
